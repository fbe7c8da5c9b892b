------------------------------- MODULE Kernels --------------------------------
(***************************************************************************)
(* The arithmetic of prediction, in internal/lpc and internal/i32: the       *)
(* residuals that the encoder takes, and how the decoder puts the samples    *)
(* back.  Up to 24 bits per sample are computed in int32, which has Width    *)
(* bits here and wraps, with routines of its own: differences by binomials,  *)
(* sums instead of predictions, linear prediction in int64 or, where that    *)
(* is safe, in int32.  Above 24 bits all of it is int64, taken as exact.     *)
(* The assembly is external: its tests hold it to the Go code modelled here. *)
(***************************************************************************)
EXTENDS Integers, Sequences, FiniteSetsExt, Functions, SequencesExt

CONSTANT WideBits       \* the bits of the width of an int32

Width == 2 ^ WideBits

Signed(v, n) == IF n > 0 /\ v >= 2 ^ (n - 1) THEN v - 2 ^ n ELSE v
Wrapped(v, n) == Signed(v % 2 ^ n, n)
Int32(v) == Wrapped(v, Width)

Magnitude(v) == IF v < 0 THEN -v ELSE v

-----------------------------------------------------------------------------
(* The predictors of the format.  A prediction is from samples up to n - 1.  *)

fixedCoeffs == <<<<>>, <<1>>, <<2, -1>>, <<3, -3, 1>>, <<4, -6, 4, -1>>>>
Taps(s, n, coeffs) == MapThenSumSet(LAMBDA j : coeffs[j] * s[n - j], DOMAIN coeffs)
Prediction(s, n, coeffs, shift) == Taps(s, n, coeffs) \div 2 ^ shift

\* The exact residual and samples, as int64 holds them.
Residual64(s, coeffs, shift) ==
    LET o == Len(coeffs)
    IN  [i \in 1..(Len(s) - o) |-> s[i + o] - Prediction(s, i + o, coeffs, shift)]
Restored64(warm, res, coeffs, shift) ==
    LET o == Len(coeffs)
        s[i \in 1..(o + Len(res))] ==
            IF i <= o THEN warm[i] ELSE res[i - o] + Prediction(s, i, coeffs, shift)
    IN  s

-----------------------------------------------------------------------------
(* Residuals in int32.                                                       *)

binomials == <<<<1, -1>>, <<1, -2, 1>>, <<1, -3, 3, -1>>, <<1, -4, 6, -4, 1>>>>

\* Order 0 is the samples themselves, and their caller takes no difference.
Diff(s, o) ==
    IF o = 0 THEN s
    ELSE [i \in 1..(Len(s) - o) |-> Int32(Taps(s, i + o + 1, binomials[o]))]

\* The prediction is narrowed once it is shifted.
LPCResidualEncode(s, coeffs, shift) ==
    LET o == Len(coeffs)
    IN  [i \in 1..(Len(s) - o) |-> Int32(s[i + o] - Int32(Prediction(s, i + o, coeffs, shift)))]

\* For each fixed order, the magnitudes of differences of differences, in one pass
\* that leaves out as many of the first as the order has.
FixedAbsSums(s) ==
    LET e[o \in 0..4] == [i \in DOMAIN s |->
            IF o = 0 THEN s[i] ELSE e[o - 1][i] - (IF i = 1 THEN 0 ELSE e[o - 1][i - 1])]
    IN  [o \in 0..4 |-> MapThenSumSet(LAMBDA i : Magnitude(e[o][i]), {i \in DOMAIN s : i > o})]

-----------------------------------------------------------------------------
(* Restoration in int32.                                                     *)

cumsum(s) == [i \in DOMAIN s |-> Int32(MapThenSumSet(LAMBDA j : s[j], 1..i))]

\* The first samples are stored as they are; one pass takes their difference.
Redifferenced(s, o) ==
    [i \in DOMAIN s |-> IF i \in 2..o THEN Int32(s[i] - s[i - 1]) ELSE s[i]]

\* Fixed prediction of order o is undone by o sums, once the first samples look as if
\* they had been differenced too.
RestoreFixed32(warm, res) ==
    LET o == Len(warm)
        d[k \in 0..o] == IF k = 0 THEN warm \o res ELSE Redifferenced(d[k - 1], o)
        c[k \in 0..o] == IF k = 0 THEN d[o] ELSE cumsum(c[k - 1])
    IN  IF res = <<>> THEN warm ELSE c[o]

maxLPCShiftNarrow  == Width - 1
maxLPCRestoreOrder == 32

\* Mutant of LPCRestoreNarrowSafe: a bit of the samples is not counted.
LPCRestoreNarrowSafe_Unsigned(coeffs, bps, shift) ==
    LET a == MapThenSumSet(LAMBDA j : Magnitude(coeffs[j]), DOMAIN coeffs)
        shifted == (a * 2 ^ (bps - 1) + 2 ^ shift - 1) \div 2 ^ shift
    IN  /\ bps \in 1..Width /\ shift <= maxLPCShiftNarrow /\ Len(coeffs) <= maxLPCRestoreOrder
        /\ a < 2 ^ (Width - bps + 1)
        /\ 2 ^ (bps - 1) + shifted < 2 ^ (Width - 1)

\* No sum of products, and no sample made of one, can leave int32.
LPCRestoreNarrowSafe(coeffs, bps, shift) ==
    LET a == MapThenSumSet(LAMBDA j : Magnitude(coeffs[j]), DOMAIN coeffs)
        shifted == (a * 2 ^ (bps - 1) + 2 ^ shift - 1) \div 2 ^ shift
    IN  /\ bps \in 1..Width /\ shift <= maxLPCShiftNarrow /\ Len(coeffs) <= maxLPCRestoreOrder
        /\ a < 2 ^ (Width - bps)
        /\ 2 ^ (bps - 1) + shifted < 2 ^ (Width - 1)

\* The unrolled kernels carry the last samples along, the most recent last.
LPCRestore(warm, res, coeffs, shift) ==
    LET o == Len(coeffs)
        Step(x, r) == Append(x, Int32(r + Int32(Taps(x, Len(x) + 1, coeffs) \div 2 ^ shift)))
    IN  FoldLeft(Step, warm, res)

\* The same with products and sums that wrap before the shift.
LPCRestoreNarrow(warm, res, coeffs, shift) ==
    LET by == 2 ^ Min({shift, maxLPCShiftNarrow})
        Step(x, r) == Append(x, Int32(r + Int32(Taps(x, Len(x) + 1, coeffs)) \div by))
    IN  FoldLeft(Step, warm, res)

RestoreLPC32(warm, res, coeffs, shift, bps) ==
    IF LPCRestoreNarrowSafe(coeffs, bps, shift)
    THEN LPCRestoreNarrow(warm, res, coeffs, shift) ELSE LPCRestore(warm, res, coeffs, shift)

-----------------------------------------------------------------------------
(* Pairs of channels in int32.                                               *)

Each(a, b, Op(_, _)) == [i \in DOMAIN a |-> Op(a[i], b[i])]
addI32(a, b) == Each(a, b, LAMBDA x, y : Int32(x + y))
subI32(a, b) == Each(a, b, LAMBDA x, y : Int32(x - y))
MidSideDecode(m, s) ==
    LET sum == Each(m, s, LAMBDA x, y : Int32(2 * x + (y % 2)))
        halved(d) == [i \in DOMAIN d |-> d[i] \div 2]
    IN  <<halved(addI32(sum, s)), halved(subI32(sum, s))>>

-----------------------------------------------------------------------------
(* Quantization.  A coefficient of the analysis is a multiple of 2^-f.       *)

maxQLPShift == 15

\* Frexp's exponent of the greatest magnitude, which is below 2^exp and at least half.
Exponent(c, f) ==
    LET m == Max({Magnitude(c[i]) : i \in DOMAIN c})
    IN  (CHOOSE e \in 0..(m + 1) : m < 2 ^ e /\ (e = 0 \/ m >= 2 ^ (e - 1))) - f

\* Halves are rounded away from zero.
Round(v, f) ==
    IF v >= 0 THEN (2 * v + 2 ^ f) \div 2 ^ (f + 1) ELSE -((2 * (-v) + 2 ^ f) \div 2 ^ (f + 1))

QLPShift(c, f, precision) == Max({0, Min({precision - 1 - Exponent(c, f), maxQLPShift})})

\* Each coefficient takes over the rounding error of those before it, not what the
\* limit of the precision cuts off.
quantizeCoefficients(c, f, precision) ==
    LET by == 2 ^ QLPShift(c, f, precision)
        limit == 2 ^ (precision - 1)
        carried[i \in 0..Len(c)] ==
            IF i = 0 THEN 0
            ELSE LET v == carried[i - 1] + c[i] * by IN v - Round(v, f) * 2 ^ f
    IN  [i \in DOMAIN c |-> Min({limit - 1, Max({-limit, Round(carried[i - 1] + c[i] * by, f)})})]
=============================================================================
