------------------------------ MODULE FrameBody -------------------------------
(***************************************************************************)
(* The subframes of one frame in internal/frame: EncodeFrame plans each      *)
(* signal into a slot of its workspace, chooses the channel assignment and   *)
(* writes; Decode reads the bits back, restores, and judges.  Residuals are  *)
(* planned, written and read by the actions of Rice, on the same stream; its *)
(* samples come from bytes and go to bytes as in Pcm.                        *)
(*                                                                          *)
(* An input is a block of samples for this encoder,                          *)
(*   [source |-> "pcm", ch, bps, stereo, exhaustive, maxOrder, predictors],  *)
(* or a frame that another encoder made of subframes of its choice,          *)
(*   [source |-> "foreign", subs, size, code, bps, maxOrder].                *)
(* A predictor is whatever the floating-point analysis may arrive at, in     *)
(* multiples of 2^-Fraction; its quantization is Kernels'.  int32 has Width  *)
(* bits; up to Narrow bits per sample (24 in FLAC) the code computes in it,  *)
(* above in int64.  The header of the frame is FrameHeader's; a CRC-16 is    *)
(* abstracted to whether it matches.                                         *)
(***************************************************************************)
EXTENDS Rice, Pcm

CONSTANTS
    Inputs,
    Narrow,         \* the greatest bit depth computed in int32
    LPCPrecision, Fraction,
    Targets,        \* output depths that a decoder may be asked for, beside the native one
    Cuts,           \* numbers of bits that a stream may lose at its end
    Relabels        \* methods and partition orders that may replace those written

ASSUME FrameAssumption == Narrow \in Nat /\ LPCPrecision \in 1..15 /\ Fraction \in Nat

VARIABLES
    input, chans,                    \* the channels of the block, as the encoder unpacked them
    signal, plan, cand, costRes,     \* encoding: the signal planned, the plans and residuals by slot
    assignment, todo, start,         \* the channel assignment, signals to write, where one starts
    condition,                       \* of the stream: "whole", "cut", "damaged", "relabelled"
    sub, head, warm, lpc,            \* decoding: the subframe, its header, first samples, predictor
    decoded, outOfRange, out, verdict,
    hashed, audio                    \* the bytes for the digest and for the caller

encoding == <<chans, signal, plan, cand, costRes, assignment, todo, start>>
decoding == <<sub, head, warm, lpc, decoded, outOfRange, out, verdict, hashed, audio>>
frameVars == <<input, encoding, condition, decoding>>
vars == <<riceVars, frameVars>>

chIndependent2 == 1
chLeftSide     == 8
chRightSide    == 9
chMidSide      == 10

Own == input.source = "pcm"
BlockSize == IF Own THEN Len(input.ch[1]) ELSE input.size
IsNarrow == input.bps <= Narrow

\* What a variable of the sample type holds.
Stored(v) == IF IsNarrow THEN Int32(v) ELSE v
Fits(s, bits) == \A i \in DOMAIN s : -(2 ^ (bits - 1)) <= s[i] /\ s[i] < 2 ^ (bits - 1)

-----------------------------------------------------------------------------
(* Encoding: what to code, and at which width.                               *)

Decorrelates == Own /\ Len(input.ch) = 2 /\ input.stereo # "independent"
Signals == IF Own THEN Len(input.ch) ELSE Len(input.subs)

\* Signals 3 and 4 are mid and side.
Signal(i) ==
    LET l == chans[1]
        r == chans[2]
    IN  CASE i = 3 /\ Decorrelates -> [n \in DOMAIN l |-> Stored(l[n] + r[n]) \div 2]
          [] i = 4 /\ Decorrelates -> [n \in DOMAIN l |-> Stored(l[n] - r[n])]
          [] OTHER -> chans[i]

\* The width of subframe k of a frame with channel assignment c.
WidthIn(c, k) ==
    input.bps + (IF (c \in {chLeftSide, chMidSide} /\ k = 2) \/ (c = chRightSide /\ k = 1) THEN 1 ELSE 0)
Depth(i) ==
    CASE ~Own -> WidthIn(input.code, i)
      [] Own /\ i = 4 /\ Decorrelates -> input.bps + 1
      [] OTHER -> input.bps

\* Mutant of Slot: one slot for all signals.
Slot_Shared(i) == 0

\* The workspace slot that carries what was planned for a signal.
Slot(i) == IF Decorrelates THEN i - 1 ELSE 0

wastedBits(s, bps) ==
    Min({Max({w \in 0..bps : \A i \in DOMAIN s : s[i] % 2 ^ w = 0}), bps - 1})
Shifted(s, w) == [i \in DOMAIN s |-> s[i] \div 2 ^ w]
allEqual(s) == \A i \in DOMAIN s : s[i] = s[1]

Job(res, o) == [res |-> res, blockSize |-> BlockSize, predOrder |-> o, maxOrder |-> input.maxOrder]

EstimateRiceBits(zz, n) ==
    LET k == Max({BitLen(zz \div n) - 1, 0}) IN n * (1 + k) + zz \div 2 ^ k
ZigzagSum(res) == MapThenSumSet(LAMBDA i : zigzag(res[i]), DOMAIN res)

\* The residual that prices fixed order o, and the one that is carried to the writer.
PricedFixed(s, o) == IF IsNarrow THEN Diff(s, o) ELSE Residual64(s, fixedCoeffs[o + 1], 0)
CarriedFixed(s, o) ==
    IF IsNarrow THEN LPCResidualEncode(s, fixedCoeffs[o + 1], 0) ELSE Residual64(s, fixedCoeffs[o + 1], 0)
LPCResidual(s, coeffs, shift) ==
    IF IsNarrow THEN LPCResidualEncode(s, coeffs, shift) ELSE Residual64(s, coeffs, shift)

\* The price of each fixed order for the samples s, by a plan or by an estimate.
MaxFixed(s) == Min({4, Len(s) - 1})
FixedCosts(s) ==
    LET abs == FixedAbsSums(s)
    IN  [o \in 0..MaxFixed(s) |->
            IF input.exhaustive THEN CostResidual(Job(PricedFixed(s, o), o))
            ELSE EstimateRiceBits(2 * abs[o], Len(s) - o)]
chooseFixedOrder(costs) ==
    CHOOSE o \in DOMAIN costs : \A p \in DOMAIN costs :
        costs[o] < costs[p] \/ (costs[o] = costs[p] /\ o <= p)

HeaderBits(w) == 1 + 6 + 1 + w
LPCBits(o) == 4 + 5 + o * LPCPrecision

Plan(kind, o, wasted, bits) ==
    [kind |-> kind, order |-> o, wasted |-> wasted, bits |-> bits, coeffs |-> <<>>, shift |-> 0]
Verbatim(s, w, bps) == Plan("verbatim", 0, w, HeaderBits(w) + Len(s) * (bps - w))
NoCand == [job |-> [res |-> <<>>], best |-> NoPlan]

riceKept == <<job, planning, stream, part, written, reading>>

\* The input gives the channel assignment unless this encoder is to choose it.
Init ==
    /\ input \in Inputs
    /\ stage = (IF Own THEN "unpack" ELSE "fixed") /\ signal = 1 /\ chans = <<>>
    /\ plan = [k \in 0..3 |-> Plan("none", 0, 0, 0)] /\ cand = [k \in 0..3 |-> NoCand]
    /\ costRes = <<>> /\ todo = <<>> /\ start = 0 /\ condition = "whole"
    /\ assignment = IF Own THEN Len(input.ch) - 1 ELSE input.code
    /\ sub = 1 /\ head = [type |-> 0, wasted |-> 0, eff |-> 0] /\ warm = <<>>
    /\ lpc = [coeffs |-> <<>>, shift |-> 0]
    /\ decoded = <<>> /\ outOfRange = FALSE /\ out = <<>> /\ verdict = "none"
    /\ hashed = <<>> /\ audio = [bits |-> 0, hash |-> FALSE, bytes |-> <<>>]
    /\ job = [res |-> <<>>, blockSize |-> BlockSize, predOrder |-> 0, maxOrder |-> 0]
    /\ order = 0 /\ sums = <<>> /\ maxU = <<>> /\ best = NoPlan
    /\ stream = <<>> /\ part = 0 /\ written = 0
    /\ at = 0 /\ label = [method |-> 0, order |-> 0] /\ coding = Rice(0, 0) /\ left = 0
    /\ dst = <<>> /\ over = FALSE /\ outcome = "none"

-----------------------------------------------------------------------------
(* Planning.  A decorrelated pair is planned as four signals before two are  *)
(* written; otherwise each signal is written when it is planned.             *)

Planned ==
    CASE Decorrelates /\ signal < 4 -> signal' = signal + 1 /\ stage' = "fixed" /\ UNCHANGED todo
      [] Decorrelates /\ signal = 4 -> stage' = "assign" /\ UNCHANGED <<signal, todo>>
      [] OTHER -> stage' = "write" /\ todo' = <<signal>> /\ UNCHANGED signal

Chunk == PcmOf(input.ch, BytesPerSample(input.bps))

Unpack ==
    /\ stage = "unpack" /\ stage' = "fixed"
    /\ chans' = deinterleaveSamples(Chunk, BlockSize, Len(input.ch), BytesPerSample(input.bps))
    /\ UNCHANGED <<riceKept, input, signal, plan, cand, costRes, assignment, todo, start, condition,
                   decoding>>

\* A fixed predictor must be cheaper than verbatim.
ChooseFixed ==
    /\ stage = "fixed" /\ Own
    /\ LET raw == Signal(signal)
           bps == Depth(signal)
           w   == wastedBits(raw, bps)
           s   == Shifted(raw, w)
           costs == FixedCosts(s)
           o   == chooseFixedOrder(costs)
           fixed == Plan("fixed", o, w, HeaderBits(w) + o * (bps - w) + costs[o])
           verbatim == Verbatim(s, w, bps)
       IN  IF allEqual(raw)
           THEN /\ plan' = [plan EXCEPT ![Slot(signal)] = Plan("constant", 0, 0, HeaderBits(0) + bps)]
                /\ Planned /\ UNCHANGED costRes
           ELSE /\ plan' = [plan EXCEPT ![Slot(signal)] =
                               IF fixed.bits < verbatim.bits THEN fixed ELSE verbatim]
                /\ costRes' = IF input.exhaustive
                              THEN PricedFixed(s, MaxFixed(s)) ELSE costRes
                /\ stage' = "lpc" /\ UNCHANGED <<signal, todo>>
    /\ UNCHANGED <<riceKept, input, chans, cand, assignment, start, condition, decoding>>

\* Linear prediction must be cheaper yet; the analysis may find none, or a row of any
\* order that the block leaves samples for.  Silence in all of a row is none.
ChooseLPC ==
    /\ stage = "lpc" /\ stage' = "carry"
    /\ LET p == plan[Slot(signal)]
           s == Shifted(Signal(signal), p.wasted)
       IN  \/ UNCHANGED <<plan, costRes>>
           \/ \E row \in input.predictors :
                LET o   == Len(row)
                    coeffs == quantizeCoefficients(row, Fraction, LPCPrecision)
                    shift  == QLPShift(row, Fraction, LPCPrecision)
                    res == LPCResidual(s, coeffs, shift)
                    bits == HeaderBits(p.wasted) + o * (Depth(signal) - p.wasted) + LPCBits(o)
                            + (IF input.exhaustive THEN CostResidual(Job(res, o))
                               ELSE EstimateRiceBits(ZigzagSum(res), Len(res)))
                IN  /\ o < BlockSize /\ \E i \in 1..o : row[i] # 0
                    /\ costRes' = res
                    /\ plan' = IF bits < p.bits
                               THEN [plan EXCEPT ![Slot(signal)] =
                                        [kind |-> "lpc", order |-> o, wasted |-> p.wasted,
                                         bits |-> bits, coeffs |-> coeffs, shift |-> shift]]
                               ELSE plan
    /\ UNCHANGED <<riceKept, input, chans, signal, cand, assignment, todo, start, condition, decoding>>

\* The range that the format allows leaves out the least value of int32.
residualsInRange(res) == \A i \in DOMAIN res : -(2 ^ (Width - 1)) < res[i] /\ res[i] < 2 ^ (Width - 1)

\* The residual of the plan p of the samples s; that of linear prediction was left in costRes.
Carried(s, p) == IF p.kind = "fixed" THEN CarriedFixed(s, p.order) ELSE costRes

\* In int64 a residual may be too large for the format; verbatim has none.
Carry ==
    /\ stage = "carry"
    /\ LET p == plan[Slot(signal)]
           s == Shifted(Signal(signal), p.wasted)
           res == Carried(s, p)
       IN  IF p.kind = "verbatim" \/ (~IsNarrow /\ ~residualsInRange(res))
           THEN /\ plan' = [plan EXCEPT ![Slot(signal)] = Verbatim(s, p.wasted, Depth(signal))]
                /\ Planned /\ UNCHANGED riceKept
           ELSE PlanResidual(Job(res, p.order)) /\ UNCHANGED <<plan, signal, todo>>
    /\ UNCHANGED <<input, chans, cand, costRes, assignment, start, condition, decoding>>

\* The plan of the residual is copied to the slot, and prices the subframe exactly.
Carrying ==
    /\ stage = "planned"
    /\ LET p == plan[Slot(signal)]
       IN  /\ cand' = [cand EXCEPT ![Slot(signal)] = [job |-> job, best |-> best]]
           /\ plan' = [plan EXCEPT ![Slot(signal)].bits =
                          HeaderBits(p.wasted) + p.order * (Depth(signal) - p.wasted)
                          + (IF p.kind = "lpc" THEN LPCBits(p.order) ELSE 0) + best.total]
    /\ Planned
    /\ UNCHANGED <<riceKept, input, chans, costRes, assignment, start, condition, decoding>>

\* Another encoder codes the subframe it likes; its residual is partitioned as here.
ForeignSubframe ==
    /\ stage = "fixed" /\ ~Own
    /\ LET f == input.subs[signal]
       IN  IF f.coded THEN PlanResidual(Job(f.res, Len(f.stored))) /\ UNCHANGED <<signal, todo>>
                      ELSE Planned /\ UNCHANGED riceKept
    /\ UNCHANGED <<input, chans, plan, cand, costRes, assignment, start, condition, decoding>>

\* Of the assignments that the mode considers the cheapest, and of those the first.
Pair(c) == CASE c = chIndependent2 -> <<1, 2>> [] c = chLeftSide -> <<1, 4>>
             [] c = chRightSide -> <<4, 2>> [] c = chMidSide -> <<3, 4>>
PairBits(c) == plan[Slot(Pair(c)[1])].bits + plan[Slot(Pair(c)[2])].bits
Considered == IF input.stereo = "adaptive" THEN {chIndependent2, chMidSide}
              ELSE {chIndependent2, chLeftSide, chRightSide, chMidSide}

ChooseAssignment ==
    /\ stage = "assign" /\ stage' = "write"
    /\ assignment' = CHOOSE c \in Considered : \A d \in Considered :
                        PairBits(c) < PairBits(d) \/ (PairBits(c) = PairBits(d) /\ c <= d)
    /\ todo' = Pair(assignment')
    /\ UNCHANGED <<riceKept, input, chans, signal, plan, cand, costRes, start, condition, decoding>>

-----------------------------------------------------------------------------
(* Writing.                                                                 *)

SignedBits(v, n) == Bits(v % 2 ^ n, n)
SignedRun(s, n) == Flat([i \in DOMAIN s |-> SignedBits(s[i], n)], Len(s))

\* The fields of the subframe that codes signal i.
SubframeOf(i) ==
    IF ~Own THEN input.subs[i]
    ELSE LET p == plan[Slot(i)]
             s == Shifted(Signal(i), p.wasted)
         IN  [pad |-> 0, wasted |-> p.wasted,
              typeCode |-> CASE p.kind = "constant" -> 0 [] p.kind = "verbatim" -> 1
                             [] p.kind = "fixed" -> 8 + p.order [] p.kind = "lpc" -> 31 + p.order,
              stored |-> CASE p.kind = "constant" -> <<s[1]>> [] p.kind = "verbatim" -> s
                           [] OTHER -> SubSeq(s, 1, p.order),
              precCode |-> LPCPrecision - 1, shift |-> p.shift, coeffs |-> p.coeffs,
              coded |-> p.kind \in {"fixed", "lpc"}]

\* All of a subframe but its residual.
SubframeBits(f, bps) ==
    <<f.pad>> \o Bits(f.typeCode, 6)
    \o (IF f.wasted = 0 THEN <<0>> ELSE <<1>> \o Zeros(f.wasted - 1) \o <<1>>)
    \o SignedRun(f.stored, bps - f.wasted)
    \o (IF f.typeCode < 32 THEN <<>>
        ELSE Bits(f.precCode, 4) \o SignedBits(f.shift, 5) \o SignedRun(f.coeffs, f.precCode + 1))

WriteSubframe ==
    /\ stage = "write"
    /\ LET i == Head(todo)
           f == SubframeOf(i)
           c == cand[Slot(i)]
       IN  /\ stream' = stream \o SubframeBits(f, Depth(i))
           /\ IF f.coded
              THEN WritePlanned(c.job, c.best)
              ELSE stage' = "written" /\ UNCHANGED <<job, planning, part, written, reading>>
    /\ start' = Len(stream)
    /\ UNCHANGED <<input, chans, signal, plan, cand, costRes, assignment, todo, condition, decoding>>

NextSubframe ==
    /\ stage = "written"
    /\ CASE Len(todo) > 1 -> todo' = Tail(todo) /\ stage' = "write" /\ UNCHANGED signal
         [] Len(todo) = 1 /\ ~Decorrelates /\ signal < Signals ->
                signal' = signal + 1 /\ stage' = "fixed" /\ UNCHANGED todo
         [] OTHER -> stage' = "finish" /\ UNCHANGED <<signal, todo>>
    /\ UNCHANGED <<riceKept, input, chans, plan, cand, costRes, assignment, start, condition, decoding>>

CrcBits == 16
Aligned(n) == ((n + 7) \div 8) * 8

FinishFrame ==
    /\ stage = "finish" /\ stage' = "deliver"
    /\ stream' = stream \o Zeros(Aligned(Len(stream)) - Len(stream) + CrcBits)
    /\ UNCHANGED <<job, planning, part, written, reading, input, encoding, condition, decoding>>

\* The frame reaches a reader whole, without its last bits, with a CRC-16 that does not
\* match, or, made of one subframe of order 0, with another label on its residual.
Deliver ==
    /\ stage = "deliver" /\ stage' = "readSubframe"
    /\ \/ condition' \in {"whole", "damaged"} /\ UNCHANGED stream
       \/ /\ condition' = "cut"
          /\ \E d \in Cuts : d < Len(stream) /\ stream' = SubSeq(stream, 1, Len(stream) - d)
       \/ /\ condition' = "relabelled"
          /\ ~Own /\ Len(input.subs) = 1 /\ input.subs[1].typeCode = 8 /\ input.subs[1].wasted = 0
          /\ \E l \in Relabels :
                stream' = SubSeq(stream, 1, 8) \o Header(l[1], l[2])
                          \o SubSeq(stream, 9 + MethodBits + OrderBits, Len(stream))
    /\ UNCHANGED <<job, planning, part, written, reading, input, encoding, decoding>>

-----------------------------------------------------------------------------
(* Reading.                                                                 *)

Channels == IF assignment >= chLeftSide THEN 2 ELSE assignment + 1

Fail(v) ==
    /\ verdict' = v /\ stage' = "end"
    /\ UNCHANGED <<riceKept, input, encoding, condition, sub, head, warm, lpc, decoded, outOfRange, out,
                   hashed, audio>>

Reserved(type) == type \in 2..7 \cup 13..31

\* Wasted bits are counted to their first one and must leave some of the sample.
ReadSubframeHeader ==
    /\ stage = "readSubframe"
    /\ LET flagged == stream[at + 8] = 1
           ones == {i \in (at + 9)..Len(stream) : stream[i] = 1}
           w    == IF flagged THEN Min(ones) - at - 8 ELSE 0
           type == Value(at + 1, 6)
           eff  == WidthIn(assignment, sub) - w
       IN  IF ~Have(1) THEN Fail("ends")
           ELSE IF stream[at + 1] # 0 THEN Fail("unsupported")
           ELSE IF ~Have(8) \/ (flagged /\ ones = {}) THEN Fail("ends")
           ELSE IF w > Width \/ eff <= 0 \/ Reserved(type) THEN Fail("unsupported")
           ELSE /\ head' = [type |-> type, wasted |-> w, eff |-> eff]
                /\ at' = at + 8 + w
                /\ stage' = "readSamples"
                /\ UNCHANGED <<job, planning, stream, part, written, label, coding, left, dst, over,
                               outcome, input, encoding, condition, sub, warm, lpc, decoded,
                               outOfRange, out, verdict,
                               hashed, audio>>

SignedAt(n, from, bits) == [i \in 1..n |-> Signed(Value(from + (i - 1) * bits, bits), bits)]

\* The residual of the subframe follows at the bit from.
StartResidual(o, from) ==
    /\ DecodeResidual(BlockSize, o) /\ at' = from

PredictorOrder == IF head.type >= 32 THEN head.type - 31 ELSE head.type - 8

ReadSamples ==
    /\ stage = "readSamples"
    /\ LET n == CASE head.type = 0 -> 1 [] head.type = 1 -> BlockSize [] OTHER -> PredictorOrder
           fixed == head.type \in 8..12
       IN  IF n > BlockSize THEN Fail("unsupported")
           ELSE IF ~Have(n * head.eff) THEN Fail("ends")
           ELSE /\ warm' = SignedAt(n, at, head.eff)
                /\ lpc' = [coeffs |-> IF fixed THEN fixedCoeffs[PredictorOrder + 1] ELSE <<>>,
                           shift |-> 0]
                /\ IF fixed
                   THEN StartResidual(PredictorOrder, at + n * head.eff)
                   ELSE /\ stage' = IF head.type < 2 THEN "restore" ELSE "readCoefficients"
                        /\ at' = at + n * head.eff
                        /\ UNCHANGED <<job, planning, stream, part, written, label, coding, left,
                                       dst, over, outcome>>
                /\ UNCHANGED <<input, encoding, condition, sub, head, decoded, outOfRange, out, verdict,
                               hashed, audio>>

ReadCoefficients ==
    /\ stage = "readCoefficients"
    /\ LET precision == Value(at, 4) + 1
           shift == Signed(Value(at + 4, 5), 5)
           o == PredictorOrder
       IN  IF ~Have(4) THEN Fail("ends")
           ELSE IF precision = 16 THEN Fail("unsupported")
           ELSE IF ~Have(9) THEN Fail("ends")
           ELSE IF shift < 0 THEN Fail("unsupported")
           ELSE IF ~Have(9 + o * precision) THEN Fail("ends")
           ELSE /\ lpc' = [coeffs |-> SignedAt(o, at + 9, precision), shift |-> shift]
                /\ StartResidual(o, at + 9 + o * precision)
                /\ UNCHANGED <<input, encoding, condition, sub, head, warm, decoded, outOfRange,
                               out, verdict, hashed, audio>>

ResidualFails == stage = "read" /\ outcome \in {"ends", "unsupported"} /\ Fail(outcome)

\* Mutant of InRange: the width of the frame stands for that of the subframe.
InRange_Frame(s) == Fits(s, input.bps)

\* Samples are checked as they are before the wasted bits are put back.
InRange(s) == Fits(s, head.eff)

restoreFixed == IF IsNarrow THEN RestoreFixed32(warm, dst) ELSE Restored64(warm, dst, lpc.coeffs, 0)
restoreLPC ==
    IF IsNarrow THEN RestoreLPC32(warm, dst, lpc.coeffs, lpc.shift, head.eff)
    ELSE Restored64(warm, dst, lpc.coeffs, lpc.shift)

\* A subframe that is out of range is given up, and the rest of the frame is read.
Restore ==
    /\ stage = "restore" \/ (stage = "read" /\ outcome \in {"ok", "range"})
    /\ LET s == CASE head.type = 0 -> [i \in 1..BlockSize |-> warm[1]]
                  [] head.type = 1 -> warm
                  [] head.type \in 8..12 -> restoreFixed
                  [] OTHER -> restoreLPC
           bad == head.type > 1
                  /\ (outcome = "range" \/ ~InRange(SubSeq(s, Len(lpc.coeffs) + 1, BlockSize)))
       IN  /\ decoded' = Append(decoded, IF bad THEN <<>>
                                         ELSE [i \in DOMAIN s |-> Stored(s[i] * 2 ^ head.wasted)])
           /\ outOfRange' = (outOfRange \/ bad)
    /\ IF sub < Channels
       THEN sub' = sub + 1 /\ stage' = "readSubframe"
       ELSE /\ stage' = IF assignment >= chLeftSide /\ ~outOfRange' THEN "decorrelate" ELSE "check"
            /\ UNCHANGED sub
    /\ UNCHANGED <<riceKept, input, encoding, condition, head, warm, lpc, out, verdict, hashed, audio>>

Decorrelated64(a, b) ==
    CASE assignment = chLeftSide  -> <<a, Each(a, b, LAMBDA x, y : x - y)>>
      [] assignment = chRightSide -> <<Each(a, b, LAMBDA x, y : y + x), b>>
      [] assignment = chMidSide   ->
            LET m == Each(a, b, LAMBDA x, y : 2 * x + (y % 2))
            IN  <<Each(m, b, LAMBDA x, y : (x + y) \div 2), Each(m, b, LAMBDA x, y : (x - y) \div 2)>>
Decorrelated(a, b) ==
    CASE ~IsNarrow -> Decorrelated64(a, b)
      [] IsNarrow /\ assignment = chLeftSide  -> <<a, subI32(a, b)>>
      [] IsNarrow /\ assignment = chRightSide -> <<addI32(b, a), b>>
      [] IsNarrow /\ assignment = chMidSide   -> MidSideDecode(a, b)

Decorrelate ==
    /\ stage = "decorrelate" /\ stage' = "check"
    /\ out' = Decorrelated(decoded[1], decoded[2])
    /\ outOfRange' = \E c \in 1..2 : ~Fits(out'[c], input.bps)
    /\ UNCHANGED <<riceKept, input, encoding, condition, sub, head, warm, lpc, decoded, verdict, hashed,
                   audio>>

CrcMatches == condition # "damaged" /\ Aligned(at) + CrcBits = Len(stream)

\* Out of range is reported of frames that arrived as they were sent.
Check ==
    /\ stage = "check"
    /\ verdict' = IF ~(Aligned(at) + CrcBits <= Len(stream)) THEN "ends"
                  ELSE IF ~CrcMatches THEN "crc"
                  ELSE IF outOfRange THEN "range" ELSE "ok"
    /\ stage' = IF verdict' = "ok" THEN "pack" ELSE "end"
    /\ at' = Aligned(at)
    /\ out' = IF assignment < chLeftSide THEN decoded ELSE out
    /\ UNCHANGED <<job, planning, stream, part, written, label, coding, left, dst, over, outcome,
                   input, encoding, condition, sub, head, warm, lpc, decoded, outOfRange, hashed, audio>>

\* The bytes of the samples at their own depth go to the digest if it is kept, and to
\* the caller unless another depth is asked for; the samples are then rescaled in place.
packFrame ==
    /\ stage = "pack" /\ stage' = "end"
    /\ \E outBits \in Targets \cup {input.bps}, hashNative \in BOOLEAN :
          LET shift  == outBits - input.bps
              native == appendPacked(out, BytesPerSample(input.bps))
          IN  /\ hashed' = IF hashNative THEN native ELSE <<>>
              /\ out' = IF shift = 0 THEN out ELSE shiftSamples(out, shift)
              /\ audio' = [bits |-> outBits, hash |-> hashNative, bytes |->
                     IF shift = 0 THEN native ELSE appendPacked(out', BytesPerSample(outBits))]
    /\ UNCHANGED <<riceKept, input, encoding, condition, sub, head, warm, lpc, decoded, outOfRange, verdict>>

Next == \/ (RiceNext /\ UNCHANGED frameVars)
        \/ Unpack \/ ChooseFixed \/ ChooseLPC \/ Carry \/ Carrying \/ ForeignSubframe \/ ChooseAssignment
        \/ WriteSubframe \/ NextSubframe \/ FinishFrame \/ Deliver
        \/ ReadSubframeHeader \/ ReadSamples \/ ReadCoefficients \/ ResidualFails \/ Restore
        \/ Decorrelate \/ Check \/ packFrame

Spec == Init /\ [][Next]_vars

-----------------------------------------------------------------------------
(* Properties.                                                              *)

\* Every subframe takes the bits that it was chosen for, after a fallback to verbatim as
\* well, and its residual those planned for any mixture of escapes and parameters; and
\* an encoder that prices predictors exactly never writes more than verbatim takes
\* (planSubframe, planSubframe64, writeSubframe, WritePlanned).
WrittenAsPriced ==
    stage = "written" =>
        LET i == Head(todo)
            f == SubframeOf(i)
            bits == Len(stream) - start
        IN  /\ bits = Len(SubframeBits(f, Depth(i))) + (IF f.coded THEN best.total ELSE 0)
            /\ f.coded => written = best.total
            /\ Own => bits = plan[Slot(i)].bits
            /\ Own /\ input.exhaustive =>
                   LET w == wastedBits(Signal(i), Depth(i))
                   IN  bits <= Verbatim(Signal(i), w, Depth(i)).bits

\* What a caller is given of the samples ch: their bytes at the depth it asked for, and
\* to the digest their bytes at their own, or nothing.
DeliversExactly(ch) ==
    /\ hashed = IF audio.hash THEN PcmOf(ch, BytesPerSample(input.bps)) ELSE <<>>
    /\ audio.bytes = PcmOf([c \in DOMAIN ch |-> [i \in DOMAIN ch[c] |->
                                Rescaled(ch[c][i], input.bps, audio.bits)]], BytesPerSample(audio.bits))

\* A frame of this encoder is read to its end and gives the bytes that were encoded,
\* or these at another depth, and the digest those, whatever was chosen for its
\* subframes and channels; cut anywhere in its body it is truncated, and with a CRC-16
\* that does not match it is refused.  Samples that their bytes have room for but not
\* the depth declared are coded in some frame that a decoder reads to its end
\* (emitBlock, EncodeFrame, Decode, packFrame; TestEncodeOutOfRangePCMNoPanic).
ReadsBack ==
    stage = "end" /\ Own =>
        CASE condition = "whole" ->
                /\ at + CrcBits = Len(stream)
                /\ IF \A c \in DOMAIN input.ch : Fits(input.ch[c], input.bps)
                   THEN verdict = "ok" /\ DeliversExactly(input.ch)
                   ELSE verdict \in {"ok", "range"}
          [] condition = "cut" -> verdict = "ends"
          [] condition = "damaged" -> verdict = "crc"

\* The reference, on integers of any size: what a well-formed subframe stands for.
Legal(f, bps) ==
    /\ f.pad = 0 /\ ~Reserved(f.typeCode) /\ f.wasted < bps
    /\ f.typeCode > 1 => f.coded
    /\ f.typeCode >= 32 => f.precCode < 15 /\ f.shift >= 0
Exact(f) ==
    IF f.typeCode < 2 THEN [i \in 1..input.size |-> f.stored[Min({i, Len(f.stored)})]]
    ELSE LET coeffs == IF f.typeCode < 32 THEN fixedCoeffs[Len(f.stored) + 1] ELSE f.coeffs
             s[i \in 1..input.size] ==
                IF i <= Len(f.stored) THEN f.stored[i]
                ELSE f.res[i - Len(f.stored)] + Prediction(s, i, coeffs, f.shift)
         IN  s
Sound(f, bps) ==
    /\ f.coded => Fits(f.res, Width)
    /\ Fits(Exact(f), bps - f.wasted)
ExactOut ==
    LET c(k) == [i \in 1..input.size |-> Exact(input.subs[k])[i] * 2 ^ input.subs[k].wasted]
        pair(l(_, _), r(_, _)) ==
            <<[i \in 1..input.size |-> l(c(1)[i], c(2)[i])], [i \in 1..input.size |-> r(c(1)[i], c(2)[i])]>>
    IN  CASE input.code = chLeftSide  -> pair(LAMBDA a, b : a, LAMBDA a, b : a - b)
          [] input.code = chRightSide -> pair(LAMBDA a, b : a + b, LAMBDA a, b : b)
          [] input.code = chMidSide   -> pair(LAMBDA a, b : a + (b + (b % 2)) \div 2,
                                              LAMBDA a, b : a - (b - (b % 2)) \div 2)
          [] OTHER -> [k \in DOMAIN input.subs |-> c(k)]
\* In int32 a prediction from samples in range that leaves it may bring the next sample
\* back into range; the code's comment on its kernels says so.
Predicted(f, bps) ==
    IsNarrow /\ f.typeCode >= 32 =>
        \A i \in (Len(f.stored) + 1)..input.size :
            Fits(SubSeq(Exact(f), 1, i - 1), bps - f.wasted)
            => Fits(<<Prediction(Exact(f), i, f.coeffs, f.shift)>>, Width)

\* The verdict on a frame of another encoder is that of exact arithmetic: its samples are
\* delivered if all of them, and of its residuals, are in range, and only then; the
\* CRC-16 is judged first, and what is delivered always fills the block with samples
\* of the frame's bit depth (decodeSubframeT, decodeStereoDecorrelated, Decode).
VerdictIsExact ==
    stage = "end" =>
        /\ verdict = "ok" => /\ Len(out) = Channels
                             /\ \A c \in DOMAIN out : Len(out[c]) = BlockSize /\ Fits(out[c], audio.bits)
        /\ ~Own /\ condition # "relabelled" =>
              LET subs == DOMAIN input.subs
                  legal == \A k \in subs : Legal(input.subs[k], WidthIn(input.code, k))
                  sound == /\ \A k \in subs : Sound(input.subs[k], WidthIn(input.code, k))
                           /\ \A c \in DOMAIN ExactOut : Fits(ExactOut[c], input.bps)
                  predicted == \A k \in subs : Predicted(input.subs[k], WidthIn(input.code, k))
              IN  /\ ~legal => verdict \in {"unsupported", "ends"}
                  /\ ~legal /\ condition = "whole" => verdict = "unsupported"
                  /\ legal /\ condition = "cut" => verdict = "ends"
                  /\ legal /\ condition = "damaged" => verdict = "crc"
                  /\ legal /\ condition = "whole" /\ predicted =>
                         /\ verdict = IF sound THEN "ok" ELSE "range"
                         /\ sound => DeliversExactly(ExactOut)

\* The route in int32 and the one in int64 agree up to and including the first sample
\* that leaves the width of the subframe, so that neither the samples nor the verdict
\* show which was taken (RestoreLPC32, LPCRestoreNarrow).
RouteDoesNotShow ==
    stage = "read" /\ outcome \in {"ok", "range"} /\ IsNarrow /\ head.type >= 32
        /\ LPCRestoreNarrowSafe(lpc.coeffs, head.eff, lpc.shift) =>
        LET narrow == LPCRestoreNarrow(warm, dst, lpc.coeffs, lpc.shift)
            wide   == LPCRestore(warm, dst, lpc.coeffs, lpc.shift)
        IN  \A i \in DOMAIN wide : InRange(SubSeq(wide, 1, i - 1)) => narrow[i] = wide[i]
=============================================================================
