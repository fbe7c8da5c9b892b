-------------------------------- MODULE Rice ---------------------------------
(***************************************************************************)
(* The residual of a subframe in internal/rice: PlanResidualInt32 and       *)
(* PlanResidualInt64 choose how to partition it and how to code each        *)
(* partition, WritePlanned writes it, DecodeResidual reads it back.         *)
(*                                                                          *)
(* A stream is a sequence of bits.  The widths of the format are            *)
(* parameters: Rice parameters have NarrowBits or WideBits bits (4 or 5 in  *)
(* FLAC), and residuals 2^WideBits (32).  As there, the greatest value of a *)
(* parameter field marks an escape, and the width of an escaped residual    *)
(* has WideBits bits.  A job is a residual with the size of its block, the  *)
(* order of its predictor, which leaves out as many samples, and the        *)
(* greatest partition order that the encoder tries.                         *)
(*                                                                          *)
(* The module has actions and no specification of its own: FrameBody, the   *)
(* caller, starts them with PlanResidual, WritePlanned and DecodeResidual   *)
(* and resumes when stage is "planned", "written" or "read".                *)
(***************************************************************************)
EXTENDS Kernels

CONSTANT NarrowBits

ASSUME BitsAssumption == NarrowBits \in Nat \ {0} /\ WideBits \in Nat \ {0} /\ NarrowBits < WideBits

VARIABLES
    job, stage,
    order, sums, maxU, best,    \* planning: the order evaluated next, its tables, the best plan
    stream, part, written,      \* writing: the bits, the partition, the bits counted
    at, label, coding, left, dst, over, outcome    \* reading

planning == <<order, sums, maxU, best>>
reading  == <<at, label, coding, left, dst, over, outcome>>
riceVars == <<job, stage, planning, stream, part, written, reading>>

maxParam4       == 2 ^ NarrowBits - 2
maxParam5       == 2 ^ WideBits - 2
maxRawBits      == Width - 1
MethodBits      == 2
OrderBits       == 4
EscapeCode(pb)  == 2 ^ pb - 1

-----------------------------------------------------------------------------
zigzag(r) == IF r >= 0 THEN 2 * r ELSE -2 * r - 1
Unfolded(u) == IF u % 2 = 0 THEN u \div 2 ELSE -((u + 1) \div 2)

BitLen(u) == CHOOSE n \in 0..u : u < 2 ^ n /\ (n = 0 \/ u >= 2 ^ (n - 1))

\* The partitions of job j at order po, their lengths, and the folded residuals of one.
Partitions(po) == 0..(2 ^ po - 1)
Count(j, po, p) == (j.blockSize \div 2 ^ po) - (IF p = 0 THEN j.predOrder ELSE 0)
Start(j, po, p) == IF p = 0 THEN 0 ELSE p * (j.blockSize \div 2 ^ po) - j.predOrder
Residuals(j, po, p) == SubSeq(j.res, Start(j, po, p) + 1, Start(j, po, p) + Count(j, po, p))
FoldedOf(j, po, p) ==
    LET r == Residuals(j, po, p) IN [i \in DOMAIN r |-> zigzag(r[i])]

SumOf(z, k) == MapThenSumSet(LAMBDA i : z[i] \div 2 ^ k, DOMAIN z)
Greatest(z) == Max({0} \cup {z[i] : i \in DOMAIN z})

\* Orders 1, 2, ... up to the first that does not divide the block or leaves a
\* partition that is empty or shorter than the predictor.
Feasible(j, po) ==
    /\ j.blockSize % 2 ^ po = 0
    /\ j.blockSize \div 2 ^ po >= Max({1, j.predOrder})
feasiblePmax(j) ==
    Max({0} \cup {po \in 1..Min({j.maxOrder, 2 ^ OrderBits - 1}) : \A q \in 1..po : Feasible(j, q)})

\* The greatest parameter that the tables have a column for.
KHi(j) ==
    LET z == [i \in DOMAIN j.res |-> zigzag(j.res[i])]
    IN  Min({BitLen(Greatest(z)) + 2, maxParam5})

Rice(k, payload)   == [escape |-> FALSE, param |-> k, payload |-> payload]
Escape(raw, payload) == [escape |-> TRUE, param |-> raw, payload |-> payload]

\* The parameters tried for n values of the sum s.
Window(s, n) ==
    LET est == IF n > 0 THEN BitLen(s \div n) ELSE 0
        hi  == Min({est + 2, maxParam5})
    IN  Min({Max({est - 1, 0}), hi})..hi

Cost(row, n, k) == row[k] + n * (1 + k)

\* Mutant of EscapeBits: the field for the width is not priced.
EscapeBits_NoWidth(mu, n) == BitLen(mu) * n

EscapeBits(mu, n) == WideBits + BitLen(mu) * n

\* The first cheapest parameter of the window, or raw values if they are cheaper yet
\* and their width fits its field.
choosePartition(row, mu, n) ==
    LET ks == {k \in Window(row[0], n) : k <= Max(DOMAIN row)}
        k  == CHOOSE k \in ks : \A m \in ks :
                  Cost(row, n, k) < Cost(row, n, m) \/ (Cost(row, n, k) = Cost(row, n, m) /\ k <= m)
    IN  IF BitLen(mu) <= maxRawBits /\ EscapeBits(mu, n) < Cost(row, n, k)
        THEN Escape(BitLen(mu), EscapeBits(mu, n)) ELSE Rice(k, Cost(row, n, k))

\* Parameters have narrow fields unless one of them does not fit.
ParamBits(plans) ==
    IF \E p \in DOMAIN plans : ~plans[p].escape /\ plans[p].param > maxParam4
    THEN WideBits ELSE NarrowBits

TotalBits(plans) ==
    MethodBits + OrderBits
    + MapThenSumSet(LAMBDA p : ParamBits(plans) + plans[p].payload, DOMAIN plans)

-----------------------------------------------------------------------------
(* Planning: from the finest feasible order down.                           *)

NoPlan == [order |-> -1, plans |-> <<>>, paramBits |-> 0, total |-> 0]

\* The planner starts on job j with the tables of its finest order.
PlanResidual(j) ==
    /\ job' = j /\ stage' = "plan" /\ best' = NoPlan
    /\ order' = feasiblePmax(j)
    /\ sums' = [p \in Partitions(order') |-> [k \in 0..KHi(j) |-> SumOf(FoldedOf(j, order', p), k)]]
    /\ maxU' = [p \in Partitions(order') |-> Greatest(FoldedOf(j, order', p))]
    /\ UNCHANGED <<stream, part, written, reading>>

\* Mutant of mergeUpward: the greatest value is the left partition's.
mergeUpward_Left ==
    /\ sums' = [p \in Partitions(order - 1) |->
                   [k \in DOMAIN sums[p] |-> sums[2 * p][k] + sums[2 * p + 1][k]]]
    /\ maxU' = [p \in Partitions(order - 1) |-> maxU[2 * p]]

mergeUpward ==
    /\ sums' = [p \in Partitions(order - 1) |->
                   [k \in DOMAIN sums[p] |-> sums[2 * p][k] + sums[2 * p + 1][k]]]
    /\ maxU' = [p \in Partitions(order - 1) |-> Max({maxU[2 * p], maxU[2 * p + 1]})]

\* A coarser order wins a tie; the tables are then merged for the next.
EvaluateOrder ==
    /\ stage = "plan"
    /\ LET plans == [p \in Partitions(order) |->
                        choosePartition(sums[p], maxU[p], Count(job, order, p))]
       IN  best' = IF best = NoPlan \/ TotalBits(plans) <= best.total
                   THEN [order |-> order, plans |-> plans, paramBits |-> ParamBits(plans),
                         total |-> TotalBits(plans)]
                   ELSE best
    /\ IF order > 0
       THEN mergeUpward /\ order' = order - 1 /\ UNCHANGED stage
       ELSE stage' = "planned" /\ UNCHANGED <<order, sums, maxU>>
    /\ UNCHANGED <<job, stream, part, written, reading>>

-----------------------------------------------------------------------------
(* Writing.                                                                 *)

Bits(v, n) == [i \in 1..n |-> (v \div 2 ^ (n - i)) % 2]
Zeros(q) == [i \in 1..q |-> 0]
Header(method, po) == Bits(method, MethodBits) \o Bits(po, OrderBits)

\* The writer starts on job j with the plan b; its caller has written the bits before.
WritePlanned(j, b) ==
    /\ job' = j /\ best' = b /\ stage' = "writeHeader"
    /\ UNCHANGED <<order, sums, maxU, part, written, reading>>

WriteHeader ==
    /\ stage = "writeHeader"
    /\ stream' = stream \o Header(IF best.paramBits = WideBits THEN 1 ELSE 0, best.order)
    /\ written' = MethodBits + OrderBits
    /\ stage' = "writePartition"
    /\ UNCHANGED <<job, planning, part, reading>>

\* The quotient in unary and k bits of remainder, however many calls they take.
Symbol(u, k) == Zeros(u \div 2 ^ k) \o <<1>> \o Bits(u % 2 ^ k, k)

Flat(seqs, n) ==
    LET f[i \in 0..n] == IF i = 0 THEN <<>> ELSE f[i - 1] \o seqs[i] IN f[n]

WritePartition ==
    /\ stage = "writePartition"
    /\ LET plan == best.plans[part]
           r    == Residuals(job, best.order, part)
       IN  /\ stream' = stream
                  \o (IF plan.escape
                      THEN Bits(EscapeCode(best.paramBits), best.paramBits) \o Bits(plan.param, WideBits)
                           \o Flat([i \in DOMAIN r |-> Bits(r[i] % 2 ^ plan.param, plan.param)], Len(r))
                      ELSE Bits(plan.param, best.paramBits)
                           \o Flat([i \in DOMAIN r |-> Symbol(zigzag(r[i]), plan.param)], Len(r)))
           /\ written' = written + best.paramBits + plan.payload
    /\ IF part + 1 \in Partitions(best.order)
       THEN part' = part + 1 /\ UNCHANGED stage
       ELSE part' = 0 /\ stage' = "written"
    /\ UNCHANGED <<job, planning, reading>>

-----------------------------------------------------------------------------
(* Reading.  ends is the error of a source that gives fewer bits.           *)

Have(n) == at + n <= Len(stream)
Value(from, n) == MapThenSumSet(LAMBDA i : stream[from + i] * 2 ^ (n - i), 1..n)

End(o) ==
    /\ outcome' = o /\ stage' = "read"
    /\ UNCHANGED <<job, planning, stream, part, written, at, label, coding, left, dst, over>>

\* The reader starts where its caller has read to, on a block of n samples.
DecodeResidual(n, predOrder) ==
    /\ job' = [res |-> <<>>, blockSize |-> n, predOrder |-> predOrder, maxOrder |-> 0]
    /\ stage' = "readHeader" /\ part' = 0 /\ dst' = <<>> /\ over' = FALSE
    /\ UNCHANGED <<planning, stream, written, label, coding, left, outcome>>

ReadHeader ==
    /\ stage = "readHeader"
    /\ LET method == Value(at, MethodBits)
           po == Value(at + MethodBits, OrderBits)
       IN  CASE ~Have(MethodBits) -> End("ends")
             [] Have(MethodBits) /\ method > 1 -> End("unsupported")
             [] Have(MethodBits) /\ method <= 1 /\ ~Have(MethodBits + OrderBits) -> End("ends")
             [] Have(MethodBits + OrderBits) /\ method <= 1 /\ job.blockSize % 2 ^ po # 0 ->
                    End("unsupported")
             [] OTHER -> /\ at' = at + MethodBits + OrderBits
                         /\ label' = [method |-> method, order |-> po]
                         /\ stage' = "readParam"
                         /\ UNCHANGED <<job, planning, stream, part, written,
                                        coding, left, dst, over, outcome>>

ReadParam ==
    /\ stage = "readParam" /\ part \in Partitions(label.order)
    /\ LET n  == Count(job, label.order, part)
           pb == IF label.method = 0 THEN NarrowBits ELSE WideBits
           escape == Value(at, pb) = EscapeCode(pb)
           bits == IF escape THEN pb + WideBits ELSE pb
       IN  CASE n < 0 -> End("unsupported")
             [] n >= 0 /\ (~Have(pb) \/ ~Have(bits)) -> End("ends")
             [] OTHER -> /\ coding' = IF escape THEN Escape(Value(at + pb, WideBits), 0)
                                                ELSE Rice(Value(at, pb), 0)
                         /\ at' = at + bits /\ left' = n /\ part' = part + 1
                         /\ stage' = "readValue"
                         /\ UNCHANGED <<job, planning, stream, written,
                                        label, dst, over, outcome>>

\* One residual is read; wide says that its folded value is too large for Width bits.
Reads(v, bits, wide) ==
    /\ dst' = Append(dst, v) /\ at' = at + bits /\ over' = (over \/ wide) /\ left' = left - 1
    /\ UNCHANGED <<job, stage, planning, stream, part, written, label, coding, outcome>>

ReadRaw ==
    /\ stage = "readValue" /\ left > 0 /\ coding.escape
    /\ IF Have(coding.param)
       THEN Reads(Signed(Value(at, coding.param), coding.param), coding.param, FALSE)
       ELSE End("ends")

highBits(q, k) == q >= 2 ^ (Width - k)

ReadSymbol ==
    /\ stage = "readValue" /\ left > 0 /\ ~coding.escape
    /\ LET k == coding.param
           ones == {i \in (at + 1)..Len(stream) : stream[i] = 1}
           q == Min(ones) - at - 1
       IN  IF ones = {} \/ ~Have(q + 1 + k) THEN End("ends")
           ELSE Reads(Unfolded(q * 2 ^ k + Value(at + q + 1, k)), q + 1 + k, highBits(q, k))

NextPartition ==
    /\ stage = "readValue" /\ left = 0
    /\ stage' = "readParam"
    /\ UNCHANGED <<job, planning, stream, part, written, reading>>

\* A residual out of range is reported when all of the residual has been read.
FinishResidual ==
    /\ stage = "readParam" /\ part \notin Partitions(label.order)
    /\ End(IF over THEN "range" ELSE "ok")

RiceNext == \/ EvaluateOrder \/ WriteHeader \/ WritePartition
            \/ ReadHeader \/ ReadParam \/ ReadRaw \/ ReadSymbol \/ NextPartition \/ FinishResidual

-----------------------------------------------------------------------------
\* The reference: every feasible order priced from the residuals themselves.
Rescan(j, po) ==
    [p \in Partitions(po) |->
        LET z == FoldedOf(j, po, p)
        IN  choosePartition([k \in 0..maxParam5 |-> SumOf(z, k)], Greatest(z), Len(z))]
Orders(j) == 0..feasiblePmax(j)

\* What planning job j would price it at, for a caller that only compares.
CostResidual(j) == Min({TotalBits(Rescan(j, po)) : po \in Orders(j)})

\* Merging the finest tables upward, with only the columns that the loudest residual
\* needs, decides as a rescan of the residuals at every order does: the least total,
\* and of its orders the coarsest (PlanResidualInt32, planFromTables).
PlanIsRescan ==
    stage = "planned" =>
        /\ best.order \in Orders(job)
        /\ best.plans = Rescan(job, best.order)
        /\ \A po \in Orders(job) :
              \/ TotalBits(Rescan(job, po)) > best.total
              \/ TotalBits(Rescan(job, po)) = best.total /\ po >= best.order
=============================================================================
