------------------------------- MODULE Ecmult -------------------------------
(***************************************************************************)
(* Multiplication of points.  First that of ecmult_impl.h by Strauss'      *)
(* method: tables of odd multiples in Jacobian coordinates whose z is left *)
(* out and kept as ratios, brought to one z, and read digit by digit; the  *)
(* tables of G that are compiled in are the multiples they are generated   *)
(* as.  Then the one of ecmult_const_impl.h in constant time; and the sums *)
(* of many multiples (secp256k1_ecmult_multi_var).                         *)
(***************************************************************************)
EXTENDS Group

CONSTANTS
    ScalarBits, HalfBits, MinusB1, B2,      \* see Recoding
    WindowA, WindowG,                       \* WINDOW_A, WINDOW_G
    GroupSize                               \* ECMULT_CONST_GROUP_SIZE

R == INSTANCE Recoding

(* Odd multiples must not meet infinity, which a table cannot hold. *)
ASSUME WindowAssumption ==
    /\ WindowA >= 2 /\ 2 ^ (WindowA - 1) < Order
    /\ WindowG >= 2 /\ 2 ^ (WindowG - 1) < Order
    /\ GroupSize >= 2 /\ 2 ^ GroupSize - 1 < Order

ASSUME SplitAssumption == R!RecodingAssumption

TableSize(w) == 2 ^ (w - 2)
-----------------------------------------------------------------------------
(* a, 3a, 5a, ... as n points whose z is left out: zr[i] is the ratio of   *)
(* one z to the one before, z the last of them.  The additions are done on *)
(* the curve where 2a has a z of one.                                      *)
NextMultiple(acc, s) ==
    [ai |-> s.p, pre |-> Append(acc.pre, SetXy(s.p.x, s.p.y)), zr |-> Append(acc.zr, s.rzr)]

MultiplesOf(n, a, d, first) ==
    FoldLeft(LAMBDA acc, i : NextMultiple(acc, GejAddGeVar(acc.ai, SetXy(d.x, d.y))),
             [ai |-> [GejSetGe(first) EXCEPT !.z = a.z], pre |-> <<first>>, zr |-> <<d.z>>],
             [i \in 1 .. n - 1 |-> i])

TableOf(t, d) == [pre |-> t.pre, zr |-> t.zr, z |-> Mul(t.ai.z, d.z)]

OddMultiplesBy(n, a, d) == TableOf(MultiplesOf(n, a, d, SetZinv(a, d.z)), d)

OddMultiplesTable(n, a) == OddMultiplesBy(n, a, GejDoubleVar(a).p)

Signed(p, n) == IF n > 0 THEN p ELSE [p EXCEPT !.y = Negate(@, 1)]

Index(n) == ((IF n > 0 THEN n ELSE -n) + 1) \div 2

TableGetGe(pre, n) == Signed(pre[Index(n)], n)

TableGetGeLambda(pre, x, n) == Signed(SetXy(x[Index(n)], pre[Index(n)].y), n)

(* The compiled tables: odd multiples of k times the generator. *)
Stored(p) == SetXy(FromStorage(p[1]), FromStorage(p[2]))

TableGetGeStorage(k, n) == Signed(Stored(Multiple[((2 * Index(n) - 1) * k) % Order]), n)
-----------------------------------------------------------------------------
\* Broken variant: the first ratio of a later table leaves its point's z out.
Joined_NoZ(zr, a) == zr

(* The first ratio of a later table is the one to the table before. *)
Joined(zr, a) == [zr EXCEPT ![1] = Mul(@, a.z)]

(* The tables of all points, one behind the other, and their digits; the   *)
(* last z of a table is the scale the next one starts from.                *)
DigitsOf(split) ==
    [na_1 |-> R!Wnaf(split.r1, HalfBits + 1, WindowA).digits,
     na_lam |-> R!Wnaf(split.r2, HalfBits + 1, WindowA).digits]

AddTable(acc, a, na, t) ==
    [pre |-> acc.pre \o t.pre,
     aux |-> acc.aux \o (IF acc.ps = <<>> THEN t.zr ELSE Joined(t.zr, a)),
     z |-> t.z,
     ps |-> Append(acc.ps, DigitsOf(R!SplitLambda(na)))]

AddPoint(acc, a, na) ==
    IF na = 0 \/ a.inf THEN acc
    ELSE AddTable(acc, a, na,
                  OddMultiplesTable(TableSize(WindowA),
                                    IF acc.ps = <<>> THEN a ELSE Rescale(a, acc.z)))

Part(s, np) == SubSeq(s, (np - 1) * TableSize(WindowA) + 1, np * TableSize(WindowA))

(* What the digits of a point, of their part of the tables, and of the     *)
(* generator add to the sum.                                               *)
AddDigit(r, n, pre) == IF n = 0 THEN r ELSE GejAddGeVar(r, TableGetGe(pre, n)).p

AddLamDigit(r, n, pre, aux) ==
    IF n = 0 THEN r ELSE GejAddGeVar(r, TableGetGeLambda(pre, aux, n)).p

AddGDigit(r, k, n, z) ==
    IF n = 0 THEN r ELSE GejAddZinvVar(r, TableGetGeStorage(k, n), z)

(* From the top digit to the last, a doubling and an addition for every    *)
(* digit of the points and of the two halves of ng.                        *)
AddDigits(ps, z, pre, aux, ng_1, ng_128) ==
    FoldLeft(LAMBDA acc, i :
                 AddGDigit(AddGDigit(
                     FoldLeft(LAMBDA r, np :
                                  AddLamDigit(AddDigit(r, ps[np].na_1[i], Part(pre, np)),
                                              ps[np].na_lam[i], Part(pre, np), Part(aux, np)),
                              GejDoubleVar(acc).p, [np \in DOMAIN ps |-> np]),
                     1, ng_1[i], z), 2 ^ HalfBits, ng_128[i], z),
             GejInfinity, [j \in 1 .. HalfBits + 1 |-> HalfBits + 2 - j])

ScaledBack(r, z) == IF r.inf THEN r ELSE [r EXCEPT !.z = Mul(@, z)]

GDigits(n) == R!Wnaf(n, HalfBits + 1, WindowG).digits

StraussOn(tables, pre, g) ==
    ScaledBack(AddDigits(tables.ps, tables.z, pre,
                         [i \in DOMAIN pre |-> Mul(pre[i].x, FromStorage(Beta))],
                         GDigits(g.r1), GDigits(g.r2)),
               tables.z)

StraussFrom(tables, ng) ==
    StraussOn(tables, TableSetGlobalz(tables.pre, tables.aux), R!Split128(ng))

(* The sum of na[i] * a[i] and ng * G. *)
StraussWnaf(a, na, ng) ==
    StraussFrom(FoldLeft(LAMBDA acc, i : AddPoint(acc, a[i], na[i]),
                         [pre |-> <<>>, aux |-> <<>>, z |-> SetInt(1), ps |-> <<>>],
                         [i \in DOMAIN a |-> i]),
                ng)

EcmultVar(a, na, ng) == StraussWnaf(<<a>>, <<na>>, ng)
-----------------------------------------------------------------------------
(* In constant time: the bits of an offset scalar are the signs of powers  *)
(* of two, read GroupSize at a time.                                       *)
ConstTableSize == 2 ^ (GroupSize - 1)
Groups == R!CeilDiv(HalfBits + 1, GroupSize)
ConstBits == Groups * GroupSize

K == ((2 ^ ConstBits - 2 ^ (HalfBits + 1) - 1) * (1 + Lambda)) % Order

HalfOf(s) == (IF s % 2 = 0 THEN s ELSE s + Order) \div 2     \* secp256k1_scalar_half

GlobalTable(t) == [pre |-> TableSetGlobalz(t.pre, t.zr), z |-> t.z]

ConstTable(a) == GlobalTable(OddMultiplesTable(ConstTableSize, a))

(* The entry for n: its top bit is the sign, the others count up or down   *)
(* from it.  Every entry is looked at.                                     *)
Look(r, p, flag) == [r EXCEPT !.x = Cmov(@, p.x, flag), !.y = Cmov(@, p.y, flag)]

ConstTableGet(pre, n) ==
    LET negative == n < ConstTableSize
        index == IF negative THEN ConstTableSize - 1 - n ELSE n - ConstTableSize
    IN  [FoldLeft(LAMBDA r, m : Look(r, pre[m + 1], m = index), SetXy(pre[1].x, pre[1].y),
                  [m \in 1 .. ConstTableSize - 1 |-> m])
            EXCEPT !.y = Cmov(@, Negate(@, 1), negative)]

OffsetParts(split) ==
    [v1 |-> (split.r1 + 2 ^ HalfBits) % Order, v2 |-> (split.r2 + 2 ^ HalfBits) % Order]

Parts(q) == OffsetParts(R!SplitLambda(HalfOf((q + K) % Order)))

GroupEntry(pre, s, group) == ConstTableGet(pre, R!Bits(s, group * GroupSize, GroupSize))

Shifted(r) == FoldLeft(LAMBDA p, j : GejDouble(p), r, [j \in 1 .. GroupSize |-> j])

AddGroup(r, group, entry, lamEntry) ==
    GejAddGe(IF group = Groups - 1 THEN GejSetGe(entry) ELSE GejAddGe(Shifted(r), entry),
             lamEntry)

ConstSum(v, pre, lam) ==
    FoldLeft(LAMBDA r, group :
                 AddGroup(r, group, GroupEntry(pre, v.v1, group), GroupEntry(lam, v.v2, group)),
             GejInfinity, [j \in 1 .. Groups |-> Groups - j])

ConstOn(t, v) ==
    [ConstSum(v, t.pre, [i \in DOMAIN t.pre |-> MulLambda(t.pre[i])]) EXCEPT !.z = Mul(@, t.z)]

(* q * a; the sum may pass through infinity on the way, r is never set     *)
(* aside for it.                                                           *)
EcmultConstOf(a, q) ==
    IF a.inf THEN GejInfinity ELSE ConstOn(ConstTable(GejSetGe(a)), Parts(q))

\* (n / d)^3 + b is a square exactly when g d is.
OnCurveTest(g, d) == IsSquare(Mul(g, d))

(* The x coordinate of q times a point whose x is n / d, without its y; a  *)
(* d of one stands for no d.                                               *)
XOf(rj, g, d) == Mul(rj.x, Inv(Mul(Mul(Sqr(rj.z), g), d)))

XonlyOver(n, d, q, g) == XOf(EcmultConstOf(SetXy(Mul(g, n), Sqr(g)), q), g, d)

EcmultConstXonly(n, d, q, knownOnCurve) ==
    LET g == Add(Mul(Sqr(n), n), Mul(MulInt(Sqr(d), CurveB), d))
    IN  IF ~knownOnCurve /\ ~OnCurveTest(g, d) THEN [ok |-> FALSE]
        ELSE [ok |-> TRUE, x |-> XonlyOver(n, d, q, g)]
-----------------------------------------------------------------------------
(* Sums of many multiples: Pippenger's buckets, batches of either method   *)
(* on a scratch space, and the way without one.  The callback that         *)
(* supplies the points is a sequence of pairs of a scalar and a point; it  *)
(* fails at those that are not ok.                                         *)
CONSTANTS
    SizeMax, Alignment,     \* SIZE_MAX, ALIGNMENT
    WnafBits,               \* WNAF_BITS
    PointTableSize,         \* ECMULT_TABLE_SIZE(WINDOW_A)
    PippengerThreshold, MaxPointsPerBatch,      \* ECMULT_...
    \* sizeof of ge, gej, fe, scalar, int, and of the states of the methods
    GeSize, GejSize, FeSize, ScalarSize, IntSize,
    StraussPointSize, PippengerPointSize, PippengerStateSize

ASSUME AlignmentAssumption ==
    /\ Alignment \in Nat /\ SizeMax \in Nat
    /\ Alignment > 1 /\ (SizeMax + 1) % Alignment = 0

ASSUME SizesAssumption ==
    {WnafBits, PointTableSize, PippengerThreshold, MaxPointsPerBatch, GeSize, GejSize, FeSize,
     ScalarSize, IntSize, StraussPointSize, PippengerPointSize, PippengerStateSize}
        \subseteq Nat \ {0}

ASSUME SizesMatch == WnafBits = HalfBits /\ PointTableSize = TableSize(WindowA)

NoScalar == -1      \* the NULL for no multiple of the generator
NoScratch == [max_size |-> -1]
-----------------------------------------------------------------------------
(* One block of memory, given out from the front and taken back down to a  *)
(* checkpoint.  A pointer is an offset into the block, -1 for NULL.  Sizes *)
(* are of a size_t: numbers up to SizeMax that wrap around.                *)
NoMemory == -1

Wrap(n) == n % (SizeMax + 1)

(* CEIL_DIV times the alignment; for a size of 0 both wrap around, to 0. *)
RoundToAlign(size) == Wrap((1 + Wrap(size - 1) \div Alignment) * Alignment)

ScratchOf(size) == [alloc_size |-> 0, max_size |-> size]

Left(s) == s.max_size - s.alloc_size

Checkpoint(s) == s.alloc_size

(* A checkpoint above what is allocated is refused. *)
ApplyCheckpoint(s, checkpoint) ==
    IF checkpoint > s.alloc_size THEN s ELSE [s EXCEPT !.alloc_size = checkpoint]

(* What so many objects may take up together, whatever their sizes. *)
MaxAllocation(s, objects) ==
    LET padding == Wrap(objects * (Alignment - 1))
    IN  IF objects > SizeMax \div (Alignment - 1) \/ Left(s) <= padding
        THEN 0 ELSE Left(s) - padding

Alloc(s, size) ==
    LET rounded == RoundToAlign(size)
    IN  IF rounded < size \/ rounded > Left(s)
        THEN [ptr |-> NoMemory, s |-> s]
        ELSE [ptr |-> s.alloc_size, s |-> [s EXCEPT !.alloc_size = @ + rounded]]
-----------------------------------------------------------------------------
MaxBucketWindow == 12       \* PIPPENGER_MAX_BUCKET_WINDOW
StraussObjects == 5         \* STRAUSS_SCRATCH_OBJECTS
PippengerObjects == 6       \* PIPPENGER_SCRATCH_OBJECTS

CeilOf(x, y) == 1 + (x - 1) \div y     \* CEIL_DIV of a positive x

WnafWords(w) == CeilOf(WnafBits, w)
-----------------------------------------------------------------------------
(* The most points a window of buckets is best for; 8 is never best.       *)
BestUpTo == <<1, 4, 20, 57, 136, 235, 1260, 1260, 4420, 7880, 16050>>

BucketWindow(n) ==
    LET enough == {w \in DOMAIN BestUpTo : n <= BestUpTo[w]}
    IN  IF enough = {} THEN MaxBucketWindow ELSE Min(enough)

BucketWindowInv(w) == IF w = MaxBucketWindow THEN SizeMax ELSE BestUpTo[w]

StraussScratchSize(n) ==
    n * ((GeSize + FeSize) * PointTableSize + StraussPointSize + GejSize + ScalarSize)

StraussRequests(n) ==
    <<n * GejSize, n * ScalarSize, n * PointTableSize * FeSize,
      n * PointTableSize * GeSize, n * StraussPointSize>>

(* Two entries, for each half of a scalar, and two for the generator. *)
Entries(n) == 2 * n + 2

EntrySize(w) ==
    GeSize + ScalarSize + PippengerPointSize + (WnafWords(w + 1) + 1) * IntSize

PippengerRequests(n) ==
    LET w == BucketWindow(n)
    IN  <<Entries(n) * GeSize, Entries(n) * ScalarSize, PippengerStateSize,
          Entries(n) * PippengerPointSize, Entries(n) * WnafWords(w + 1) * IntSize,
          2 ^ w * GejSize>>

(* The allocations of a batch, one after the other; the batch fails if one *)
(* of them does, and goes back to its checkpoint.                          *)
AllocAll(s, requests) ==
    LET after[i \in 0 .. Len(requests)] ==
            LET acc == after[i - 1]
                a == Alloc(acc.s, requests[i])
            IN  IF i = 0 THEN [s |-> s, ok |-> TRUE]
                ELSE [s |-> a.s, ok |-> acc.ok /\ a.ptr # NoMemory]
    IN  after[Len(requests)]
-----------------------------------------------------------------------------
StraussMaxPoints(s) == MaxAllocation(s, StraussObjects) \div StraussScratchSize(1)

\* Broken variant: the two entries of the generator are left out.
Overhead_NoGenerator(w) == 2 ^ w * GejSize + PippengerStateSize

(* The buckets, the state and the entries of the generator. *)
Overhead(w) == 2 ^ w * GejSize + 2 * EntrySize(w) + PippengerStateSize

(* Every window is tried, from the smallest, until one has no room left    *)
(* for all the points it is best for: with a larger one fewer points than  *)
(* its most might not fit.                                                 *)
TryWindow(room, acc, w) ==
    LET most == BucketWindowInv(w)
        n == Min({(room - Overhead(w)) \div (2 * EntrySize(w)), most})
    IN  IF acc.done THEN acc
        ELSE IF Overhead(w) > room THEN [acc EXCEPT !.done = TRUE]
        ELSE [res |-> Max({acc.res, n}), done |-> n < most]

PippengerMaxPoints(s) ==
    LET room == MaxAllocation(s, PippengerObjects)
        after[w \in 0 .. MaxBucketWindow] ==
            IF w = 0 THEN [res |-> 0, done |-> FALSE] ELSE TryWindow(room, after[w - 1], w)
    IN  after[MaxBucketWindow].res
-----------------------------------------------------------------------------
EvenSize(n, batches) == CeilOf(n, batches)

(* Batches of even size, none larger than what fits; none if nothing does. *)
BatchSizes(most, n) ==
    LET capped == Min({most, MaxPointsPerBatch})
        batches == CeilOf(n, capped)
    IN  IF most = 0 THEN [ok |-> FALSE]
        ELSE IF n = 0 THEN [ok |-> TRUE, batches |-> 0, points |-> 0]
        ELSE [ok |-> TRUE, batches |-> batches, points |-> EvenSize(n, batches)]

(* The method for n points, and how many each batch takes. *)
Plan(s, n) ==
    LET pippenger == BatchSizes(PippengerMaxPoints(s), n)
        strauss == BatchSizes(StraussMaxPoints(s), n)
    IN  CASE ~pippenger.ok -> [method |-> "simple"]
          [] pippenger.ok /\ pippenger.points >= PippengerThreshold ->
                [method |-> "pippenger", batches |-> pippenger.batches,
                 points |-> pippenger.points]
          [] OTHER ->
                IF ~strauss.ok THEN [method |-> "simple"]
                ELSE [method |-> "strauss", batches |-> strauss.batches,
                      points |-> strauss.points]

(* The points of batch i of n, counted from 1: after those before it. *)
Batch(plan, n, i) ==
    LET offset == plan.points * (i - 1)
    IN  [offset |-> offset, size |-> Min({n - offset, plan.points})]
-----------------------------------------------------------------------------
(* The life of a scratch space as the batches use it: objects are          *)
(* allocated after a checkpoint, and every end of a batch goes back to it; *)
(* batches nest, and the space is freed when none runs.                    *)
CONSTANTS
    BlockSizes, Requested,      \* sizes of spaces and of objects
    MaxFrames, MaxMarks,        \* objects and batches at a time
    Counts                      \* of points to be divided into batches

ASSUME RequestsAssumption ==
    /\ BlockSizes \subseteq 0 .. SizeMax /\ Requested \subseteq 0 .. SizeMax
    /\ Counts \subseteq Nat \ {0}

VARIABLE space      \* the scratch space, its objects and its checkpoints

NoSpace == [scratch |-> NoScratch, frames |-> <<>>, marks |-> <<>>]

SpaceOf(size) == [scratch |-> ScratchOf(size), frames |-> <<>>, marks |-> <<>>]

SpaceInit == space = NoSpace

(* If memory runs out the space stays NULL. *)
CreateSpace(size) ==
    /\ space.scratch = NoScratch
    /\ space' = SpaceOf(size)

DestroySpace ==
    /\ space.scratch # NoScratch /\ space.marks = <<>>
    /\ space' = NoSpace

BeginBatch ==
    /\ space.scratch # NoScratch /\ Len(space.marks) < MaxMarks
    /\ space' = [space EXCEPT !.marks = Append(@, [at |-> Checkpoint(space.scratch),
                                                  n |-> Len(space.frames)])]

Allocate(size) ==
    LET a == Alloc(space.scratch, size)
        frame == [start |-> a.ptr, size |-> size]
    IN  /\ space.marks # <<>> /\ Len(space.frames) < MaxFrames
        /\ space' = [space EXCEPT !.scratch = a.s,
                                  !.frames = IF a.ptr = NoMemory THEN @ ELSE Append(@, frame)]

EndBatch ==
    LET mark == space.marks[Len(space.marks)]
    IN  /\ space.marks # <<>>
        /\ space' = [scratch |-> ApplyCheckpoint(space.scratch, mark.at),
                     frames |-> SubSeq(space.frames, 1, mark.n),
                     marks |-> SubSeq(space.marks, 1, Len(space.marks) - 1)]

SpaceNext ==
    \/ \E size \in BlockSizes : CreateSpace(size)
    \/ BeginBatch
    \/ \E size \in Requested : Allocate(size)
    \/ EndBatch
    \/ DestroySpace

SpaceSpec == SpaceInit /\ [][SpaceNext]_space

(* Memory in use is aligned, lies inside the block and is used once, also  *)
(* after batches have ended and others have begun, and for sizes whose     *)
(* rounding wraps around.                                                  *)
FramesApart ==
    LET f == space.frames
    IN  \A i \in DOMAIN f :
            /\ f[i].start % Alignment = 0
            /\ f[i].start + f[i].size <= space.scratch.max_size
            /\ \A j \in DOMAIN f : i < j => f[i].start + f[i].size <= f[j].start

(* What the space says it can hold it holds: objects of any sizes that     *)
(* together stay within that can all be allocated.                         *)
GrantHolds ==
    \A a, b, c \in Requested :
        a + b + c <= MaxAllocation(space.scratch, 3) => AllocAll(space.scratch, <<a, b, c>>).ok

(* No checkpoint is refused, which would abort, and going back to one      *)
(* gives back what was allocated since, all of it or in part; when no      *)
(* batch runs everything has been, so that the space may be freed.         *)
CheckpointsStand ==
    /\ space.marks = <<>> => space.scratch.alloc_size = 0
    /\ \A i \in DOMAIN space.marks : space.marks[i].at <= space.scratch.alloc_size
    /\ \A a, b \in Requested :
          ApplyCheckpoint(AllocAll(space.scratch, <<a, b>>).s, Checkpoint(space.scratch))
              = space.scratch

(* The number of points that is said to fit does, and so does every        *)
(* smaller one, although fewer points may take larger buckets or less.     *)
FewerFitToo(s) ==
    /\ \A n \in 1 .. PippengerMaxPoints(s) : AllocAll(s, PippengerRequests(n)).ok
    /\ \A n \in 1 .. StraussMaxPoints(s) : AllocAll(s, StraussRequests(n)).ok

(* Every point is in one batch, no batch is empty or larger than fits.     *)
BatchesCover(s, n) ==
    LET plan == Plan(s, n)
        most == IF plan.method = "strauss" THEN StraussMaxPoints(s) ELSE PippengerMaxPoints(s)
        b == [i \in 1 .. plan.batches |-> Batch(plan, n, i)]
    IN  plan.method # "simple" =>
            /\ \A i \in DOMAIN b :
                  /\ b[i].size \in 1 .. most
                  /\ b[i].offset = IF i = 1 THEN 0 ELSE b[i - 1].offset + b[i - 1].size
            /\ b[plan.batches].offset + b[plan.batches].size = n

(* A scratch space holds what it says it holds, its objects never overlap, *)
(* every batch that is planned fits it, and it is given back as it was.    *)
SpaceHolds ==
    space.scratch # NoScratch =>
        /\ FramesApart /\ GrantHolds /\ CheckpointsStand
        /\ FewerFitToo(space.scratch) /\ \A n \in Counts : BatchesCover(space.scratch, n)
-----------------------------------------------------------------------------
(* Even scalars were made odd by adding one. *)
Unskewed(bucket, skew, p) ==
    IF skew = 1 THEN GejAddGeVar(bucket, GeNeg(p)).p ELSE bucket

(* One digit of every point goes to a bucket, and the buckets are summed   *)
(* with weights 1, 3, 5, ... by running sums.                              *)
PutInBucket(buckets, n, p) ==
    LET idx == IF n > 0 THEN (n - 1) \div 2 ELSE (-(n + 1)) \div 2
    IN  IF n = 0 THEN buckets
        ELSE [buckets EXCEPT ![idx + 1] = GejAddGeVar(@, IF n > 0 THEN p ELSE GeNeg(p)).p]

(* An entry e is a point with the digits of its scalar. *)
Sort(buckets, e, i) ==
    PutInBucket(IF i = 0 THEN [buckets EXCEPT ![1] = Unskewed(@, e.wnaf.skew, e.pt)] ELSE buckets,
                e.wnaf.digits[i + 1], e.pt)

Buckets(entries, size, i) ==
    FoldLeft(LAMBDA buckets, e : Sort(buckets, e, i),
             [j \in 1 .. size |-> GejInfinity], entries)

Weighed(r, running) == [running |-> running, r |-> GejAddVar(r, running).p]

WithFirst(sums, first) ==
    GejAddVar(GejDoubleVar(sums.r).p, GejAddVar(sums.running, first).p).p

AddBuckets(r, buckets) ==
    WithFirst(FoldLeft(LAMBDA acc, j : Weighed(acc.r, GejAddVar(acc.running, buckets[j]).p),
                       [running |-> GejInfinity, r |-> r],
                       [j \in 1 .. Len(buckets) - 1 |-> Len(buckets) + 1 - j]),
              buckets[1])

PippengerSum(entries, window, words) ==
    FoldLeft(LAMBDA r, i :
                 AddBuckets(FoldLeft(LAMBDA p, j : GejDoubleVar(p).p, r,
                                     [j \in 1 .. window |-> j]),
                            Buckets(entries, TableSize(window + 2), i)),
             GejInfinity, [k \in 1 .. words |-> words - k])

PippengerWnaf(window, sc, pt) ==
    LET used == SelectSeq([np \in DOMAIN sc |-> np],
                          LAMBDA np : sc[np] # 0 /\ ~pt[np].inf)
    IN  IF used = <<>> THEN GejInfinity
        ELSE PippengerSum([no \in DOMAIN used |->
                             [wnaf |-> R!WnafFixed(sc[used[no]], window + 1), pt |-> pt[used[no]]]],
                          window, R!WnafSize(window + 1))

(* A scalar and a point as two of half the length, signs moved over. *)
Turned(p, neg) == IF neg THEN GeNeg(p) ELSE p

SplitPoint(split, p1) ==
    [sc |-> <<split.s1, split.s2>>,
     pt |-> <<Turned(p1, split.neg1), Turned(MulLambda(p1), split.neg2)>>]

EndoSplit(s1, p1) == SplitPoint(R!EndoSplit(s1), p1)
-----------------------------------------------------------------------------
(* The result of a batch: ok, the sum r, the scratch space, and which      *)
(* points the callback was asked for, in order.                            *)
Asked(input, offset, n) ==
    LET bad == {i \in 1 .. n : ~input[offset + i].ok}
        upTo == IF bad = {} THEN n ELSE Min(bad)
    IN  [ok |-> bad = {}, asked |-> [i \in 1 .. upTo |-> offset + i]]

FailedBatch(s, allocated, checkpoint) == ApplyCheckpoint(allocated, checkpoint)

(* Either method: what it allocates, and its sum of the points in range. *)
SumInBatch(s, a, call, sum) ==
    IF ~a.ok THEN [ok |-> FALSE, s |-> FailedBatch(s, a.s, Checkpoint(s)), asked |-> <<>>]
    ELSE IF ~call.ok
    THEN [ok |-> FALSE, s |-> FailedBatch(s, a.s, Checkpoint(s)), asked |-> call.asked]
    ELSE [ok |-> TRUE, r |-> sum, s |-> ApplyCheckpoint(a.s, Checkpoint(s)), asked |-> call.asked]

RunBatch(s, inp_g_sc, input, n, offset, requests, sum) ==
    IF inp_g_sc = NoScalar /\ n = 0
    THEN [ok |-> TRUE, r |-> GejInfinity, s |-> s, asked |-> <<>>]
    ELSE SumInBatch(s, AllocAll(s, requests), Asked(input, offset, n), sum)

Given(inp_g_sc) == IF inp_g_sc = NoScalar THEN 0 ELSE inp_g_sc

StraussBatch(s, inp_g_sc, input, n, offset) ==
    RunBatch(s, inp_g_sc, input, n, offset, StraussRequests(n),
             StraussWnaf([i \in 1 .. n |-> GejSetGe(input[offset + i].pt)],
                         [i \in 1 .. n |-> input[offset + i].sc], Given(inp_g_sc)))

SplitEntries(inp_g_sc, input, n, offset) ==
    (IF inp_g_sc = NoScalar THEN <<>> ELSE <<EndoSplit(inp_g_sc, Point(1, 1, 1))>>)
        \o [i \in 1 .. n |-> EndoSplit(input[offset + i].sc, input[offset + i].pt)]

SumOfSplits(window, splits) ==
    PippengerWnaf(window, FlattenSeq([i \in DOMAIN splits |-> splits[i].sc]),
                  FlattenSeq([i \in DOMAIN splits |-> splits[i].pt]))

PippengerBatch(s, inp_g_sc, input, n, offset) ==
    RunBatch(s, inp_g_sc, input, n, offset, PippengerRequests(n),
             SumOfSplits(BucketWindow(n), SplitEntries(inp_g_sc, input, n, offset)))
-----------------------------------------------------------------------------
(* One multiplication after the other. *)
SimpleSum(s, inp_g_sc, input, call) ==
    IF ~call.ok THEN [ok |-> FALSE, s |-> s, asked |-> call.asked]
    ELSE [ok |-> TRUE, s |-> s, asked |-> call.asked,
          r |-> FoldLeft(LAMBDA r, i :
                             GejAddVar(r, EcmultVar(GejSetGe(input[i].pt), input[i].sc, 0)).p,
                         EcmultVar(GejInfinity, 0, Given(inp_g_sc)), call.asked)]

MultiSimpleVar(s, inp_g_sc, input) ==
    SimpleSum(s, inp_g_sc, input, Asked(input, 0, Len(input)))

BatchScalar(i, inp_g_sc) == IF i = 1 THEN inp_g_sc ELSE NoScalar

RunOne(method, s, g, input, b) ==
    IF method = "pippenger" THEN PippengerBatch(s, g, input, b.size, b.offset)
    ELSE StraussBatch(s, g, input, b.size, b.offset)

AfterOne(acc, one) ==
    [ok |-> one.ok, s |-> one.s, asked |-> acc.asked \o one.asked,
     r |-> IF one.ok THEN GejAddVar(acc.r, one.r).p ELSE acc.r]

(* The batches one after the other; the first that fails ends the call. *)
RunAll(plan, s, inp_g_sc, input) ==
    FoldLeft(LAMBDA acc, i :
                 IF ~acc.ok THEN acc
                 ELSE AfterOne(acc, RunOne(plan.method, acc.s, BatchScalar(i, inp_g_sc), input,
                                           Batch(plan, Len(input), i))),
             [ok |-> TRUE, r |-> GejInfinity, s |-> s, asked |-> <<>>],
             [i \in 1 .. plan.batches |-> i])

MultiBy(plan, s, inp_g_sc, input) ==
    IF s = NoScratch \/ plan.method = "simple" THEN MultiSimpleVar(s, inp_g_sc, input)
    ELSE RunAll(plan, s, inp_g_sc, input)

MultiVar(s, inp_g_sc, input) ==
    IF input = <<>>
    THEN [ok |-> TRUE, s |-> s, asked |-> <<>>,
          r |-> IF inp_g_sc = NoScalar THEN GejInfinity ELSE EcmultVar(GejInfinity, 0, inp_g_sc)]
    ELSE MultiBy(Plan(s, Len(input)), s, inp_g_sc, input)
=============================================================================
