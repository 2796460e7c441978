------------------------------- MODULE MCCurve ------------------------------
(***************************************************************************)
(* The modules of secp256k1 for TLC, on the curve y^2 = x^3 + 7 over 43,   *)
(* of 31 points.  They do not interact but by the operators they share, so *)
(* one specification takes each in turn: subject says which one a          *)
(* behaviour is about, and what belongs to the others stays as it is.      *)
(***************************************************************************)
EXTENDS Ecmult, Ecdsa, MuSig

CONSTANTS
    Subjects,               \* those to be checked
    MaxSteps,               \* operations on one point
    Few, FewOfG,            \* scalars of several points, and of G with them
    SpaceSizes, InUse,      \* of scratch spaces for sums, and what is taken
    SortKeys, MaxCount,     \* of the arrays that are sorted
    Most, Step, Numbers,    \* the spaces and points of "batches"
    MaxSize                 \* of an encoded signature

VARIABLES
    subject,
    test        \* the state of a subject that has no variables of its own

Processes == <<space, owned, schnorr, ctx, call, search, musig, made>>
vars == <<subject, test, Processes>>

BasePoint == <<2, 12>>

Scaled(k, s) == Rescale(GejSetGe(Point(k, 1, 1)), Fe(s, 1))

Loosened(p) == [p EXCEPT !.x.m = GejXMax, !.y.m = GejYMax]
-----------------------------------------------------------------------------
(* points: one Jacobian point that the operations are applied to, from     *)
(* every point with bounds both tight and as loose as they may be.  sum is *)
(* the multiple of the generator it should be.                             *)
Scales == {1, 3}

Operands ==
    LET ks == {0, 1, test.sum, Minus(test.sum), (Lambda * test.sum) % Order,
               (Lambda * Lambda * test.sum) % Order}
    IN  {Point(k, 1, 1) : k \in ks} \cup {Point(k, 4, 3) : k \in ks}

JacobianOperands ==
    {Loosened(Scaled(GeLog(b), s)) : b \in {p \in Operands : ~p.inf}, s \in Scales}
        \cup {GejInfinity}

PointsInit ==
    \E p \in {GejInfinity} \cup {Scaled(k, s) : k \in 1 .. Order - 1, s \in Scales} :
        \E acc \in {p, Loosened(p)} :
            test = [acc |-> acc, sum |-> GejLog(acc), steps |-> 0]

Becomes(p, k) ==
    /\ test.steps < MaxSteps
    /\ test' = [acc |-> p, sum |-> k % Order, steps |-> test.steps + 1]

Double == Becomes(GejDouble(test.acc), 2 * test.sum)
DoubleVar == Becomes(GejDoubleVar(test.acc).p, 2 * test.sum)
AddGe ==
    \E b \in Operands : ~b.inf /\ Becomes(GejAddGe(test.acc, b), test.sum + GeLog(b))
AddGeVar == \E b \in Operands : Becomes(GejAddGeVar(test.acc, b).p, test.sum + GeLog(b))
AddVar ==
    \/ \E b \in JacobianOperands : Becomes(GejAddVar(test.acc, b).p, test.sum + GejLog(b))
    \/ Becomes(GejAddVar(test.acc, test.acc).p, 2 * test.sum)
(* The operand with 1 / bzinv for its z, and the z left out. *)
AddZinvVar ==
    \E p \in Operands, bzinv \in Scales :
        LET b == SetZinv(p, Inv(Fe(bzinv, 1)))
        IN  Becomes(GejAddZinvVar(test.acc, [b EXCEPT !.x.m = p.x.m, !.y.m = p.y.m],
                                  Fe(bzinv, 1)),
                    test.sum + GeLog(p))
NegatePoint == Becomes(GejNeg(test.acc), -test.sum)
ScaleBy == \E s \in Scales : Becomes(Rescale(test.acc, Fe(s, 1)), test.sum)
ToAffine ==
    Becomes(SetGejVar(test.acc).a, test.sum) \/ Becomes(SetGej(test.acc).a, test.sum)
ByLambda == Becomes(GejSetGe(MulLambda(SetGejVar(test.acc).r)), Lambda * test.sum)
Move ==
    \E b \in Operands, flag \in BOOLEAN :
        Becomes(GejCmov(test.acc, GejSetGe(b), flag), IF flag THEN GeLog(b) ELSE test.sum)

PointsNext ==
    \/ Double \/ DoubleVar \/ AddGe \/ AddGeVar \/ AddVar \/ AddZinvVar
    \/ NegatePoint \/ ScaleBy \/ ToAffine \/ ByLambda \/ Move

(* Whatever operations led to it, the accumulator is the point they add up *)
(* to, and is marked as infinity exactly when that is the sum: equal and   *)
(* opposite operands, operands at infinity, and those with y1 = -y2 but    *)
(* other x coordinates included.                                           *)
ComputesSum ==
    subject = "points" => GejLog(test.acc) = test.sum /\ (test.acc.inf <=> test.sum = 0)

(* No operation lets a coordinate outgrow the magnitude its next use       *)
(* allows, from the largest magnitudes on.                                 *)
WithinLimits == subject = "points" => GejVerify(test.acc)

(* The ratio an operation reports is the one between the z coordinates,    *)
(* with an implicit z of zero at infinity: a table is brought to one z     *)
(* with it.                                                                *)
RatioHolds ==
    LET z(p) == IF p.inf THEN 0 ELSE p.z.v
        Holds(result) ==
            result.rzr # None =>
                /\ Verify(result.rzr, 8)
                /\ z(result.p) = (z(test.acc) * result.rzr.v) % FieldPrime
    IN  subject = "points" =>
            /\ Holds(GejDoubleVar(test.acc))
            /\ \A b \in Operands : Holds(GejAddGeVar(test.acc, b))
            /\ \A b \in JacobianOperands : Holds(GejAddVar(test.acc, b))

(* A comparison finds equal points equal whatever their z, and no others;  *)
(* the bytes and the compressed form of a point give the same point back,  *)
(* and the x coordinates of points are the ones found to be on the curve.  *)
Compares ==
    subject = "points" =>
        LET acc == test.acc
            sum == test.sum
            affine == SetGejVar(acc).r
            lifted == SetXoVar(NormalizeWeak(affine.x), IsOdd(Normalize(affine.y)))
            On(v) == \E k \in 1 .. Order - 1 : Multiple[k][1] = v
        IN  /\ \A b \in Operands :
                  /\ GejEqGeVar(acc, b) <=> GeLog(b) = sum
                  /\ GeEqVar(affine, b) <=> GeLog(b) = sum
                  /\ ~acc.inf /\ ~b.inf =>
                        (GejEqXVar(b.x, acc) <=> GeLog(b) \in {sum, Order - sum})
            /\ \A b \in JacobianOperands : GejEqVar(acc, b) <=> GejLog(b) = sum
            /\ GeLog(FromBytesExt(ToBytesExt(affine))) = sum
            /\ IsValidVar(affine) <=> sum # 0
            /\ ~acc.inf => lifted.ok /\ GeLog(lifted.r) = sum /\ GeVerify(lifted.r)
            /\ test.steps = 0 /\ acc.inf =>
                  \A v \in Residue, d \in Residue \ {0} :
                      /\ XOnCurveVar(Fe(v, 1)) = On(v)
                      /\ SetXoVar(Fe(v, 1), TRUE).ok = On(v)
                      /\ XFracOnCurveVar(Fe(v * d, 1), Fe(d, 1)) = On(v)
-----------------------------------------------------------------------------
(* multiples: every scalar of one point and of the generator, and up to    *)
(* three points with chosen scalars, at infinity, equal, opposite and      *)
(* related by the endomorphism.                                            *)
Chosen ==
    {GejInfinity, Scaled(1, 1), Scaled(1, 3), Scaled(Order - 1, 5), Scaled(Lambda, 2)}

MultiplesInit == \E n \in Scalar : test = [points |-> <<>>, scalars |-> <<>>, ng |-> n]

AddFactor ==
    /\ Len(test.points) < 3
    /\ test.points # <<>> => test.ng \in FewOfG /\ test.scalars[1] \in Few
    /\ \E p \in Chosen, n \in IF test.points = <<>> THEN Scalar ELSE Few :
          test' = [test EXCEPT !.points = Append(@, p), !.scalars = Append(@, n)]

Dot(ks, ps, start) ==
    FoldLeft(LAMBDA sum, i : sum + ks[i] * ps[i], start, [i \in DOMAIN ks |-> i]) % Order

Logs(points) == [i \in DOMAIN points |-> GejLog(points[i])]

(* The digits of every scalar, read from tables that were brought to one   *)
(* z, add up to the sum of the multiples, wherever the sum passes through  *)
(* infinity or meets a table entry; no magnitude is exceeded on the way.   *)
MultipliesVar ==
    subject = "multiples" =>
        LET Right(r) ==
                GejLog(r) = Dot(test.scalars, Logs(test.points), test.ng) /\ GejVerify(r)
        IN  Right(StraussWnaf(test.points, test.scalars, test.ng))

(* In constant time too, and by the x coordinate alone: a fraction that is *)
(* not the x coordinate of a point is refused.                             *)
MultipliesConst ==
    subject = "multiples" /\ Len(test.points) = 1 /\ test.ng = 0 =>
        LET q == test.scalars[1]
            Right(r) == GejLog(r) = Dot(test.scalars, Logs(test.points), 0) /\ GejVerify(r)
            RightX(result, on) ==
                /\ result.ok <=> on # {}
                /\ \A k \in on : result.x.v = X((k * q) % Order)
        IN  /\ Right(EcmultConstOf(SetGejVar(test.points[1]).r, q))
            /\ test.points[1] = Scaled(1, 1) /\ q # 0 =>
                  \A v \in Residue, d \in {1, 3} :
                      RightX(EcmultConstXonly(Fe(v * d, 1), Fe(d, 1), q, FALSE),
                             {k \in 1 .. Order - 1 : X(k) = v})

(* One inversion converts an array as converting each point does, with     *)
(* points at infinity anywhere in it.                                      *)
ConvertsAll ==
    subject = "multiples" =>
        LET all == SetAllGejVar(test.points)
        IN  \A i \in DOMAIN test.points :
                GeLog(all[i]) = GejLog(test.points[i]) /\ GeVerify(all[i])
-----------------------------------------------------------------------------
(* sums: of up to three points on scratch spaces of every kind, with small *)
(* stand-ins for the sizes of the C types.  The callback may fail.         *)
Summands ==
    {[sc |-> sc, pt |-> pt, ok |-> TRUE] :
        sc \in Few, pt \in {GeInfinity, Point(1, 1, 1), Point(Order - 1, 1, 1)}}
    \cup {[sc |-> 0, pt |-> GeInfinity, ok |-> FALSE]}

SumsInit ==
    \E g \in FewOfG \cup {NoScalar} :
    \E s \in {NoScratch} \cup {Alloc(ScratchOf(size), InUse).s : size \in SpaceSizes} :
        test = [input |-> <<>>, space |-> s, inp_g_sc |-> g]

AddSummand ==
    /\ Len(test.input) < 3
    /\ \E s \in Summands : test' = [test EXCEPT !.input = Append(@, s)]

(* With any scratch space, large, small or none, the call succeeds unless  *)
(* the callback does not, and yields the sum, one batch after the other.   *)
SumsAll ==
    subject = "sums" =>
        LET input == test.input
            fine == \A i \in DOMAIN input : input[i].ok
            g == IF test.inp_g_sc = NoScalar THEN 0 ELSE test.inp_g_sc
            Sums(result) ==
                /\ result.ok <=> fine
                /\ fine =>
                      /\ GejLog(result.r) = Dot([i \in DOMAIN input |-> input[i].sc],
                                               [i \in DOMAIN input |-> GeLog(input[i].pt)], g)
                      /\ GejVerify(result.r)
        IN  Sums(MultiVar(test.space, test.inp_g_sc, input))

(* The scratch space is given back as it was, also by a call that fails,   *)
(* and the callback is asked for each point once, in order, up to the      *)
(* first that fails.                                                       *)
GivesBack ==
    subject = "sums" =>
        LET Leaves(result) ==
                /\ result.s = test.space
                /\ \A i \in DOMAIN result.asked : result.asked[i] = i
                /\ result.ok => Len(result.asked) = Len(test.input)
        IN  Leaves(MultiVar(test.space, test.inp_g_sc, test.input))
-----------------------------------------------------------------------------
(* batches: with the sizes of a 64-bit build, scratch spaces of growing    *)
(* size, of which some is in use already.                                  *)
Real ==
    INSTANCE Ecmult WITH
        SizeMax <- 1073741823, Alignment <- 16, WnafBits <- 128, PointTableSize <- 8,
        PippengerThreshold <- 88, MaxPointsPerBatch <- 5000000, GeSize <- 88, GejSize <- 128,
        FeSize <- 40, ScalarSize <- 32, IntSize <- 4, StraussPointSize <- 1040,
        PippengerPointSize <- 16, PippengerStateSize <- 16

BatchesInit == \E used \in {0, 1, 1000} : test = [size |-> 0, used |-> used]

Grow == test.size < Most /\ test' = [test EXCEPT !.size = @ + Step]

SpaceLeft == Real!Alloc(Real!ScratchOf(test.size), test.used).s

(* What fits a space is planned as Ecmult promises.                        *)
PlansFit ==
    subject = "batches" =>
        Real!FewerFitToo(SpaceLeft) /\ \A n \in Numbers : Real!BatchesCover(SpaceLeft, n)
-----------------------------------------------------------------------------
(* comb: the context of the generator, under every blinding a sequence of  *)
(* calls can reach.  The comb yields the multiple that was asked for, for  *)
(* every scalar, with no point it cannot handle on the way and no          *)
(* magnitude exceeded.                                                     *)
CombMultiplies ==
    subject = "comb" /\ ctx.built =>
        \A gn \in Scalar :
            LET Right(r) == GejLog(r) = gn /\ GejVerify(r) IN Right(Gen(ctx, gn))
-----------------------------------------------------------------------------
(* keys: one of the two at a time, a secret key or a pair. *)
FewKeys == owned.seckey = Null \/ owned.pair = KeypairNull
-----------------------------------------------------------------------------
(* sorting: arrays of keys, zero for one that is invalid. *)
AddKey ==
    /\ Len(test.array) < MaxCount
    /\ \E k \in SortKeys : test' = [array |-> Append(test.array, k)]

(* The result is in order and made of the same elements, each once (id     *)
(* tells them apart), in arrays of any length and with any of the keys     *)
(* equal or invalid.                                                       *)
Sorts ==
    subject = "sorting" =>
        LET n == Len(test.array)
            arr == [i \in 0 .. n - 1 |-> [key |-> test.array[i + 1], id |-> i]]
            sorted == HSort(arr, n)
        IN  /\ \A i \in 1 .. n - 1 : Cmp(sorted[i - 1], sorted[i]) <= 0
            /\ {sorted[i] : i \in 0 .. n - 1} = {arr[i] : i \in 0 .. n - 1}
-----------------------------------------------------------------------------
(* schnorr and musig: one signer, and the sessions of two.  The hash is    *)
(* some function of all that is hashed; it takes on numbers that the order *)
(* reduces, too.                                                           *)
SomeHash(tag, numbers) ==
    FoldLeft(LAMBDA h, n : (11 * h + 7 * n + 5) % (Top + 1),
             CASE tag = "list" -> 1 [] tag = "coefficient" -> 2 [] tag = "nonce" -> 3
               [] tag = "noncecoef" -> 4 [] OTHER -> 5, numbers)

Rands == <<1, 8, 29>>
SomeKeys == {<<3, 10>>, <<3, 3>>}
-----------------------------------------------------------------------------
(* ellswift: encodings under way.  What holds of all pairs of numbers is   *)
(* checked where nothing has been drawn yet.                               *)
Fresh == subject = "ellswift" /\ ~search.done /\ search.valid
Encoded == subject = "ellswift" /\ search.done

(* Any 64 bytes are a key. *)
DecodesAlways ==
    Fresh /\ search.key = 1 =>
        \A u, t \in Bytes32 : Cardinality(EllswiftDecode(<<u, t>>)) = 1

Decodes(u, t) == Normalize(XSwiftEc(Fe(u, 1), Fe(t, 1))).v

(* The branches lead to different t, each of which decodes to x, and       *)
(* together to all that do, but for zero and those whose square is the     *)
(* opposite of u^3 + b.                                                    *)
InverseExact ==
    Fresh =>
        \A u \in Residue \ {0} :
            LET x == X(search.key)
                Exact(found) ==
                    LET cs == {c \in 0 .. 7 : found[c] # NoT}
                        ts == {Normalize(found[c]).v : c \in cs}
                    IN  /\ Cardinality(ts) = Cardinality(cs)
                        /\ ts = {t \in Residue \ {0} :
                                    /\ Decodes(u, t) = x
                                    /\ (u * u * u + CurveB + t * t) % FieldPrime # 0}
            IN  Exact([c \in 0 .. 7 |-> XSwiftEcInv(Fe(x, 1), Fe(u, 1), c)])

(* An encoding decodes to the key it was made of, y and all; that of an    *)
(* invalid secret key is zeroed.                                           *)
EncodesKey ==
    Encoded => IF search.valid THEN EllswiftDecode(search.ell) = {search.key}
               ELSE search.ell = <<0, 0>>

Shared(ours, theirs, k) ==
    /\ ours.x = X((search.key * k) % Order)
    /\ ours = Xdh(search.ell, theirs, k, TRUE)

(* Without a y coordinate both parties arrive at the x coordinate that     *)
(* decoding and ECDH would.                                                *)
SharedX ==
    Encoded /\ search.valid =>
        \A theirs \in {<<n, (3 * n) % Top>> : n \in 1 .. 12} :
            Shared(Xdh(search.ell, theirs, search.key, FALSE), theirs,
                   CHOOSE k \in EllswiftDecode(theirs) : TRUE)
-----------------------------------------------------------------------------
(* der: inputs that grow piece by piece, a tag, a length or a number at a  *)
(* time, and end anywhere; an odd length is met once in an input.  Bytes   *)
(* are below 32, and a scalar is one byte.                                 *)
Tags == {<<3>>, <<2>>}

OddLengths ==
    {<<16>>, <<31>>, <<17>>, <<17, 0>>, <<17, 3>>, <<17, 16>>, <<18, 0, 3>>, <<18, 1, 0>>,
     <<19, 0, 0, 3>>}

DerNumbers ==
    {<<a>> : a \in {0, 1, 16, 31}} \cup {<<a, b>> : a \in {0, 31}, b \in {1, 16, 30}}
    \cup {<<0, 0, 1>>, <<0, 16, 1>>}

Piece(p, odd) ==
    test' = [bytes |-> test.bytes \o p, turn |-> test.turn + 1, odd |-> odd]

AddPiece ==
    /\ Len(test.bytes) < MaxSize
    /\ \/ test.turn \in {1, 3, 6} /\ \E t \in Tags : Piece(t, test.odd)
       \/ test.turn = 2 /\ \E n \in 5 .. MaxSize : Piece(<<n>>, test.odd)
       \/ test.turn \in {4, 7} /\ \E n \in 0 .. 3 : Piece(<<n>>, test.odd)
       \/ test.turn \in {2, 4, 7} /\ ~test.odd /\ \E l \in OddLengths : Piece(l, TRUE)
       \/ test.turn \in {5, 8} /\ \E n \in DerNumbers : Piece(n, test.odd)
       \/ test.turn = 9 /\ Piece(<<1>>, test.odd)

(* Nothing is read past the end of the input, and a signature has one      *)
(* encoding: what is read is what would be written, unless a number was    *)
(* not a scalar and counts as zero.                                        *)
ReadsDer ==
    subject = "der" =>
        LET p == SigParse(test.bytes)
        IN  /\ ~p.over
            /\ p.ok /\ p.r # 0 /\ p.s # 0 =>
                  SigSerialize(p.r, p.s, Len(test.bytes)) =
                      [ok |-> TRUE, size |-> Len(test.bytes), sig |-> test.bytes]

(* Every signature is read back, and fails to fit exactly when it does not *)
(* fit.                                                                    *)
WritesDer ==
    subject = "der" /\ test.bytes = <<>> =>
        \A r, s \in Scalars :
            LET need == SigSerialize(r, s, 0).size
                p == SigParse(SigSerialize(r, s, need).sig)
            IN  /\ p.ok /\ p.r = r /\ p.s = s
                /\ Len(SigSerialize(r, s, need).sig) = need /\ ~SigSerialize(r, s, need - 1).ok
-----------------------------------------------------------------------------
(* inverse64, inverse32: every residue of a small prime. *)
Gcd64 == INSTANCE SafeGcd WITH
    call <- test, LimbBits <- 5, Limbs <- 3, Skip <- 1, Modulus <- 2039,
    ConstIterations <- 7, VarIterations <- 8, JacobiIterations <- 12
Gcd32 == INSTANCE SafeGcd WITH
    call <- test, LimbBits <- 4, Limbs <- 3, Skip <- 0, Modulus <- 1021,
    ConstIterations <- 7, VarIterations <- 9, JacobiIterations <- 12

ASSUME LimbsAssumption == Gcd64!SafeGcdAssumption /\ Gcd32!SafeGcdAssumption

(* The result is the inverse, of zero zero, and a symbol that was found is *)
(* the Legendre symbol.                                                    *)
FindsInverse ==
    /\ subject = "inverse64" => Gcd64!Correct(test)
    /\ subject = "inverse32" => Gcd32!Correct(test)

(* Between batches every number is within the bounds that the next batch   *)
(* relies on, no step loses a bit to the width of a word or to a limb that *)
(* was dropped, and there are no more batches than the code's checks say.  *)
WithinBounds ==
    /\ subject = "inverse64" => Gcd64!Bounded(test, 8)
    /\ subject = "inverse32" => Gcd32!Bounded(test, 9)
-----------------------------------------------------------------------------
(* digits: every scalar of a group of 4021, one after the other. *)
Digits == INSTANCE Recoding WITH
    Order <- 4021, ScalarBits <- 12, HalfBits <- 6, Lambda <- 2208, MinusB1 <- 51, B2 <- 20

Widths == {2, 3, 5}

NextScalar == test.k < 4020 /\ test' = [k |-> test.k + 1]

Weigh(digits, w) ==
    FoldLeft(LAMBDA sum, i : sum + digits[i + 1] * 2 ^ (w * i), 0,
             Digits!Range0(Len(digits)))

Abs(n) == IF n < 0 THEN -n ELSE n

(* The split gives back its scalar, and its parts fit the digits that are  *)
(* made of them, for every scalar: the rounding of the two estimates does  *)
(* not add up to more than half the bits.                                  *)
SplitIsSmall ==
    subject = "digits" =>
        LET s == Digits!SplitLambda(test.k)
            e == Digits!EndoSplit(test.k)
            h == Digits!Split128(test.k)
            Centred(n) == IF Digits!IsHigh(n) THEN n - 4021 ELSE n
        IN  /\ (s.r1 + 2208 * s.r2) % 4021 = test.k
            /\ Abs(Centred(s.r1)) < 64 /\ Abs(Centred(s.r2)) < 64
            /\ e.s1 < 64 /\ e.s2 < 64
            /\ ((IF e.neg1 THEN -e.s1 ELSE e.s1)
                   + 2208 * (IF e.neg2 THEN -e.s2 ELSE e.s2)) % 4021 = test.k
            /\ h.r1 + h.r2 * 64 = test.k

(* The digits add up to the scalar exactly, with no carry left over, also  *)
(* where the last window is cut short; they are zero or odd, index the     *)
(* table of odd multiples within its bounds, and stand w places apart.     *)
WnafSums ==
    subject = "digits" =>
      LET k == test.k
          Holds(a, len, w) ==
            LET n == Digits!Wnaf(a, len, w)
                d == n.digits
            IN  /\ Weigh(d, 1) \in {a, a - 4021} /\ n.carry = 0
                /\ \A i \in 1 .. len :
                      d[i] # 0 => /\ Abs(d[i]) % 2 = 1 /\ Abs(d[i]) < 2 ^ (w - 1)
                                  /\ i <= n.bits
                                  /\ \A j \in i + 1 .. len :
                                        j < i + w => d[j] = 0
          split == Digits!SplitLambda(k)
          low == Digits!Split128(k)
      IN  \A w \in Widths :
            /\ Holds(k, 12, w)
            /\ \A half \in {split.r1, split.r2, low.r1, low.r2} : Holds(half, 7, w)

(* The fixed digits less the skew are the scalar; each picks a bucket      *)
(* within the bounds of the array, and a leading 1 that a negative digit   *)
(* follows is gone.                                                        *)
FixedSums ==
    subject = "digits" =>
      LET e == Digits!EndoSplit(test.k)
      IN  \A w \in Widths : \A s \in {e.s1, e.s2, Digits!Split128(test.k).r1} :
            LET f == Digits!WnafFixed(s, w)
                d == f.digits
            IN  /\ Weigh(d, w) - f.skew = s
                /\ \A i \in DOMAIN d :
                      d[i] # 0 => Abs(d[i]) % 2 = 1 /\ Abs(d[i]) < 2 ^ w
                /\ \A i \in 2 .. Len(d) - 1 :
                      ~(d[i] = 1 /\ d[i - 1] < 0) /\ ~(d[i] = -1 /\ d[i - 1] > 0)
-----------------------------------------------------------------------------
(* field52, field26, scalar4x64, scalar8x32: elements in limbs and words,  *)
(* as large as TLC's integers allow for products of them.                  *)
Field52 == INSTANCE Field5x52 WITH
    fe <- test, Size <- 5, Limb <- 64, Gap <- 2, Slack <- 8, StorageBase <- 256, SignedBase <- 128,
    C <- <<1>>, MaxMagnitude <- 4, MulMagnitude <- 1, SmallInts <- {0, 1, 3}, MaxCalls <- 2
Field26 == INSTANCE Field10x26 WITH
    fe <- test, Size <- 6, Limb <- 32, Gap <- 4, Slack <- 16, StorageBase <- 16, SignedBase <- 64,
    C <- <<3, 1>>, MaxMagnitude <- 4, MulMagnitude <- 2, SmallInts <- {0, 1, 3}, MaxCalls <- 2
Scalar64 == INSTANCE Scalar4x64 WITH
    scalar <- test, Size <- 4, Limb <- 64, LimbBits <- 6, Gap <- 1, Slack <- 1, StorageBase <- 0,
    SignedBase <- 32, C <- <<45, 19, 1>>, MaxCalls <- 2
Scalar32 == INSTANCE Scalar8x32 WITH
    scalar <- test, Size <- 8, Limb <- 8, LimbBits <- 3, Gap <- 1, Slack <- 1, StorageBase <- 0,
    SignedBase <- 8, C <- <<5, 3, 6, 2, 1>>, MaxCalls <- 2

ASSUME WordsAssumption ==
    /\ Field52!Field5x52Assumption /\ Field26!Field10x26Assumption
    /\ Scalar64!Scalar4x64Assumption /\ Scalar32!Scalar8x32Assumption

(* Limbs stand for the residue that exact arithmetic yields, whatever      *)
(* calls led to them: no sum or product wrapped in its word.  No limb      *)
(* outgrows its magnitude, what is marked as normalized is, and elements   *)
(* are found to be zero, odd or larger by what they stand for:             *)
(* FieldElement.                                                           *)
FieldLimbs ==
    /\ subject = "field52" => Field52!LimbsExact /\ Field52!LimbsBounded /\ Field52!LimbsRead
    /\ subject = "field26" => Field26!LimbsExact /\ Field26!LimbsBounded /\ Field26!LimbsRead

(* Words are the digits of the number that exact arithmetic modulo the     *)
(* order yields, below the order; bits, halves and overflows are read of   *)
(* that number, and a product that is cut off is the nearest:              *)
(* ScalarElement.                                                          *)
ScalarWords ==
    /\ subject = "scalar4x64" =>
          Scalar64!WordsExact /\ Scalar64!WordsRead /\ Scalar64!NearestProduct
    /\ subject = "scalar8x32" =>
          Scalar32!WordsExact /\ Scalar32!WordsRead /\ Scalar32!NearestProduct

(* Numbers in limbs and in words are what exact arithmetic makes of them.  *)
LimbsHold == FieldLimbs /\ ScalarWords
-----------------------------------------------------------------------------
(* What is checked, of the parts above. *)

(* Whatever operations led to it, a point is the sum it should be and      *)
(* within the magnitudes that the next operation allows; the ratio an      *)
(* operation reports is the one it made, and comparisons, lifts and bytes  *)
(* find the point that it is.                                              *)
GroupArithmetic == ComputesSum /\ WithinLimits /\ RatioHolds /\ Compares

(* Every way to multiply, by a table and digits, in constant time, by the  *)
(* blinded comb, in batches of many points, which fit the space they are   *)
(* given and give it back, yields the multiple; so do the halves and       *)
(* digits it goes by.                                                      *)
Multiples ==
    /\ MultipliesVar /\ MultipliesConst /\ ConvertsAll /\ SumsAll /\ CombMultiplies
    /\ GivesBack /\ PlansFit /\ SplitIsSmall /\ WnafSums /\ FixedSums

(* An ECDSA signature is read back from its bytes.  Every pair of numbers  *)
(* is a key, every key is encoded by the pairs that decode to it, and both *)
(* parties share its x coordinate.  A list of keys is put in order.        *)
EncodingsHold ==
    ReadsDer /\ WritesDer /\ DecodesAlways /\ InverseExact /\ EncodesKey /\ SharedX /\ Sorts

(* Inverses and Jacobi symbols by divsteps are right, and on the way no    *)
(* number leaves the bounds the next batch relies on.                      *)
InverseHolds == FindsInverse /\ WithinBounds
-----------------------------------------------------------------------------
(* What a subject that is not the one in hand has in its variables. *)
SpaceIdle == space = NoSpace
KeysIdle == owned = KeysOf(0, 0)
SchnorrIdle == schnorr = NoSchnorr
CombIdle == ctx = Cleared
SigningIdle == call = NoCall
EllswiftIdle == search = Nil
MuSigIdle ==
    /\ keys = Nil /\ cache = Nil /\ tweaks = Nil /\ secrand = Nil /\ drawn = 0
    /\ secnonce = Nil /\ pubnonce = Nil /\ partial = Nil /\ session = Nil

(* Those that have variables of their own. *)
HasVariables == {"frames", "keys", "schnorr", "comb", "signing", "ellswift", "musig"}

TestInit ==
    \/ subject = "points" /\ PointsInit
    \/ subject = "multiples" /\ MultiplesInit
    \/ subject = "sums" /\ SumsInit
    \/ subject = "batches" /\ BatchesInit
    \/ subject = "sorting" /\ test = [array |-> <<>>]
    \/ subject = "der" /\ test = [bytes |-> <<>>, turn |-> 1, odd |-> FALSE]
    \/ subject = "inverse64" /\ Gcd64!Init
    \/ subject = "inverse32" /\ Gcd32!Init
    \/ subject = "digits" /\ test = [k |-> 0]
    \/ subject = "field52" /\ Field52!FieldInit
    \/ subject = "field26" /\ Field26!FieldInit
    \/ subject = "scalar4x64" /\ Scalar64!ScalarInit
    \/ subject = "scalar8x32" /\ Scalar32!ScalarInit

Init ==
    /\ subject \in Subjects /\ made = {}
    /\ IF subject \in HasVariables THEN test = Nil ELSE TestInit
    /\ IF subject = "frames" THEN SpaceInit ELSE SpaceIdle
    /\ IF subject = "keys" THEN KeysInit /\ FewKeys ELSE KeysIdle
    /\ IF subject = "schnorr" THEN SchnorrInit ELSE SchnorrIdle
    /\ IF subject = "comb" THEN ContextInit ELSE CombIdle
    /\ IF subject = "signing" THEN SignInner ELSE SigningIdle
    /\ IF subject = "ellswift" THEN EncodeInit ELSE EllswiftIdle
    /\ IF subject = "musig" THEN MuSigInit ELSE MuSigIdle

TestNext ==
    \/ subject = "points" /\ PointsNext
    \/ subject = "multiples" /\ AddFactor
    \/ subject = "sums" /\ AddSummand
    \/ subject = "batches" /\ Grow
    \/ subject = "sorting" /\ AddKey
    \/ subject = "der" /\ AddPiece
    \/ subject = "inverse64" /\ Gcd64!Next64
    \/ subject = "inverse32" /\ Gcd32!Next32
    \/ subject = "digits" /\ NextScalar
    \/ subject = "field52" /\ Field52!FieldNext
    \/ subject = "field26" /\ Field26!FieldNext
    \/ subject = "scalar4x64" /\ Scalar64!ScalarNext
    \/ subject = "scalar8x32" /\ Scalar32!ScalarNext

OwnNext ==
    \/ /\ subject = "frames" /\ SpaceNext
       /\ UNCHANGED <<owned, schnorr, ctx, call, search, musig, made>>
    \/ /\ subject = "keys" /\ KeysNext
       /\ UNCHANGED <<space, schnorr, ctx, call, search, musig, made>>
    \/ /\ subject = "schnorr" /\ SchnorrNext
       /\ UNCHANGED <<space, owned, ctx, call, search, musig, made>>
    \/ /\ subject = "comb" /\ ContextNext
       /\ UNCHANGED <<space, owned, schnorr, call, search, musig, made>>
    \/ /\ subject = "signing" /\ SignNext
       /\ UNCHANGED <<space, owned, schnorr, ctx, search, musig, made>>
    \/ /\ subject = "ellswift" /\ EncodeNext
       /\ UNCHANGED <<space, owned, schnorr, ctx, call, musig, made>>
    \/ /\ subject = "musig" /\ MuSigStep
       /\ UNCHANGED <<space, owned, schnorr, ctx, call, search>>

Next ==
    /\ UNCHANGED subject
    /\ \/ TestNext /\ UNCHANGED Processes
       \/ OwnNext /\ UNCHANGED test

Spec == Init /\ [][Next]_vars
=============================================================================
