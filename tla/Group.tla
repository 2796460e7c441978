-------------------------------- MODULE Group -------------------------------
(***************************************************************************)
(* The curve arithmetic of secp256k1: field elements (field_impl.h) and    *)
(* the formulas for points over them (group_impl.h), with the group they   *)
(* are to compute, in which a point is named by the number it is a         *)
(* multiple of the generator by, as in Bip32.                              *)
(***************************************************************************)
EXTENDS Integers, SequencesExt

CONSTANTS
    FieldPrime,
    CurveB,             \* SECP256K1_B of y^2 = x^3 + b
    Beta,               \* secp256k1_const_beta, a cube root of one
    Order, Generator    \* of the group

Residue == 0 .. FieldPrime - 1

(* The prime is 3 modulo 4, as sqrt needs, and odd, as half needs. *)
ASSUME FieldAssumption ==
    /\ FieldPrime \in Nat /\ FieldPrime % 4 = 3
    /\ CurveB \in Residue \ {0}
    /\ Beta \in Residue \ {1} /\ (Beta * Beta * Beta) % FieldPrime = 1
-----------------------------------------------------------------------------
(* A field element as a VERIFY build sees it: a value modulo p, a magnitude *)
(* that bounds how far the limbs may have grown, and whether the limbs are *)
(* normalized.  An operation whose preconditions fail yields Broken, which *)
(* breaks every later operation.                                           *)
MaxMagnitude == 32

Fe(v, m) == [v |-> v % FieldPrime, m |-> m, norm |-> FALSE]
Normalized(v, m) == [v |-> v % FieldPrime, m |-> m, norm |-> TRUE]

Broken == Fe(0, MaxMagnitude + 1)

If(ok, fe) == IF ok THEN fe ELSE Broken

Verify(a, m) == a.m <= m    \* secp256k1_fe_verify_magnitude
-----------------------------------------------------------------------------
SetInt(n) == Normalized(n, IF n = 0 THEN 0 ELSE 1)

FromStorage(v) == Normalized(v, 1)

NormalizeWeak(a) == If(Verify(a, MaxMagnitude), [a EXCEPT !.m = 1])

Normalize(a) == If(Verify(a, MaxMagnitude), Normalized(a.v, 1))

NormalizesToZero(a) == Verify(a, MaxMagnitude) /\ a.v = 0

IsOdd(a) == a.norm /\ a.v % 2 = 1

AddInt(a, n) == If(Verify(a, MaxMagnitude - 1), Fe(a.v + n, a.m + 1))

Negate(a, m) == If(Verify(a, m) /\ m < MaxMagnitude, Fe(-a.v, m + 1))

MulInt(a, n) == If(n * a.m <= MaxMagnitude, Fe(n * a.v, n * a.m))

Add(a, b) == If(a.m + b.m <= MaxMagnitude, Fe(a.v + b.v, a.m + b.m))

Mul(a, b) == If(Verify(a, 8) /\ Verify(b, 8), Fe(a.v * b.v, 1))

Sqr(a) == If(Verify(a, 8), Fe(a.v * a.v, 1))

(* Half of an odd value is half of the value plus p. *)
Half(a) ==
    If(Verify(a, MaxMagnitude - 1),
       Fe((a.v + (a.v % 2) * FieldPrime) \div 2, (a.m \div 2) + 1))

(* r takes a's value if the flag is set, and the larger bound either way. *)
Cmov(r, a, flag) ==
    If(Verify(a, MaxMagnitude) /\ Verify(r, MaxMagnitude),
       [v |-> IF flag THEN a.v ELSE r.v,
        m |-> IF a.m > r.m THEN a.m ELSE r.m,
        norm |-> a.norm /\ r.norm])

Equal(a, b) ==
    /\ Verify(a, 1) /\ Verify(b, MaxMagnitude - 1)
    /\ NormalizesToZero(Add(Negate(a, 1), b))

(* Zero has itself as its inverse. *)
Reciprocal ==
    [v \in Residue |->
        IF v = 0 THEN 0 ELSE CHOOSE u \in Residue : (u * v) % FieldPrime = 1]

Inv(a) ==
    If(Verify(a, MaxMagnitude),
       Normalized(Reciprocal[a.v], IF a.m > 0 THEN 1 ELSE 0))

(* a ^ ((p + 1) / 4): of a or -a, whichever is a square, the root that is  *)
(* a square itself.                                                        *)
SquareRoot ==
    LET squares == {(v * v) % FieldPrime : v \in Residue}
    IN  [v \in Residue |->
            CHOOSE r \in squares : (r * r) % FieldPrime \in {v, (-v) % FieldPrime}]

Sqrt(a) == If(Verify(a, 8), Fe(SquareRoot[a.v], 1))

IsSquare(a) == Equal(Sqr(Sqrt(NormalizeWeak(a))), NormalizeWeak(a))
-----------------------------------------------------------------------------
(* Affine points ge, and Jacobian points gej that stand for (x / z^2,      *)
(* y / z^3).  A function that fills in a ratio rzr returns it with the     *)
(* point; None stands for the NULL the function insists on.  What an       *)
(* operation leaves in the coordinates of a point at infinity is modelled  *)
(* too.                                                                    *)
Ge(x, y, inf) == [x |-> x, y |-> y, inf |-> inf]
Gej(x, y, z, inf) == [x |-> x, y |-> y, z |-> z, inf |-> inf]

(* secp256k1_ge_verify and secp256k1_gej_verify: the largest magnitudes. *)
GeVerify(a) == Verify(a.x, 4) /\ Verify(a.y, 3)
GejXMax == 4
GejYMax == 4
GejVerify(a) == Verify(a.x, GejXMax) /\ Verify(a.y, GejYMax) /\ Verify(a.z, 1)
-----------------------------------------------------------------------------
GeInfinity == Ge(SetInt(0), SetInt(0), TRUE)
GejInfinity == Gej(SetInt(0), SetInt(0), SetInt(0), TRUE)

SetXy(x, y) == Ge(x, y, FALSE)

(* (x, y) in units of 1 / zi: both secp256k1_ge_set_gej_zinv and           *)
(* secp256k1_ge_set_ge_zinv.                                               *)
SetZinv(a, zi) ==
    Ge(Mul(a.x, Sqr(zi)), Mul(a.y, Mul(Sqr(zi), zi)), a.inf)

(* The conversion scales the Jacobian point it is given too. *)
SetGej(a) ==
    LET Both(r) == [r |-> r, a |-> Gej(r.x, r.y, SetInt(1), a.inf)]
    IN  Both(SetZinv(a, Inv(a.z)))

SetGejVar(a) ==
    IF a.inf THEN [r |-> GeInfinity, a |-> a] ELSE SetGej(a)

GejSetGe(a) == Gej(a.x, a.y, SetInt(1), a.inf)

Opposite(y) == Negate(NormalizeWeak(y), 1)
GeNeg(a) == [a EXCEPT !.y = Opposite(@)]
GejNeg(a) == [a EXCEPT !.y = Opposite(@)]

Rescale(r, s) ==
    Gej(Mul(r.x, Sqr(s)), Mul(Mul(r.y, Sqr(s)), s), Mul(r.z, s), r.inf)

GejCmov(r, a, flag) ==
    Gej(Cmov(r.x, a.x, flag), Cmov(r.y, a.y, flag), Cmov(r.z, a.z, flag),
        IF flag THEN a.inf ELSE r.inf)

MulLambda(a) == [a EXCEPT !.x = Mul(@, FromStorage(Beta))]
-----------------------------------------------------------------------------
None == [ratio |-> "none"]

With(p, rzr) == [p |-> p, rzr |-> rzr]

(* s is y^2, l is 3 x^2 / 2 and t is -s x. *)
DoubledTo(a, s, l, t, x) ==
    Gej(x, Negate(Add(Mul(Add(t, x), l), Sqr(s)), 2), Mul(a.z, a.y), a.inf)

DoubledBy(a, s, l, t) == DoubledTo(a, s, l, t, Add(Add(Sqr(l), t), t))

GejDouble(a) ==
    DoubledBy(a, Sqr(a.y), Half(MulInt(Sqr(a.x), 3)), Mul(Negate(Sqr(a.y), 1), a.x))

GejDoubleVar(a) ==
    IF a.inf THEN With(GejInfinity, SetInt(1))
    ELSE With(GejDouble(a), NormalizeWeak(a.y))

(* The common end of the additions.  u1, s1 are a's coordinates and u2, s2 *)
(* b's over a common z, h and i their differences; the sum has h times     *)
(* that z.                                                                 *)
ChordTo(s1, i, z, h3, t, x) == Gej(x, Add(Mul(Add(t, x), i), Mul(h3, s1)), z, FALSE)

ChordBy(s1, i, z, h3, t) == ChordTo(s1, i, z, h3, t, Add(Add(Add(Sqr(i), h3), t), t))

Chord(u1, s1, h, i, z) ==
    ChordBy(s1, i, z, Mul(Negate(Sqr(h), 1), h), Mul(u1, Negate(Sqr(h), 1)))

Ratio(h, bz) == IF bz = None THEN h ELSE Mul(h, bz)

AddByDifferences(a, u1, s1, h, i, z, ratio) ==
    CASE NormalizesToZero(h) /\ NormalizesToZero(i) -> GejDoubleVar(a)
      [] NormalizesToZero(h) /\ ~NormalizesToZero(i) -> With(GejInfinity, SetInt(0))
      [] OTHER -> With(Chord(u1, s1, h, i, Mul(z, ratio)), ratio)

AddByX(a, u1, s1, h, s2, z, bz) ==
    AddByDifferences(a, u1, s1, h, Add(Negate(s2, 1), s1), z, Ratio(h, bz))

\* m bounds u1; z times the ratio, h or its product with bz, is the sum's z.
AddDistinct(a, u1, s1, u2, s2, m, z, bz) ==
    AddByX(a, u1, s1, Add(Negate(u1, m), u2), s2, z, bz)

GejAddVar(a, b) ==
    CASE a.inf -> With(b, None)
      [] ~a.inf /\ b.inf -> With(a, SetInt(1))
      [] OTHER ->
            AddDistinct(a, Mul(a.x, Sqr(b.z)), Mul(Mul(a.y, Sqr(b.z)), b.z),
                        Mul(b.x, Sqr(a.z)), Mul(Mul(b.y, Sqr(a.z)), a.z), 1, a.z, b.z)

GejAddGeVar(a, b) ==
    CASE a.inf -> With(GejSetGe(b), None)
      [] ~a.inf /\ b.inf -> With(a, SetInt(1))
      [] OTHER ->
            AddDistinct(a, a.x, a.y, Mul(b.x, Sqr(a.z)), Mul(Mul(b.y, Sqr(a.z)), a.z),
                        GejXMax, a.z, None)

(* The sum with (b.x, b.y, 1 / bzinv): a's z is scaled for the coordinates *)
(* and left alone for the result.                                          *)
AddScaled(a, b, az) ==
    AddDistinct(a, a.x, a.y, Mul(b.x, Sqr(az)), Mul(Mul(b.y, Sqr(az)), az),
                GejXMax, a.z, None).p

GejAddZinvVar(a, b, bzinv) ==
    CASE a.inf -> [GejSetGe(SetZinv(b, bzinv)) EXCEPT !.inf = b.inf]
      [] ~a.inf /\ b.inf -> a
      [] OTHER -> AddScaled(a, b, Mul(a.z, bzinv))
-----------------------------------------------------------------------------
\* Broken variant: the slope (x1^2 + x1 x2 + x2^2) / (y1 + y2) always.
Slope_OneForm(u1, s1, u2, m, rr) == [num |-> rr, den |-> m]

(* The slope of the unified addition; where y1 = -y2 its numerator and     *)
(* denominator are replaced by y1 - y2 and x1 - x2.                        *)
Slope(u1, s1, u2, m, rr) ==
    LET degenerate == NormalizesToZero(m)
    IN  [num |-> Cmov(MulInt(s1, 2), rr, ~degenerate),
         den |-> Cmov(Add(Negate(u2, 1), u1), m, ~degenerate)]

(* Addition and doubling in constant time; b is not infinity.  t is the    *)
(* sum of the x coordinates over a common z, m that of the y, n the square *)
(* of the slope's denominator and q is -t n.                               *)
UnifiedTo(b, x, y, z, inf) ==
    Gej(Cmov(x, b.x, inf), Cmov(y, b.y, inf), z, NormalizesToZero(z))

UnifiedY(x, q, num, n2) ==
    Half(Negate(Add(Mul(Add(MulInt(x, 2), q), num), n2), GejYMax + 2))

UnifiedFrom(a, b, slope, q, n2, x) ==
    UnifiedTo(b, x, UnifiedY(x, q, slope.num, n2),
              Cmov(Mul(a.z, slope.den), SetInt(1), a.inf), a.inf)

UnifiedOn(a, b, slope, m, n, q) ==
    UnifiedFrom(a, b, slope, q, Cmov(Sqr(n), m, NormalizesToZero(m)), Add(Sqr(slope.num), q))

UnifiedAlong(a, b, slope, t, m) ==
    UnifiedOn(a, b, slope, m, Sqr(slope.den), Mul(Negate(t, GejXMax + 1), Sqr(slope.den)))

UnifiedSum(a, b, u2, t, m) ==
    LET rr == Add(Sqr(t), Mul(a.x, Negate(u2, 1)))
    IN  UnifiedAlong(a, b, Slope(a.x, a.y, u2, m, rr), t, m)

UnifiedOver(a, b, u2, s2) == UnifiedSum(a, b, u2, Add(a.x, u2), Add(a.y, s2))

GejAddGe(a, b) ==
    UnifiedOver(a, b, Mul(b.x, Sqr(a.z)), Mul(Mul(b.y, Sqr(a.z)), a.z))
-----------------------------------------------------------------------------
GejEqVar(a, b) == GejAddVar(GejNeg(a), b).p.inf

GejEqGeVar(a, b) == GejAddGeVar(GejNeg(a), b).p.inf

GeEqVar(a, b) ==
    /\ a.inf = b.inf
    /\ a.inf \/ /\ Equal(NormalizeWeak(a.x), b.x)
                /\ Equal(NormalizeWeak(a.y), b.y)

GejEqXVar(x, a) == Equal(Mul(Sqr(a.z), x), a.x)

CurveRhs(x) == AddInt(Mul(Sqr(x), x), CurveB)

IsValidVar(a) == ~a.inf /\ Equal(Sqr(a.y), CurveRhs(a.x))

XOnCurveVar(x) == IsSquare(CurveRhs(x))

XFracOnCurveVar(xn, xd) ==
    IsSquare(Add(Mul(Mul(xd, xn), Sqr(xn)), MulInt(Sqr(Sqr(xd)), CurveB)))

(* The point with this x and the y of the parity asked for; ok says        *)
(* whether there is one.                                                   *)
SetXoVar(x, odd) ==
    LET OfParity(y) == IF IsOdd(y) # odd THEN Negate(y, 1) ELSE y
        From(rhs, root) == [ok |-> Equal(Sqr(root), rhs), r |-> SetXy(x, OfParity(Normalize(root)))]
        Lifted(rhs) == From(rhs, Sqrt(rhs))
    IN  Lifted(CurveRhs(x))

(* 64 bytes: the coordinates, normalized, or zeros for infinity. *)
ToBytesExt(a) ==
    IF a.inf THEN <<0, 0>> ELSE <<Normalize(a.x).v, Normalize(a.y).v>>

FromBytesExt(bytes) ==
    IF bytes = <<0, 0>> THEN GeInfinity
    ELSE SetXy(FromStorage(bytes[1]), FromStorage(bytes[2]))
-----------------------------------------------------------------------------
(* The conversions of whole arrays. *)

(* Every z is inverted with one inversion: of the product of those that    *)
(* are not at infinity, taken apart again from the last to the first.      *)
Products(a, finite) ==
    FoldLeft(LAMBDA acc, i : Append(acc, IF acc = <<>> THEN a[i].z ELSE Mul(acc[Len(acc)], a[i].z)),
             <<>>, finite)

\* acc.u is the inverse of the product of the first i finite ones.
TakeApart(acc, i, z, products) ==
    [u |-> Mul(acc.u, z),
     zi |-> <<IF i = 1 THEN acc.u ELSE Mul(products[i - 1], acc.u)>> \o acc.zi]

Inverses(a, finite, products) ==
    FoldRight(LAMBDA i, acc : TakeApart(acc, i, a[finite[i]].z, products),
              [i \in DOMAIN finite |-> i],
              [u |-> Inv(products[Len(products)]), zi |-> <<>>]).zi

SetAllByZi(a, finite, zi) ==
    [i \in DOMAIN a |->
        IF a[i].inf THEN GeInfinity
        ELSE SetZinv(a[i], zi[CHOOSE j \in DOMAIN finite : finite[j] = i])]

SetAllFinite(a, finite) == SetAllByZi(a, finite, Inverses(a, finite, Products(a, finite)))

SetAllGejVar(a) ==
    SetAllFinite(a, SelectSeq([i \in DOMAIN a |-> i], LAMBDA i : ~a[i].inf))

(* All entries get the z of the last one, which keeps its coordinates. *)
Scale(acc, i, zs) == [zs |-> zs, a |-> [acc.a EXCEPT ![i - 1] = SetZinv(@, zs)]]

TableSetGlobalz(a, zr) ==
    LET len == Len(a)       \* entries are counted from the end
    IN  IF len = 0 THEN a
        ELSE FoldLeft(LAMBDA acc, i :
                          Scale(acc, i, IF i = len THEN zr[i] ELSE Mul(acc.zs, zr[i])),
                      [zs |-> SetInt(0), a |-> [a EXCEPT ![len].y = NormalizeWeak(@)]],
                      [j \in 1 .. len - 1 |-> len + 1 - j]).a
-----------------------------------------------------------------------------
(* The group the formulas are to compute: the points of the curve with a   *)
(* point at infinity, added by chord and tangent.                          *)
O == <<>>       \* the point at infinity

Slant(p, q) ==
    LET rise == IF p = q THEN <<3 * p[1] * p[1], 2 * p[2]>>
                         ELSE <<q[2] - p[2], q[1] - p[1]>>
    IN  rise[1] * Reciprocal[rise[2] % FieldPrime]

Plus(p, q) ==
    CASE p = O -> q
      [] q = O -> p
      [] OTHER ->
            IF p[1] = q[1] /\ (p[2] + q[2]) % FieldPrime = 0 THEN O
            ELSE LET Third(l, x) == <<x, (l * (p[1] - x) - p[2]) % FieldPrime>>
                     Along(l) == Third(l, (l * l - p[1] - q[1]) % FieldPrime)
                 IN  Along(Slant(p, q))

(* The multiples 0, 1, ..., Order - 1 of the generator. *)
Multiple ==
    LET Next(ps, k) == Append(ps, Plus(ps[k], Generator))
        FromZero(ps) == [k \in 0 .. Order - 1 |-> ps[k + 1]]
    IN  FromZero(FoldLeft(Next, <<O>>, [k \in 1 .. Order - 1 |-> k]))

(* The generator is on the curve and of order Order, and the curve has no  *)
(* other point.                                                            *)
ASSUME CurveAssumption ==
    /\ Plus(Multiple[Order - 1], Generator) = O
    /\ {Multiple[k] : k \in 1 .. Order - 1} =
          {p \in Residue \X Residue :
              (p[2] * p[2]) % FieldPrime = (p[1] * p[1] * p[1] + CurveB) % FieldPrime}

Log ==
    LET Of(points) == [p \in Range(points) |-> CHOOSE k \in DOMAIN points : points[k] = p]
    IN  Of(Multiple)

\* The multiplier for which Beta scales the x coordinate.
Lambda == Log[<<(Beta * Generator[1]) % FieldPrime, Generator[2]>>]
-----------------------------------------------------------------------------
(* What points of the code stand for; not on the curve: -1. *)
Named(p) == LET Of(log) == IF p \in DOMAIN log THEN log[p] ELSE -1 IN Of(Log)

GeLog(a) == IF a.inf THEN 0 ELSE Named(<<a.x.v, a.y.v>>)

GejLog(a) ==
    LET Affine(zi) == <<(a.x.v * zi * zi) % FieldPrime, (a.y.v * zi * zi * zi) % FieldPrime>>
    IN  IF a.inf THEN 0 ELSE Named(Affine(Reciprocal[a.z.v]))

(* The affine point k with given magnitudes. *)
Point(k, xm, ym) ==
    LET At(p) == SetXy(Fe(p[1], xm), Fe(p[2], ym))
    IN  IF k = 0 THEN GeInfinity ELSE At(Multiple[k])
=============================================================================
