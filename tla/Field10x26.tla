------------------------------ MODULE Field10x26 ----------------------------
(***************************************************************************)
(* field_10x26_impl.h: the field on machines of 32 bits.  C is spread over *)
(* two limbs here, 0x3D1 and 0x40.                                         *)
(***************************************************************************)
EXTENDS Limbs

CONSTANTS MaxMagnitude, MulMagnitude, SmallInts, MaxCalls      \* of FieldElement

VARIABLE fe

Field10x26Assumption ==
    /\ Size >= 4 /\ Len(C) = 2
    /\ Limb = Gap * TopLimb /\ Gap % 2 = 0
    /\ 2 * MaxMagnitude <= Slack /\ 2 * MaxMagnitude <= TopLimb
    /\ C[1] % 2 = 1 /\ \A i \in 1 .. 2 : C[i] * Gap < Limb
-----------------------------------------------------------------------------
GetBounds(m) == Bounds(m)

AtLeastP(t) ==
    /\ \A i \in 3 .. Size : t[i] = Largest(i)
    /\ W(t[2] + C[2] + Hi(W(t[1] + C[1]))) > Limb - 1

NeedsFinal(t) == Excess(t) > 0 \/ AtLeastP(t)

NormalizeWeak(r) == Reduced(r)

(* The final reduction is always done, by nothing when there is none. *)
Normalize(r) ==
    LET t == Reduced(r)
    IN  Cut(Carried(PlusC(t, IF NeedsFinal(t) THEN 1 ELSE 0)))

NormalizeVar(r) ==
    LET t == Reduced(r)
    IN  IF NeedsFinal(t) THEN Cut(Carried(PlusC(t, 1))) ELSE t

NormalizesToZero(r) == LET t == Reduced(r) IN IsZeroRaw(t) \/ IsPRaw(t)

NormalizesToZeroVar(r) ==
    Lo(PlusC(r, Excess(r))[1]) \in {0, Prime[1]} /\ NormalizesToZero(r)
-----------------------------------------------------------------------------
SetInt(a) == [i \in Index |-> IF i = 1 THEN a ELSE 0]

IsZero(a) == IsZeroRaw(a)

IsOdd(a) == a[1] % 2 = 1

CmpVar(a, b) ==
    LET differ == {i \in Index : a[i] # b[i]}
    IN  IF differ = {} THEN 0 ELSE IF a[Max(differ)] > b[Max(differ)] THEN 1 ELSE -1

SetB32Mod(n) == Digits(n, Limb, Size)

SetB32Limit(n) == [r |-> SetB32Mod(n), ok |-> ~AtLeastP(SetB32Mod(n))]

GetB32(a) == Number(a, Limb)

NegateUnchecked(a, m) == [i \in Index |-> W(Prime[i] * 2 * (m + 1) - a[i])]

MulIntUnchecked(r, a) == [i \in Index |-> W(r[i] * a)]

FeAdd(r, a) == [i \in Index |-> W(r[i] + a[i])]

AddInt(r, a) == [r EXCEPT ![1] = W(@ + a)]

Cmov(r, a, flag) == IF flag THEN a ELSE r

Half(r) ==
    ShiftedRight([i \in Index |-> W(r[i] + (IF IsOdd(r) THEN Prime[i] ELSE 0))])

StorageCmov(r, a, flag) == IF flag THEN a ELSE r

ToStorage(a) == Digits(Number(a, Limb), StorageBase, 8)

FromStorage(a) == Digits(Number(a, StorageBase), Limb, Size)

ToSigned(a) == Digits(Number(a, Limb), SignedBase, 9)

FromSigned(a) == Digits(Number(a, SignedBase), Limb, Size)
-----------------------------------------------------------------------------
R0 == C[1] * Gap        \* as many limbs up as there are counts this much ...
R1 == C[2] * Gap        \* ... and this much one limb further up

(* Each round adds the columns k to c and k + Size to d, takes the lowest  *)
(* limb u of d, which counts R0 and R1 lower down, and puts one off.       *)
Round(s, p, k) ==
    LET d == Wide(s.d + p[k + Size])
        u == Lo(d)
        c == Wide(Wide(s.c + p[k]) + u * R0)
    IN  [d |-> Hi(d), t |-> Append(s.t, Lo(c)), c |-> Wide(Hi(c) + u * R1)]

Inner(p) ==
    LET s == FoldLeft(LAMBDA acc, k : Round(acc, p, k),
                      [d |-> Hi(p[Size - 1]), c |-> 0, t |-> <<>>],
                      [k \in 1 .. Size - 1 |-> k - 1])
        last == Wide(s.c + Wide(s.d * R0) + Lo(p[Size - 1]))
        c == Wide((last \div TopLimb) + Wide(s.d * (R1 * Gap)))
        d0 == Wide(Wide(c * (R0 \div Gap)) + s.t[1])
        d1 == Wide(Hi(d0) + Wide(c * (R1 \div Gap)) + s.t[2])
        d2 == Wide(Hi(d1) + s.t[3])
    IN  <<Lo(d0), Lo(d1), W(d2)>> \o SubSeq(s.t, 4, Size - 1) \o <<last % TopLimb>>

MulInner(a, b) == Inner([k \in 0 .. 2 * Size - 2 |-> Wide(Column(a, b, k))])

SqrInner(a) == Inner([k \in 0 .. 2 * Size - 2 |-> Wide(SquareColumn(a, k))])

Mul(a, b) == MulInner(a, b)

Sqr(a) == SqrInner(a)
-----------------------------------------------------------------------------
INSTANCE FieldElement
=============================================================================
