------------------------------ MODULE Field5x52 -----------------------------
(***************************************************************************)
(* field_5x52_impl.h and field_5x52_int128_impl.h: the field on machines   *)
(* of 64 bits.                                                             *)
(***************************************************************************)
EXTENDS Limbs

CONSTANTS MaxMagnitude, MulMagnitude, SmallInts, MaxCalls      \* of FieldElement

VARIABLE fe

Field5x52Assumption ==
    /\ Size = 5 /\ Len(C) = 1
    /\ Limb = Gap * TopLimb /\ Gap % 2 = 0
    /\ 2 * MaxMagnitude <= Slack /\ 2 * MaxMagnitude <= TopLimb
    /\ C[1] % 2 = 1 /\ C[1] * Gap < Limb
-----------------------------------------------------------------------------
GetBounds(m) == Bounds(m)

AtLeastP(t) == (\A i \in 2 .. 5 : t[i] = Largest(i)) /\ t[1] >= Prime[1]

\* Broken variant: a carry out of the top limb is not looked for.
NeedsFinal_NoExcess(t) == AtLeastP(t)

NeedsFinal(t) == Excess(t) > 0 \/ AtLeastP(t)

NormalizeWeak(r) == Reduced(r)

(* The final reduction is always done, by nothing when there is none. *)
Normalize(r) ==
    LET t == Reduced(r)
    IN  Cut(Carried(PlusC(t, IF NeedsFinal(t) THEN 1 ELSE 0)))

NormalizeVar(r) ==
    LET t == Reduced(r)
    IN  IF NeedsFinal(t) THEN Cut(Carried(PlusC(t, 1))) ELSE t

NormalizesToZero(r) == LET t == Reduced(r) IN IsZeroRaw(t) \/ IsPRaw(t)

(* The lowest limb alone tells most elements from zero. *)
NormalizesToZeroVar(r) ==
    Lo(PlusC(r, Excess(r))[1]) \in {0, Prime[1]} /\ NormalizesToZero(r)
-----------------------------------------------------------------------------
SetInt(a) == [i \in Index |-> IF i = 1 THEN a ELSE 0]

IsZero(a) == IsZeroRaw(a)

IsOdd(a) == a[1] % 2 = 1

CmpVar(a, b) ==
    LET differ == {i \in Index : a[i] # b[i]}
    IN  IF differ = {} THEN 0 ELSE IF a[Max(differ)] > b[Max(differ)] THEN 1 ELSE -1

(* n is the number that the 32 bytes are. *)
SetB32Mod(n) == Digits(n, Limb, 5)

SetB32Limit(n) == [r |-> SetB32Mod(n), ok |-> ~AtLeastP(SetB32Mod(n))]

GetB32(a) == Number(a, Limb)

(* Taken from a multiple of P that is not less in any limb. *)
NegateUnchecked(a, m) == [i \in Index |-> W(Prime[i] * 2 * (m + 1) - a[i])]

MulIntUnchecked(r, a) == [i \in Index |-> W(r[i] * a)]

AddInt(r, a) == [r EXCEPT ![1] = W(@ + a)]

FeAdd(r, a) == [i \in Index |-> W(r[i] + a[i])]

Cmov(r, a, flag) == IF flag THEN a ELSE r

Half(r) ==
    ShiftedRight([i \in Index |-> W(r[i] + (IF IsOdd(r) THEN Prime[i] ELSE 0))])

StorageCmov(r, a, flag) == IF flag THEN a ELSE r

ToStorage(a) == Digits(Number(a, Limb), StorageBase, 4)

FromStorage(a) == Digits(Number(a, StorageBase), Limb, 5)

ToSigned(a) == Digits(Number(a, Limb), SignedBase, 5)

FromSigned(a) == Digits(Number(a, SignedBase), Limb, 5)
-----------------------------------------------------------------------------
R == C[1] * Gap         \* five limbs up counts this much

(* The columns are summed from the fourth on and then from the first, in   *)
(* two accumulators: d, of which what leaves the top counts R, and c.      *)
Inner(p) ==
    LET d3 == Wide(p[3] + R * W(p[8]))
        c3 == p[8] \div Word
        d4 == Wide(Hi(d3) + p[4] + (R * Slack) * W(c3))
        t4 == Lo(d4)
        d5 == Wide(Hi(d4) + p[5])
        u0 == W(Lo(d5) * Gap) + (t4 \div TopLimb)
        c0 == Wide(p[0] + u0 * (R \div Gap))
        d6 == Wide(Hi(d5) + p[6])
        c1 == Wide(Hi(c0) + p[1] + Lo(d6) * R)
        d7 == Wide(Hi(d6) + p[7])
        c2 == Wide(Hi(c1) + p[2] + R * W(d7))
        c4 == Wide(Hi(c2) + (R * Slack) * W(d7 \div Word) + Lo(d3))
    IN  <<Lo(c0), Lo(c1), Lo(c2), Lo(c4), W(Hi(c4) + (t4 % TopLimb))>>

MulInner(a, b) == Inner([k \in 0 .. 8 |-> Column(a, b, k)])

SqrInner(a) == Inner([k \in 0 .. 8 |-> SquareColumn(a, k)])

Mul(a, b) == MulInner(a, b)

Sqr(a) == SqrInner(a)
-----------------------------------------------------------------------------
INSTANCE FieldElement
=============================================================================
