----------------------------- MODULE FieldElement ---------------------------
(***************************************************************************)
(* A field element that the functions of field.h are applied to, with the  *)
(* magnitude and the mark of normal form that field_impl.h keeps of it in  *)
(* a VERIFY build, and next to it the residue v it should stand for.  A    *)
(* step is a call whose conditions hold.  The operators on limbs n are     *)
(* those of the module that instances this one, Field5x52 or Field10x26.   *)
(***************************************************************************)
LOCAL INSTANCE Integers
LOCAL INSTANCE SequencesExt
LOCAL INSTANCE FiniteSetsExt

CONSTANTS
    P, Full, Limb, Index, Largest(_),
    GetBounds(_), Normalize(_), NormalizeVar(_), NormalizeWeak(_),
    NormalizesToZero(_), NormalizesToZeroVar(_), SetInt(_), IsZero(_), IsOdd(_),
    CmpVar(_, _), SetB32Mod(_), SetB32Limit(_), GetB32(_), NegateUnchecked(_, _),
    MulIntUnchecked(_, _), AddInt(_, _), FeAdd(_, _), Mul(_, _), Sqr(_), Half(_),
    Cmov(_, _, _), ToStorage(_), FromStorage(_), ToSigned(_), FromSigned(_),
    MaxMagnitude, MulMagnitude,     \* 32, and 8 for what is multiplied
    SmallInts,                      \* for add_int and mul_int
    MaxCalls

VARIABLE fe

(* What limbs of any size stand for, modulo P: what is carried out of the  *)
(* highest one counts Full + 1 - P.                                        *)
Residue(n) ==
    LET unit == (Full + 1) \div Limb
    IN  FoldRight(LAMBDA limb, v :
                      (limb + (v % unit) * Limb + (v \div unit) * (Full + 1 - P)) % P,
                  n, 0)

(* The product of residues, digit by digit. *)
Times(a, b) ==
    LET x == SetB32Mod(a)
        y == SetB32Mod(b)
        Sum(k) == MapThenSumSet(LAMBDA i : x[i] * y[k + 1 - i], {i \in Index : k + 1 - i \in Index})
    IN  Residue([k \in 1 .. 2 * Len(x) - 1 |-> Sum(k)])

Element(n, m, norm, v) == [n |-> n, m |-> m, norm |-> norm, v |-> v % P]
-----------------------------------------------------------------------------
(* What the calls start from and combine with: numbers about P and about   *)
(* 2^256, and limbs as large as their magnitude lets them be, all of them  *)
(* or every other one.                                                     *)
Samples == {0, 1, P - 1, P, Full}

Patterns(m) ==
    {[i \in Index |-> IF i % 2 \in keep THEN GetBounds(m)[i] ELSE 0] : keep \in {{0}, {1}, {0, 1}}}

Elements ==
    {Element(SetB32Mod(x), 1, FALSE, x) : x \in Samples}
        \cup {Element(SetInt(x), IF x = 0 THEN 0 ELSE 1, TRUE, x) : x \in SmallInts}
        \cup UNION {{Element(n, m, FALSE, Residue(n)) : n \in Patterns(m)} :
                        m \in {1, MulMagnitude, MaxMagnitude}}

FieldInit == \E e \in Elements : fe = [e |-> e, calls |-> 0]

Becomes(n, m, norm, v) ==
    /\ fe.calls < MaxCalls
    /\ fe' = [e |-> Element(n, m, norm, v), calls |-> fe.calls + 1]

e == fe.e
-----------------------------------------------------------------------------
FeNormalize == \E n \in {Normalize(e.n), NormalizeVar(e.n)} : Becomes(n, 1, TRUE, e.v)

FeNormalizeWeak == Becomes(NormalizeWeak(e.n), 1, e.norm, e.v)

(* Bytes that are not less than P leave an element that is not to be used. *)
FeSetB32Limit ==
    \E x \in Samples :
        LET set == SetB32Limit(x) IN set.ok /\ Becomes(set.r, 1, TRUE, x)

FeAddInt ==
    \E x \in SmallInts :
        e.m < MaxMagnitude /\ Becomes(AddInt(e.n, x), e.m + 1, FALSE, e.v + x)

FeNegate ==
    \E m \in {e.m, MaxMagnitude - 1} :
        m >= e.m /\ m < MaxMagnitude /\ Becomes(NegateUnchecked(e.n, m), m + 1, FALSE, P - e.v)

FeMulInt ==
    \E x \in SmallInts :
        x * e.m <= MaxMagnitude
            /\ Becomes(MulIntUnchecked(e.n, x), e.m * x, FALSE, Times(e.v, x))

FeAddTo ==
    \E b \in Elements :
        e.m + b.m <= MaxMagnitude /\ Becomes(FeAdd(e.n, b.n), e.m + b.m, FALSE, e.v + b.v)

FeMul ==
    \E b \in Elements :
        /\ e.m <= MulMagnitude /\ b.m <= MulMagnitude
        /\ Becomes(Mul(e.n, b.n), 1, FALSE, Times(e.v, b.v))

FeSqr == e.m <= MulMagnitude /\ Becomes(Sqr(e.n), 1, FALSE, Times(e.v, e.v))

(* Half of an odd residue is half of its sum with P. *)
FeHalf ==
    /\ e.m < MaxMagnitude
    /\ Becomes(Half(e.n), (e.m \div 2) + 1, FALSE,
               IF e.v % 2 = 0 THEN e.v \div 2 ELSE (e.v \div 2) + (P \div 2) + 1)

FeCmov ==
    \E b \in Elements, flag \in BOOLEAN :
        Becomes(Cmov(e.n, b.n, flag), IF b.m > e.m THEN b.m ELSE e.m, e.norm /\ b.norm,
                IF flag THEN b.v ELSE e.v)

(* A normalized element is stored, and read again. *)
FeStorage == e.norm /\ Becomes(FromStorage(ToStorage(e.n)), 1, TRUE, e.v)

FieldNext ==
    \/ FeNormalize \/ FeNormalizeWeak \/ FeSetB32Limit \/ FeAddInt \/ FeNegate \/ FeMulInt
    \/ FeAddTo \/ FeMul \/ FeSqr \/ FeHalf \/ FeCmov \/ FeStorage
-----------------------------------------------------------------------------
(* Whatever calls led to it, the limbs stand for the residue that exact    *)
(* arithmetic yields: no sum or product wrapped in its word.               *)
LimbsExact == Residue(e.n) = e.v

(* No limb outgrows what the magnitude allows, and an element marked as    *)
(* normalized is: secp256k1_fe_impl_verify.                                *)
LimbsBounded ==
    /\ \A i \in Index : e.n[i] \in 0 .. GetBounds(e.m)[i]
    /\ e.norm => (\A i \in Index : e.n[i] <= Largest(i)) /\ GetB32(e.n) < P

(* An element is found to be zero, odd or the larger one of two by what it *)
(* stands for, and its bytes and the form it is inverted in give it back.  *)
LimbsRead ==
    /\ NormalizesToZero(e.n) <=> e.v = 0
    /\ NormalizesToZeroVar(e.n) <=> e.v = 0
    /\ e.norm =>
        /\ IsZero(e.n) <=> e.v = 0
        /\ IsOdd(e.n) <=> e.v % 2 = 1
        /\ GetB32(e.n) = e.v
        /\ FromSigned(ToSigned(e.n)) = e.n
        /\ \A b \in Elements :
              b.norm => CmpVar(e.n, b.n) = (IF e.v > b.v THEN 1 ELSE IF e.v < b.v THEN -1 ELSE 0)
=============================================================================
