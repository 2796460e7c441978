---------------------------- MODULE ScalarElement ---------------------------
(***************************************************************************)
(* A scalar that the functions of scalar.h are applied to, and next to its *)
(* words d the number v it should be.  The operators on words are those of *)
(* the module that instances this one, Scalar4x64 or Scalar8x32.           *)
(***************************************************************************)
LOCAL INSTANCE Integers
LOCAL INSTANCE SequencesExt
LOCAL INSTANCE FiniteSetsExt

CONSTANTS
    P, Full, Limb, LimbBits, Size, Index,
    SetInt(_), GetBitsVar(_, _, _), ScalarAdd(_, _), CaddBit(_, _, _), SetB32(_), GetB32(_),
    IsZero(_), IsOne(_), IsEven(_), IsHigh(_), Negate(_), Half(_), CondNegate(_, _), Mul(_, _),
    Split128(_), MulShiftVar(_, _, _), Cmov(_, _, _), ToSigned(_), FromSigned(_), Eq(_, _),
    MaxCalls

VARIABLE scalar

Bits == Size * LimbBits

(* What digits of any size and sign stand for, modulo P. *)
Residue(n) ==
    LET unit == (Full + 1) \div Limb
    IN  FoldRight(LAMBDA limb, v :
                      (limb + (v % unit) * Limb + (v \div unit) * (Full + 1 - P)) % P,
                  n, 0)

DigitsOf(n) == [i \in 1 .. Size |-> (n \div Limb ^ (i - 1)) % Limb]

(* The product of two numbers, digit by digit. *)
Product(a, b) ==
    LET x == DigitsOf(a)
        y == DigitsOf(b)
    IN  [k \in 1 .. 2 * Size - 1 |->
            MapThenSumSet(LAMBDA i : x[i] * y[k + 1 - i], {i \in Index : k + 1 - i \in Index})]

Samples ==
    {0, 1, Limb - 1, P \div 2, (P \div 2) + 1, P - 1, P, Full, Full + 1 - P,
     Full - Limb + 1}

Valid == {n \in Samples : n < P}

ScalarInit == \E n \in Valid : scalar = [d |-> DigitsOf(n), v |-> n, calls |-> 0]

Becomes(d, v) ==
    /\ scalar.calls < MaxCalls
    /\ scalar' = [d |-> d, v |-> v % P, calls |-> scalar.calls + 1]

d == scalar.d
v == scalar.v
-----------------------------------------------------------------------------
Adding == \E b \in Valid : Becomes(ScalarAdd(d, DigitsOf(b)).r, v + b)

AddingBit ==
    \E bit \in 0 .. Bits - 1, flag \in BOOLEAN :
        LET sum == IF flag THEN v + 2 ^ bit ELSE v
        IN  sum < P /\ Becomes(CaddBit(d, bit, flag), sum)

Reading == \E n \in Samples : Becomes(SetB32(n).r, n)

Negating == Becomes(Negate(d), P - v) \/ Becomes(CondNegate(d, TRUE).r, P - v)

Keeping == Becomes(CondNegate(d, FALSE).r, v)

Halving == Becomes(Half(d), IF v % 2 = 0 THEN v \div 2 ELSE (v \div 2) + (P \div 2) + 1)

Multiplying == \E b \in Valid : Becomes(Mul(d, DigitsOf(b)), Residue(Product(v, b)))

Moving ==
    \E b \in Valid, flag \in BOOLEAN : Becomes(Cmov(d, DigitsOf(b), flag), IF flag THEN b ELSE v)

Setting == \E n \in {0, 1, Limb - 1} : Becomes(SetInt(n), n)

ScalarNext ==
    \/ Adding \/ AddingBit \/ Reading \/ Negating \/ Keeping \/ Halving \/ Multiplying
    \/ Moving \/ Setting
-----------------------------------------------------------------------------
(* Whatever calls led to it, the words are the digits of the number that   *)
(* exact arithmetic modulo the order yields, and that is below the order.  *)
WordsExact == \A i \in Index : d[i] = DigitsOf(v)[i]

(* What is read of a scalar is read of that number: where it is compared   *)
(* with the order or its half, its bits wherever they lie in the words,    *)
(* its halves, the words it is inverted in, and whether a sum or 32 bytes  *)
(* were beyond the order.                                                  *)
WordsRead ==
    LET split == Split128(d)
    IN  /\ IsZero(d) <=> v = 0
        /\ IsOne(d) <=> v = 1
        /\ IsEven(d) <=> v % 2 = 0
        /\ IsHigh(d) <=> v > P \div 2
        /\ GetB32(d) = v /\ FromSigned(ToSigned(d)) = d
        /\ CondNegate(d, TRUE).sign = -1 /\ CondNegate(d, FALSE).sign = 1
        /\ GetB32(split.r1) + GetB32(split.r2) * 2 ^ (Bits \div 2) = v
        /\ \A offset \in 0 .. Bits - 1 : \A count \in 1 .. LimbBits :
              offset + count <= Bits =>
                  GetBitsVar(d, offset, count) = (v \div 2 ^ offset) % 2 ^ count
        /\ \A n \in Samples : SetB32(n).overflow = (IF n < P THEN 0 ELSE 1)
        /\ \A b \in Valid :
              /\ ScalarAdd(d, DigitsOf(b)).overflow = (IF v + b < P THEN 0 ELSE 1)
              /\ Eq(d, DigitsOf(b)) <=> v = b

(* A product is cut off to the nearest: between half of the unit below it  *)
(* and half of it above.                                                   *)
NearestProduct ==
  scalar.calls = 0 =>
    \A b \in Valid, shift \in Bits .. 2 * Bits - 1 :
        LET r == MulShiftVar(d, DigitsOf(b), shift)
            At(k, bit, x) == IF bit \div LimbBits = k - 1 THEN x * 2 ^ (bit % LimbBits) ELSE 0
            terms == [k \in 1 .. 4 * Size |->
                         (IF k < 2 * Size THEN Product(v, b)[k] ELSE 0) + At(k, shift - 1, 1)
                            - MapThenSumSet(LAMBDA i : At(k, shift + (i - 1) * LimbBits, r[i]), Index)]
            rest == FoldLeft(LAMBDA s, t : [n |-> Append(s.n, (s.c + t) % Limb),
                                            c |-> (s.c + t) \div Limb],
                             [n |-> <<>>, c |-> 0], terms)
        IN  /\ rest.c = 0
            /\ \A k \in 1 .. 4 * Size :
                  rest.n[k] < (IF k - 1 < shift \div LimbBits THEN Limb
                               ELSE IF k - 1 = shift \div LimbBits THEN 2 ^ (shift % LimbBits)
                               ELSE 1)
=============================================================================
