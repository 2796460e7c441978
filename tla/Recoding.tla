------------------------------ MODULE Recoding ------------------------------
(***************************************************************************)
(* How ecmult_impl.h and scalar_impl.h rewrite a scalar as digits: the     *)
(* split along the endomorphism, the wNAF of a half-size scalar, and the   *)
(* fixed-width form with a skew.  Scalars are numbers below Order, of      *)
(* ScalarBits bits (256), and a half has HalfBits bits (128).              *)
(***************************************************************************)
EXTENDS Integers, SequencesExt

CONSTANTS
    Order, ScalarBits, HalfBits,
    Lambda,             \* a cube root of one modulo Order
    MinusB1, B2         \* of the lattice basis: a1 + b1 lambda = a2 + b2 lambda = 0

RecodingAssumption ==
    /\ 2 ^ (ScalarBits - 1) < Order /\ Order < 2 ^ ScalarBits
    /\ (Lambda * Lambda + Lambda + 1) % Order = 0

Neg(s) == (-s) % Order

IsHigh(s) == s > Order \div 2

Bits(s, offset, count) == (s \div 2 ^ offset) % 2 ^ count

CeilDiv(a, b) == (a + b - 1) \div b

Range0(n) == [i \in 1 .. n |-> i - 1]       \* 0, 1, ..., n - 1
-----------------------------------------------------------------------------
Shift == ScalarBits + HalfBits              \* 384

\* secp256k1_scalar_mul_shift_var: the rounded k * g / 2 ^ Shift.
MulShift(k, g) == (k * g + 2 ^ (Shift - 1)) \div 2 ^ Shift

Rounded(b) == ((2 ^ (Shift + 1)) * b + Order) \div (2 * Order)
G1 == Rounded(B2)
G2 == Rounded(MinusB1)

(* Scalars with r1 + lambda * r2 = k, both within half the bits of zero. *)
SplitLambda(k) ==
    LET Split(r2) == [r1 |-> (k - r2 * Lambda) % Order, r2 |-> r2]
    IN  Split((MulShift(k, G1) * MinusB1 - MulShift(k, G2) * B2) % Order)

(* The two halves of the bits. *)
Split128(k) ==
    [r1 |-> Bits(k, 0, HalfBits), r2 |-> Bits(k, HalfBits, HalfBits)]

(* The split with the signs moved to the points: neg says which to negate. *)
Low(r) == IF IsHigh(r) THEN Neg(r) ELSE r

Moved(s) ==
    [s1 |-> Low(s.r1), neg1 |-> IsHigh(s.r1), s2 |-> Low(s.r2), neg2 |-> IsHigh(s.r2)]

EndoSplit(k) == Moved(SplitLambda(k))
-----------------------------------------------------------------------------
Window(len, bit, w) == IF w > len - bit THEN len - bit ELSE w

CarryOut(word, w) == Bits(word, w - 1, 1)

(* Digits 0 or odd, from the lowest: digit i has the weight 2 ^ i.  A      *)
(* scalar with the top bit set stands for a negative number.  bits is the  *)
(* number of digits up to the last one set.                                *)
NextDigit(acc, bit, now, word, carry, w) ==
    [digits |-> Append(acc.digits, word - carry * 2 ^ w),
     bits |-> bit + 1, next |-> bit + now, carry |-> carry]

ReadWord(acc, bit, now, word, w) == NextDigit(acc, bit, now, word, CarryOut(word, w), w)

ReadDigit(acc, s, bit, now, w) ==
    IF bit < acc.next \/ Bits(s, bit, 1) = acc.carry
    THEN [acc EXCEPT !.digits = Append(@, 0)]
    ELSE ReadWord(acc, bit, now, Bits(s, bit, now) + acc.carry, w)

DigitsFrom(s, len, w) ==
    FoldLeft(LAMBDA acc, bit : ReadDigit(acc, s, bit, Window(len, bit, w), w),
             [digits |-> <<>>, bits |-> 0, next |-> 0, carry |-> 0], Range0(len))

Wnaf(a, len, w) ==
    IF Bits(a, ScalarBits - 1, 1) = 1
    THEN [DigitsFrom(Neg(a), len, w) EXCEPT !.digits = [i \in DOMAIN @ |-> -@[i]]]
    ELSE DigitsFrom(a, len, w)
-----------------------------------------------------------------------------
WnafSize(w) == CeilDiv(HalfBits, w)

(* A 1 or -1 next to a lower digit of the other sign folds into it.  The   *)
(* digit at pos, counted from zero, stands at pos + 1.                     *)
Cancel(d, pos, w) ==
    CASE pos >= 2 /\ d[pos] = 1 /\ d[pos - 1] < 0 ->
            [d EXCEPT ![pos - 1] = @ + 2 ^ w, ![pos] = 0]
      [] pos >= 2 /\ d[pos] = -1 /\ d[pos - 1] > 0 ->
            [d EXCEPT ![pos - 1] = @ - 2 ^ w, ![pos] = 0]
      [] OTHER -> d

(* One odd digit for every w bits, and what to take off the sum again. *)
PlaceDigit(d, pos, val, w) ==
    Cancel(IF val % 2 = 1 THEN [d EXCEPT ![pos + 1] = val]
           ELSE [d EXCEPT ![pos] = @ - 2 ^ w, ![pos + 1] = val + 1],
           pos, w)

FixedFrom(s, w, skew, size) ==
    LET lastW == HalfBits - (size - 1) * w
        Val(pos) == Bits(s, pos * w, IF pos = size - 1 THEN lastW ELSE w)
        used == {pos \in 1 .. size - 1 : Val(pos) # 0}
    IN  FoldLeft(LAMBDA d, pos : PlaceDigit(d, pos, Val(pos), w),
                 [i \in 1 .. size |-> IF i = 1 THEN Bits(s, 0, w) + skew ELSE 0],
                 [i \in 1 .. (IF used = {} THEN 0 ELSE Max(used)) |-> i])

WnafFixed(s, w) ==
    LET skew == IF s % 2 = 0 THEN 1 ELSE 0
    IN  IF s = 0 THEN [skew |-> 0, digits |-> [i \in 1 .. WnafSize(w) |-> 0]]
        ELSE [skew |-> skew, digits |-> FixedFrom(s, w, skew, WnafSize(w))]
=============================================================================
