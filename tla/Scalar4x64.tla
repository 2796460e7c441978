------------------------------ MODULE Scalar4x64 ----------------------------
(***************************************************************************)
(* scalar_4x64_impl.h: scalars modulo the group's order as four words of   *)
(* 64 bits.  P is the order here, and C what it lacks of 2^256.            *)
(***************************************************************************)
EXTENDS Limbs

CONSTANTS LimbBits, MaxCalls        \* 64 or 32, and of ScalarElement

VARIABLE scalar

(* The order is close to 2^256: C, which it lacks of that, has fewer words *)
(* than a scalar.                                                          *)
Scalar4x64Assumption ==
    /\ Size = 4 /\ Len(C) = 3 /\ C[3] = 1 /\ C[1] > 0
    /\ Gap = 1 /\ Slack = 1 /\ Limb = 2 ^ LimbBits
-----------------------------------------------------------------------------
HalfOrder == Digits(P \div 2, Limb, Size)        \* SECP256K1_N_H

SetInt(v) == [i \in Index |-> IF i = 1 THEN v ELSE 0]

GetBitsLimb32(a, offset, count) ==
    (a[(offset \div LimbBits) + 1] \div 2 ^ (offset % LimbBits)) % 2 ^ count

GetBitsVar(a, offset, count) ==
    LET limb == offset \div LimbBits
        low == offset % LimbBits
    IN  IF (offset + count - 1) \div LimbBits = limb THEN GetBitsLimb32(a, offset, count)
        ELSE ((a[limb + 1] \div 2 ^ low) + W(a[limb + 2] * 2 ^ (LimbBits - low))) % 2 ^ count

(* Only the second word from the top can exceed that of the order, which   *)
(* has all bits of the top one set.                                        *)
CheckOverflow(a) ==
    LET no3 == a[4] < Prime[4] \/ a[3] < Prime[3]
        yes3 == a[3] > Prime[3] /\ ~no3
        no2 == no3 \/ a[2] < Prime[2]
        yes2 == yes3 \/ (a[2] > Prime[2] /\ ~no2)
    IN  yes2 \/ (a[1] >= Prime[1] /\ ~no2)

(* Sums of words from the lowest on, with their carries; the last carry,   *)
(* if any, is left over.                                                   *)
Summed(terms) ==
    FoldLeft(LAMBDA s, t : [d |-> Append(s.d, (s.c + t) % Limb), c |-> (s.c + t) \div Limb],
             [d |-> <<>>, c |-> 0], terms)

Reduce(r, overflow) ==
    Summed([i \in Index |-> r[i] + (IF i \in DOMAIN C THEN overflow * C[i] ELSE 0)]).d

Overflows(r) == IF CheckOverflow(r) THEN 1 ELSE 0

\* Broken variant: what leaves the last word is dropped.
ScalarAdd_NoCarry(a, b) ==
    LET t == Summed([i \in Index |-> a[i] + b[i]])
    IN  [r |-> Reduce(t.d, Overflows(t.d)), overflow |-> Overflows(t.d)]

ScalarAdd(a, b) ==
    LET t == Summed([i \in Index |-> a[i] + b[i]])
        overflow == t.c + Overflows(t.d)
    IN  [r |-> Reduce(t.d, overflow), overflow |-> overflow]

(* Without the flag the bit is beyond the last word. *)
CaddBit(r, bit, flag) ==
    LET at == IF flag THEN bit ELSE bit + Size * LimbBits
    IN  Summed([i \in Index |-> r[i] + (IF at \div LimbBits = i - 1 THEN 2 ^ (at % LimbBits) ELSE 0)]).d

(* n is the number that the 32 bytes are. *)
SetB32(n) ==
    LET r == Digits(n, Limb, Size)
    IN  [r |-> Reduce(r, Overflows(r)), overflow |-> Overflows(r)]

GetB32(a) == Number(a, Limb)

IsZero(a) == IsZeroRaw(a)

(* The complement plus one, plus the order. *)
Complement(a) ==
    Summed([i \in Index |-> (Limb - 1 - a[i]) + Prime[i] + (IF i = 1 THEN 1 ELSE 0)]).d

Negate(a) == IF IsZero(a) THEN a ELSE Complement(a)

Half(a) ==
    Summed([i \in Index |->
        (a[i] \div 2) + (IF i = Size THEN 0 ELSE (a[i + 1] % 2) * (Limb \div 2))
            + (a[1] % 2) * (HalfOrder[i] + (IF i = 1 THEN 1 ELSE 0))]).d

IsOne(a) == a[1] = 1 /\ \A i \in 2 .. Size : a[i] = 0

IsHigh(a) ==
    LET h == HalfOrder
        no4 == a[4] < h[4]
        yes4 == a[4] > h[4] /\ ~no4
        no3 == no4 \/ (a[3] < h[3] /\ ~yes4)
        no2 == no3 \/ (a[2] < h[2] /\ ~yes4)
        yes2 == yes4 \/ (a[2] > h[2] /\ ~no2)
    IN  yes2 \/ (a[1] > h[1] /\ ~no2)

CondNegate(r, flag) ==
    [r |-> IF flag /\ ~IsZero(r) THEN Complement(r) ELSE r, sign |-> IF flag THEN -1 ELSE 1]
-----------------------------------------------------------------------------
(* muladd and sumadd for the columns in turn, with extract after each.     *)
(* Those in narrow are added by the fast variants, for which two words are *)
(* to be enough.                                                           *)
Columns(terms, narrow) ==
    FoldLeft(LAMBDA s, k :
                 LET sum == s.c + terms[k]
                     c == IF k \in narrow THEN sum % (Limb * Limb) ELSE sum
                 IN  [n |-> Append(s.n, c % Limb), c |-> c \div Limb],
             [n |-> <<>>, c |-> 0], [k \in 1 .. Len(terms) |-> k])

(* low + high * C, of which the first count columns are asked for. *)
Folded(low, high, count) ==
    [k \in 1 .. count |->
        (IF k \in DOMAIN low THEN low[k] ELSE 0)
            + MapThenSumSet(LAMBDA i : high[i] * C[k + 1 - i],
                            {i \in DOMAIN high : k + 1 - i \in DOMAIN C})]

(* From twice the words to seven, to five and to those of a scalar. *)
Reduce512(l) ==
    LET last == Size + Len(C) - 1
        m == Columns(Folded(SubSeq(l, 1, Size), SubSeq(l, Size + 1, 2 * Size), last), {1, last})
        high == Append(SubSeq(m.n, Size + 1, last), m.c)
        p == Columns(Folded(SubSeq(m.n, 1, Size), high, Size), {1, Size})
        top == p.c + m.c
        r == Summed(Folded(p.n, <<top>>, Size))
    IN  Reduce(r.d, r.c + Overflows(r.d))

Mul512(a, b) ==
    LET last == 2 * Size - 1
        l == Columns([k \in 1 .. last |-> Column(a, b, k - 1)], {1, last})
    IN  Append(l.n, l.c)

Mul(a, b) == Reduce512(Mul512(a, b))

Split128(k) ==
    LET Of(from) == [i \in Index |-> IF i <= Size \div 2 THEN k[from + i] ELSE 0]
    IN  [r1 |-> Of(0), r2 |-> Of(Size \div 2)]

Eq(a, b) == a = b

(* The product without its lowest bits, rounded by the highest of those. *)
MulShiftVar(a, b, shift) ==
    LET l == Mul512(a, b)
        limbs == shift \div LimbBits
        low == shift % LimbBits
        At(i) == IF i <= 2 * Size THEN l[i] ELSE 0
        Upper(i) == IF low = 0 THEN 0 ELSE W(At(i + 1) * 2 ^ (LimbBits - low))
        rounds == (l[((shift - 1) \div LimbBits) + 1] \div 2 ^ ((shift - 1) % LimbBits)) % 2
    IN  CaddBit([i \in Index |-> (At(i + limbs) \div 2 ^ low) + Upper(i + limbs)], 0, rounds = 1)

Cmov(r, a, flag) == IF flag THEN a ELSE r

ToSigned(a) == Digits(Number(a, Limb), SignedBase, 5)

FromSigned(a) == Digits(Number(a, SignedBase), Limb, Size)

IsEven(a) == a[1] % 2 = 0
-----------------------------------------------------------------------------
INSTANCE ScalarElement
=============================================================================
