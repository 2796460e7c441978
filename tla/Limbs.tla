-------------------------------- MODULE Limbs -------------------------------
(***************************************************************************)
(* Field elements as a list of limbs to one base, of which each may be     *)
(* larger than the base: what field_5x52_impl.h and field_10x26_impl.h     *)
(* have in common.  The field is that of P = TopLimb * Limb^(Size - 1) - C.    *)
(* Words are unsigned and wrap.                                            *)
(***************************************************************************)
EXTENDS Integers, SequencesExt, FiniteSetsExt

CONSTANTS
    Size,       \* 5 or 10 limbs
    Limb,       \* 2^52 or 2^26
    Gap,        \* 2^4: the top limb has four bits less
    Slack,      \* 2^12 or 2^6: how much larger than a limb a word is
    StorageBase,    \* 2^64 or 2^32, the base of a stored element ...
    SignedBase,     \* ... and 2^62 or 2^30, of one that is to be inverted
    C           \* 0x1000003D1, as limbs

TopLimb == Limb \div Gap
Word == Limb * Slack

W(x) == x % Word                    \* uint64_t or uint32_t
Wide(x) == x % (Word * Word)        \* secp256k1_uint128 or uint64_t
Lo(x) == x % Limb
Hi(x) == x \div Limb

Index == 1 .. Size
Largest(i) == (IF i = Size THEN TopLimb ELSE Limb) - 1

(* P itself: C is taken off the lowest limbs, which it does not borrow from. *)
Prime ==
    [i \in Index |-> Largest(i) - (IF i \in DOMAIN C THEN C[i] ELSE 0) + (IF i = 1 THEN 1 ELSE 0)]

(* The number a list of digits stands for. *)
Number(digits, base) == FoldRight(LAMBDA d, n : d + base * n, digits, 0)

P == Number(Prime, Limb)
Full == Number([i \in Index |-> Largest(i)], Limb)      \* 2^256 - 1

Digits(n, base, count) ==
    FoldLeft(LAMBDA s, i : [rest |-> s.rest \div base, digits |-> Append(s.digits, s.rest % base)],
             [rest |-> n, digits |-> <<>>], [i \in 1 .. count |-> i]).digits

Bounds(m) == [i \in Index |-> 2 * m * Largest(i)]
-----------------------------------------------------------------------------
(* What is above the last bit of the top limb counts C at the bottom. *)
Excess(r) == r[Size] \div TopLimb

Cut(r) == [r EXCEPT ![Size] = @ % TopLimb]

PlusC(r, x) == [i \in Index |-> IF i \in DOMAIN C THEN W(r[i] + W(x * C[i])) ELSE r[i]]

(* What a limb cannot hold goes to the next; the last one keeps it. *)
Carried(r) ==
    LET carries ==
            FoldLeft(LAMBDA t, i : Append(t, W(r[i] + (IF i = 1 THEN 0 ELSE Hi(t[i - 1])))),
                     <<>>, [i \in Index |-> i])
    IN  [i \in Index |-> IF i = Size THEN carries[i] ELSE Lo(carries[i])]

Reduced(r) == Carried(PlusC(Cut(r), Excess(r)))

IsZeroRaw(t) == \A i \in Index : t[i] = 0
IsPRaw(t) == t = Prime

(* The products a[i] * b[j] with i + j = k, counted from zero. *)
Column(a, b, k) ==
    MapThenSumSet(LAMBDA i : a[i] * b[k + 2 - i], {i \in Index : k + 2 - i \in Index})

(* The same of a square: those that occur twice once, with a factor of two *)
(* that is a word's.                                                       *)
SquareColumn(a, k) ==
    MapThenSumSet(LAMBDA i : LET j == k + 2 - i IN (IF i = j THEN a[i] ELSE W(2 * a[i])) * a[j],
                  {i \in Index : k + 2 - i \in Index /\ i <= k + 2 - i})

(* Half of what is odd goes one limb down. *)
ShiftedRight(t) ==
    [i \in Index |-> (t[i] \div 2) + (IF i = Size THEN 0 ELSE (t[i + 1] % 2) * (Limb \div 2))]
=============================================================================
