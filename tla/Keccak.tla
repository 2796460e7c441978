------------------------------- MODULE Keccak -------------------------------
(***************************************************************************)
(* The sponge of keccak.c, one turn of its loops at a time: absorbing the  *)
(* input by blocks of R bytes, the padding, squeezing.  The permutation is *)
(* free, a term of the state it permutes; a byte of the state is the set   *)
(* of what was combined into it by exclusive or, the bytes of the input    *)
(* being numbered and constants being sets of bits.                        *)
(***************************************************************************)
EXTENDS Integers, Sequences, FiniteSetsExt

CONSTANTS
    R,              \* the rate in bytes, r / 8
    Suffix,         \* the domain suffixes, as the sets of their bits
    MaxIn, MaxOut   \* bounds: the lengths of input and output

KeccakAssumption ==
    /\ R \in Nat \ {0} /\ MaxIn \in Nat /\ MaxOut \in Nat
    /\ \A x \in Suffix : x \subseteq 0 .. 7 /\ x # {}

VARIABLES
    pc, inLen, sfx, outLen,     \* outLen and inLen count down
    b,                          \* how much of the last block there was
    taken,                      \* where the input pointer is
    perm, s,                    \* the last permutation, what came since
    out

Fresh == [i \in 0 .. R - 1 |-> {}]
InByte(i) == <<"in", i>>
Bit(k) == <<"bit", k>>
Bits(set) == {Bit(k) : k \in set}

Permute(p, state) == <<p, state>>

XorAt(state, i, tokens) == [state EXCEPT ![i] = SymDiff(@, tokens)]

Min2(x, y) == IF x < y THEN x ELSE y

Init ==
    /\ pc = "absorb" /\ b = 0 /\ taken = 0
    /\ inLen \in 0 .. MaxIn /\ outLen \in 0 .. MaxOut /\ sfx \in Suffix
    /\ perm = <<>> /\ s = Fresh /\ out = <<>>

Absorb ==
    LET n == Min2(inLen, R)
        mixed == [i \in 0 .. R - 1 |->
                    IF i < n THEN SymDiff(s[i], {InByte(taken + i)}) ELSE s[i]]
    IN  /\ pc = "absorb" /\ inLen > 0
        /\ taken' = taken + n /\ inLen' = inLen - n
        /\ IF n = R THEN perm' = Permute(perm, mixed) /\ s' = Fresh /\ b' = 0
           ELSE s' = mixed /\ b' = n /\ UNCHANGED perm
        /\ UNCHANGED <<pc, sfx, outLen, out>>

(* The suffix ends in the block's last bit, where the padding's last bit   *)
(* belongs. *)
Extra == 7 \in sfx /\ b = R - 1

Pad ==
    LET marked == XorAt(s, b, Bits(sfx))
        last == IF Extra THEN Fresh ELSE marked
    IN  /\ pc = "absorb" /\ inLen = 0
        /\ perm' = Permute(IF Extra THEN Permute(perm, marked) ELSE perm,
                           XorAt(last, R - 1, Bits({7})))
        /\ s' = Fresh /\ pc' = "squeeze"
        /\ UNCHANGED <<inLen, sfx, outLen, b, taken, out>>

(* A byte that is read off the state: the permutation and its place. *)
Squeeze ==
    LET n == Min2(outLen, R)
    IN  /\ pc = "squeeze" /\ outLen > 0
        /\ out' = out \o [i \in 1 .. n |-> <<perm, i>>]
        /\ outLen' = outLen - n
        /\ perm' = IF outLen > n THEN Permute(perm, s) ELSE perm
        /\ UNCHANGED <<pc, inLen, sfx, b, taken, s>>

Next == Absorb \/ Pad \/ Squeeze
-----------------------------------------------------------------------------
(* The sponge of FIPS 202, bit by bit: the input, the suffix, whose last   *)
(* bit is the one that begins the padding, zeros, and a last one.          *)
Blocks(n) ==
    LET used == 8 * n + Max(sfx) + 1
        count == (used + 1 + 8 * R - 1) \div (8 * R)
    IN  [j \in 1 .. count |->
            [i \in 0 .. R - 1 |->
                LET at == (j - 1) * R + i
                IN  IF at < n THEN {InByte(at)}
                    ELSE (IF at = n THEN Bits(sfx) ELSE {}) \cup
                         (IF at = count * R - 1 THEN Bits({7}) ELSE {})]]

Absorbed(blocks) ==
    LET f[j \in 0 .. Len(blocks)] ==
            IF j = 0 THEN <<>> ELSE Permute(f[j - 1], blocks[j])
    IN  f[Len(blocks)]

Squeezed(p, k) ==       \* the k-th byte of the output
    LET f[j \in Nat] == IF j = 0 THEN p ELSE Permute(f[j - 1], Fresh)
    IN  <<f[(k - 1) \div R], ((k - 1) % R) + 1>>

(* Every input is absorbed as FIPS 202 pads it: also one that fills its    *)
(* blocks, one that leaves a single byte, where suffix and last bit meet,  *)
(* and the empty one.  The output is the stream the sponge gives, read     *)
(* without a permutation too many or too few.                              *)
IsSponge ==
    pc = "squeeze" =>
        \A k \in 1 .. Len(out) :
            out[k] = Squeezed(Absorbed(Blocks(taken)), k)
=============================================================================
