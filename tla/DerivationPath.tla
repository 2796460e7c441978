--------------------------- MODULE DerivationPath ---------------------------
(***************************************************************************)
(* Derivation paths: sequences of components, each a 32-bit value and the  *)
(* mark that it is hardened, with the BIP44 accessors and setters.         *)
(***************************************************************************)
EXTENDS Integers, Sequences

CONSTANT HardenedBit    \* 0x80000000 in the code, the top bit of a word

ASSUME HardenedBitAssumption == HardenedBit \in Nat \ {0}

Word == 2 * HardenedBit
Index == 0 .. Word - 1                  \* uint32_t

(* index & 0x80000000 and value | 0x80000000 *)
IsHardened(i) == i >= HardenedBit
\* Broken variant: + where the code has |.
Harden_Adds(v) == v + HardenedBit
Harden(v) == IF IsHardened(v) THEN v ELSE v + HardenedBit

DerivationPathIndex == [value : Index, hardened : BOOLEAN]

Component(v, h) == [value |-> v, hardened |-> h]

(* The number a component stands for in a derivation. *)
DerivationIndex(x) == IF x.hardened THEN Harden(x.value) ELSE x.value

DerivationIndices(path) == [i \in DOMAIN path |-> DerivationIndex(path[i])]

(* The accessors return a component's bare value, without its mark, and 0  *)
(* when the path is too short to have it.                                  *)
ValueAt(path, n) == IF Len(path) <= n THEN 0 ELSE path[n + 1].value
coin(path) == ValueAt(path, 1)
account(path) == ValueAt(path, 2)
change(path) == ValueAt(path, 3)
address(path) == ValueAt(path, 4)

(* The setters leave a path that is too short as it is. *)
SetAt(path, n, x) ==
    IF Len(path) <= n THEN path ELSE [path EXCEPT ![n + 1] = x]
setPurpose(path, v) == SetAt(path, 0, Component(v, TRUE))
setCoin(path, v) == SetAt(path, 1, Component(v, TRUE))
setAccount(path, v) == SetAt(path, 2, Component(v, TRUE))
setChange(path, v) == SetAt(path, 3, Component(v, FALSE))
setAddress(path, v) == SetAt(path, 4, Component(v, FALSE))

(* The constructor from the five BIP44 components. *)
Bip44Path(purpose, c, a, ch, ad) ==
    LET blank == [i \in 1 .. 5 |-> Component(0, FALSE)]
    IN  setAddress(setChange(setAccount(setCoin(
            setPurpose(blank, purpose), c), a), ch), ad)
=============================================================================
