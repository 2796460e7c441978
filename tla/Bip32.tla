------------------------------- MODULE Bip32 -------------------------------
(***************************************************************************)
(* The HDNode of bip32.cpp: a private key, a cached public key, a chain    *)
(* code, and the two derivations.  HMAC-SHA512 is a pair of arbitrary      *)
(* functions, one for the "Bitcoin seed" key and one for chain codes, so   *)
(* what holds here holds for every hash.                                   *)
(*                                                                         *)
(* Before it, what the node calls of the vendored secp256k1, over a group  *)
(* of odd order with a generator.  A point is its discrete logarithm: 0 is *)
(* the point at infinity, p and Order - p are the two points that share an *)
(* x coordinate.  A 32-byte array is a number in 0..Top, big-endian; a     *)
(* 33-byte array is its first byte and the number in the other 32.  A call *)
(* that returns 0 is the negation of an ...OK operator.                    *)
(***************************************************************************)
EXTENDS DerivationPath

CONSTANTS
    Order,      \* the order of the group
    Top         \* the largest number 32 bytes hold

(* Every prime but 2 is odd, and 2^256 - 1 exceeds the group order: a      *)
(* 32-byte array can hold a number that is not a scalar.                   *)
ASSUME CurveAssumption ==
    /\ Order \in Nat /\ Order > 2 /\ Order % 2 = 1
    /\ Top \in Nat /\ Top >= Order

Bytes32 == 0 .. Top

(* The first byte of a 33-byte array: a zero, or a tag.  Any byte but 2    *)
(* and 3 is no tag of a compressed key and stands with 0.                  *)
Bytes33 == {0, 2, 3} \X Bytes32

Zero33 == <<0, 0>>

Point == 1 .. Order - 1
-----------------------------------------------------------------------------
(* A secret key is valid when it is neither zero nor an overflow. *)
SeckeyVerify(sk) == 0 < sk /\ sk < Order

(* PubkeyCreate returns a point only for a valid secret key. *)
PubkeyCreateOK(sk) == SeckeyVerify(sk)
PubkeyCreate(sk) == sk

(* The x coordinate, and a tag with the parity of y: one of p and -p has   *)
(* the even y.                                                             *)
PubkeySerialize(p) ==
    IF 2 * p < Order THEN <<2, p>> ELSE <<3, Order - p>>

(* Both tags name an x coordinate, but not every x is on the curve. *)
PubkeyParseOK(pub) ==
    pub[1] \in {2, 3} /\ 0 < pub[2] /\ 2 * pub[2] < Order
PubkeyParse(pub) ==
    IF pub[1] = 2 THEN pub[2] ELSE Order - pub[2]

\* Broken variants, for the mutation runs: a key that is not checked, a sum
\* that is not.
SeckeyTweakAddOK_AnyKey(sk, tweak) ==
    tweak < Order /\ (sk + tweak) % Order # 0
SeckeyTweakAddOK_AnySum(sk, tweak) == SeckeyVerify(sk) /\ tweak < Order

SeckeyTweakAddOK(sk, tweak) ==
    /\ SeckeyVerify(sk)
    /\ tweak < Order
    /\ (sk + tweak) % Order # 0
SeckeyTweakAdd(sk, tweak) == (sk + tweak) % Order

PubkeyTweakAddOK(p, tweak) ==
    /\ tweak < Order
    /\ (p + tweak) % Order # 0
PubkeyTweakAdd(p, tweak) == (p + tweak) % Order
-----------------------------------------------------------------------------
CONSTANTS
    Seed,           \* the 64-byte seeds
    ChainCode,      \* the 32-byte chain codes
    ZeroChainCode,  \* the chain code of a zero-initialised node
    MasterHmac,     \* HMAC-SHA512 keyed with "Bitcoin seed", of a seed
    ChildHmac       \* HMAC-SHA512 keyed with a chain code, of key and index

(* HMAC-SHA512 returns 64 bytes: 32 of key material and a chain code. *)
ASSUME HmacAssumption ==
    /\ ZeroChainCode \in ChainCode
    /\ MasterHmac \in [Seed -> Bytes32 \X ChainCode]
    /\ ChildHmac \in [ChainCode \X Bytes33 \X Index -> Bytes32 \X ChainCode]

HDNode == [private_key_data : Bytes32, public_key_data : Bytes33,
           chain_code : ChainCode, depth : Nat, child_num : Index]

(* HDNode node = {} *)
ZeroNode == [private_key_data |-> 0, public_key_data |-> Zero33,
             chain_code |-> ZeroChainCode, depth |-> 0, child_num |-> 0]

(* The master key is not checked: it may be zero or exceed the order. *)
fromSeed(seed) ==
    [ZeroNode EXCEPT !.private_key_data = MasterHmac[seed][1],
                     !.chain_code = MasterHmac[seed][2]]
-----------------------------------------------------------------------------
(* fillPublicKey caches the public key, and trusts one that is there. *)
HasPublicKey(node) == node.public_key_data[1] # 0

fillPublicKeyOK(node) ==
    HasPublicKey(node) \/ PubkeyCreateOK(node.private_key_data)

fillPublicKey(node) ==
    IF HasPublicKey(node) THEN node
    ELSE [node EXCEPT !.public_key_data =
                 PubkeySerialize(PubkeyCreate(node.private_key_data))]
-----------------------------------------------------------------------------
(* What privateCkd feeds the HMAC: the private key for a hardened child,   *)
(* the public key, filled in first, for a normal one.                      *)
PrivateCkdHmac(node, i) ==
    LET data == IF IsHardened(i) THEN <<0, node.private_key_data>>
                ELSE fillPublicKey(node).public_key_data
    IN  ChildHmac[<<node.chain_code, data, i>>]

privateCkdOK(node, i) ==
    /\ IsHardened(i) \/ fillPublicKeyOK(node)
    /\ SeckeyVerify(PrivateCkdHmac(node, i)[1])
    /\ SeckeyTweakAddOK(node.private_key_data, PrivateCkdHmac(node, i)[1])

\* Broken variant: the child starts as a copy of its parent.
privateCkd_KeepsPublicKey(node, i) ==
    LET h == PrivateCkdHmac(node, i)
    IN  [node EXCEPT
            !.private_key_data = SeckeyTweakAdd(node.private_key_data, h[1]),
            !.chain_code = h[2], !.depth = @ + 1, !.child_num = i]

privateCkd(node, i) ==
    LET h == PrivateCkdHmac(node, i)
    IN  [private_key_data |-> SeckeyTweakAdd(node.private_key_data, h[1]),
         public_key_data |-> Zero33, chain_code |-> h[2],
         depth |-> node.depth + 1, child_num |-> i]
-----------------------------------------------------------------------------
PublicCkdHmac(node, i) ==
    ChildHmac[<<node.chain_code, node.public_key_data, i>>]

\* Broken variant: il is not verified, and a zero il passes.
publicCkdOK_AnyIl(node, i) ==
    /\ ~IsHardened(i)
    /\ PubkeyParseOK(node.public_key_data)
    /\ PubkeyTweakAddOK(PubkeyParse(node.public_key_data),
                        PublicCkdHmac(node, i)[1])

publicCkdOK(node, i) ==
    /\ ~IsHardened(i)
    /\ SeckeyVerify(PublicCkdHmac(node, i)[1])
    /\ PubkeyParseOK(node.public_key_data)
    /\ PubkeyTweakAddOK(PubkeyParse(node.public_key_data),
                        PublicCkdHmac(node, i)[1])

\* Broken variant: the child keeps its parent's chain code.
publicCkd_KeepsChainCode(node, i) ==
    [node EXCEPT !.public_key_data =
                     PubkeySerialize(PubkeyTweakAdd(
                         PubkeyParse(node.public_key_data),
                         PublicCkdHmac(node, i)[1])),
                 !.depth = @ + 1, !.child_num = i]

publicCkd(node, i) ==
    LET h == PublicCkdHmac(node, i)
    IN  [private_key_data |-> 0,
         public_key_data |-> PubkeySerialize(PubkeyTweakAdd(
                                 PubkeyParse(node.public_key_data), h[1])),
         chain_code |-> h[2], depth |-> node.depth + 1, child_num |-> i]
-----------------------------------------------------------------------------
(* A node whose cached public key, if there is one, is its own. *)
Coherent(node) ==
    HasPublicKey(node) =>
        /\ SeckeyVerify(node.private_key_data)
        /\ node.public_key_data =
              PubkeySerialize(PubkeyCreate(node.private_key_data))
=============================================================================
