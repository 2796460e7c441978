--------------------------- MODULE MCWalletApi ---------------------------
(***************************************************************************)
(* The wallet over a group of order 13 with words of three bits.  The     *)
(* hash is chosen so that children of account 0 of the seed <<0, 1>> meet  *)
(* each failure: m/../0/0 sums to zero, 0/1 and 0/3 have a zero and an     *)
(* overflowing il; 0/2 and 1/1 are good.                                  *)
(***************************************************************************)
EXTENDS WalletApi

MCSeed == [1 .. SeedLen -> Block]
MCChainCode == {0, 1}

(* Two seeds have a valid master key, one a zero and one an overflow. *)
MCMasterHmac ==
    [s \in MCSeed |->
        IF s[1] = 0 THEN <<3 + 2 * s[2], s[2]>> ELSE <<13 * s[2], s[2]>>]

MCChildHmac ==
    [x \in MCChainCode \X Bytes33 \X Index |->
        <<(12 * x[2][1] + 9 * x[2][2] + 13 * x[1] + 7 * x[3] + 1) % (Top + 1),
          (x[2][2] + x[3] + x[1]) % 2>>]

MCHash160 == [k \in Bytes33 |-> (k[1] + 3 * k[2]) % 5]
MCFingerprint == 0 .. 4
MCKeccak256 == [p \in Point |-> (3 * p) % Order]
MCAddressBytes == 0 .. Order - 1

(* Strings from elsewhere: undecodable, of another version, an extended    *)
(* private key without its zero byte, an extended public key that is on no *)
(* curve, and a good one of another wallet.                                *)
ForeignKey(v, k) ==
    [version |-> v, depth |-> 3, fingerprint |-> 1, child_num |-> 0,
     chain_code |-> 1, key |-> k]
MCForeign ==
    {ForeignKey("garbled", Zero33), ForeignKey("other", Zero33),
     ForeignKey("xprv", <<2, 3>>), ForeignKey("xprv", <<0, 13>>),
     ForeignKey("xpub", <<2, 9>>), ForeignKey("xpub", <<3, 4>>)}
NoForeign == {}

Whole(ch, ad) == Bip44Path(Purpose, 0, 0, ch, ad)

(* Whole paths of account 0: both derivations, each failure, an index that *)
(* is hardened without the mark.                                           *)
RoutePaths == {Whole(0, 0), Whole(0, 1), Whole(0, 2), Whole(1, 1), Whole(4, 2)}

(* Also the empty path, short and long ones, hardened last components. *)
AllPaths ==
    {<<>>, <<Component(1, TRUE)>>, <<Component(5, FALSE), Component(2, TRUE)>>,
     Whole(0, 2) \o <<Component(1, FALSE)>>,
     [Whole(0, 2) EXCEPT ![5] = Component(2, TRUE)]}
    \cup RoutePaths \cup {Whole(0, 3)}

FewPaths == {<<>>, Whole(0, 2)}
HardenedPaths == {[Whole(0, 2) EXCEPT ![4] = Component(0, TRUE)]}

FullSeeds == {<<0, 0>>, <<0, 1>>}
AllSeeds == FullSeeds \cup {<<1, 0>>, <<1, 1, 0>>, <<0>>}
OneSeed == {<<0, 1>>}
ShortSeed == {<<0>>}
=============================================================================
