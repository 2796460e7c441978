----------------------------- MODULE WalletApi -----------------------------
(***************************************************************************)
(* What passes between the wallet and its callers: the calls of the JNI    *)
(* library with their arguments, the extended keys, the answers.           *)
(***************************************************************************)
EXTENDS Bip32

CONSTANTS
    Block,          \* the values of one unit of a seed
    SeedLen,        \* how many units make the 64 bytes of a seed
    SeedVector,     \* the seed arrays callers pass, of any length
    Path,           \* the derivation paths callers pass
    Coin, Account,  \* the coins and the accounts callers pass
    Purpose,        \* 44
    Foreign,        \* strings from elsewhere passed as extended keys
    Fingerprint,    \* the numbers of four bytes of a digest
    Hash160,        \* the fingerprint of a 33-byte public key
    AddressBytes,   \* the last 20 bytes of a digest
    Keccak256       \* the address bytes of a point's two coordinates

AccountDepth == 3   \* m / purpose' / coin' / account'

Version == {"xprv", "xpub", "other", "garbled"}

(* The 78 bytes of an extended key.  Base58Check is its checksum: a string *)
(* that does not decode is "garbled", one with a version that is neither   *)
(* of the two is "other".                                                  *)
Extended ==
    [version : Version, depth : Nat, fingerprint : Fingerprint,
     child_num : Index, chain_code : ChainCode, key : Bytes33]

ASSUME ApiAssumption ==
    /\ SeedLen \in Nat \ {0} /\ Block # {}
    /\ Seed = [1 .. SeedLen -> Block]
    /\ SeedVector \subseteq Seq(Block)
    /\ Path \subseteq Seq(DerivationPathIndex)
    /\ Coin \subseteq Index /\ Account \subseteq Index
    /\ Purpose \in Index
    /\ Foreign \subseteq Extended
    /\ Hash160 \in [Bytes33 -> Fingerprint]
    /\ Keccak256 \in [Point -> AddressBytes]
-----------------------------------------------------------------------------
(* HDWallet(vector) copies SeedLen units from the start of the array,      *)
(* whatever its length: a longer one is cut, and past the end of a shorter *)
(* one the copy reads whatever memory holds.                               *)
CopySeed(v) ==
    {s \in Seed : \A i \in 1 .. SeedLen : i <= Len(v) => s[i] = v[i]}

\* Broken variant: the digest of a public key that is not filled in.
NodeFingerprint_Unfilled(node) == Hash160[node.public_key_data]

NodeFingerprint(node) == Hash160[fillPublicKey(node).public_key_data]

NodeSerialize(node, fingerprint, use_public) ==
    [version |-> IF use_public THEN "xpub" ELSE "xprv",
     depth |-> node.depth % 256, fingerprint |-> fingerprint,
     child_num |-> node.child_num, chain_code |-> node.chain_code,
     key |-> IF use_public THEN node.public_key_data
             ELSE <<0, node.private_key_data>>]

NodeDeserializeOK(ext) ==
    \/ ext.version = "xpub"
    \/ ext.version = "xprv" /\ ext.key[1] = 0

(* The fingerprint of the string is read and dropped. *)
NodeDeserialize(ext) ==
    [private_key_data |-> IF ext.version = "xprv" THEN ext.key[2] ELSE 0,
     public_key_data |-> IF ext.version = "xpub" THEN ext.key ELSE Zero33,
     chain_code |-> ext.chain_code, depth |-> ext.depth,
     child_num |-> ext.child_num]

(* The index of the account node: an addition in 32 bits. *)
AccountIndex(a) == (a + HardenedBit) % Word
-----------------------------------------------------------------------------
(* A key handed to a caller: a private key, a compressed public key, or a  *)
(* TRON address, told apart by their first byte.                           *)
PrivateKey(k) == <<0, k>>
TronAddress(pub) == <<65, Keccak256[PubkeyParse(pub)]>>
Key == Bytes33 \cup ({65} \X AddressBytes)

(* The nine native methods and the C++ API's getRootKey, by what they ask. *)
SeedKeyCalls == {"getPrivateKey", "getPublicKey", "getTronAddress"}
AccountCalls == {"getPrivateExtended", "getPublicExtended"}
PrvExtendedCalls ==
    {"getPrivateKeyFromExtended", "getTronAddressFromPrvExtended"}
PubExtendedCalls ==
    {"getPublicKeyFromExtended", "getTronAddressFromPubExtended"}
ExtendedCalls == PrvExtendedCalls \cup PubExtendedCalls
Call == SeedKeyCalls \cup AccountCalls \cup ExtendedCalls \cup {"getRootKey"}

PrivateKeyCalls == {"getPrivateKey", "getRootKey", "getPrivateKeyFromExtended"}
PublicKeyCalls == {"getPublicKey", "getPublicKeyFromExtended"}

NoExtended ==
    [version |-> "garbled", depth |-> 0, fingerprint |-> Hash160[Zero33],
     child_num |-> 0, chain_code |-> ZeroChainCode, key |-> Zero33]

(* A call, its arguments, and the wallet it was made on: the 64 bytes that *)
(* were copied from the caller's array.  An argument the call does not     *)
(* take has a default.                                                     *)
Request ==
    [call : Call, vector : SeedVector \cup {<<>>}, seed : Seed,
     path : Path \cup {<<>>}, coin : Index, account : Index,
     extended : Extended]

OnSeed(c, v, p, co, ac) ==
    {[call |-> c, vector |-> v, seed |-> s, path |-> p, coin |-> co,
      account |-> ac, extended |-> NoExtended] : s \in CopySeed(v)}

OnExtended(c, e, p) ==
    [call |-> c, vector |-> <<>>, seed |-> CHOOSE s \in Seed : TRUE,
     path |-> p, coin |-> 0, account |-> 0, extended |-> e]

NoRequest == OnExtended("getPublicKeyFromExtended", NoExtended, <<>>)

(* Every call that can be made when the extended keys in known exist. *)
Requests(known) ==
    (UNION {OnSeed(c, v, p, 0, 0) :
                c \in SeedKeyCalls, v \in SeedVector, p \in Path})
    \cup (UNION {OnSeed("getRootKey", v, <<>>, 0, 0) : v \in SeedVector})
    \cup (UNION {OnSeed(c, v, <<>>, co, ac) : c \in AccountCalls,
                v \in SeedVector, co \in Coin, ac \in Account})
    \cup {OnExtended(c, e, p) :
                c \in ExtendedCalls, e \in known \cup Foreign, p \in Path}

(* What a call ended with: nothing yet, an exception, or a result. *)
Answer == [status : {"none", "thrown", "returned"}, key : Key,
           extended : Extended]

NoAnswer == [status |-> "none", key |-> Zero33, extended |-> NoExtended]
Thrown == [NoAnswer EXCEPT !.status = "thrown"]
ReturnedKey(k) == [NoAnswer EXCEPT !.status = "returned", !.key = k]
ReturnedExtended(e) ==
    [NoAnswer EXCEPT !.status = "returned", !.extended = e]

(* An extended key in a caller's hands, and where it came from. *)
Issue == [extended : Extended, seed : Seed, coin : Index, account : Index]

IssueOf(r, e) == [extended |-> e, seed |-> r.seed, coin |-> r.coin,
                  account |-> r.account]
=============================================================================
