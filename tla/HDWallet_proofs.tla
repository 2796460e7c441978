--------------------------- MODULE HDWallet_proofs ---------------------------
(***************************************************************************)
(* Safety of the wallet for any number of threads and of calls, every      *)
(* group of odd order, every hash and every input.  It begins with what    *)
(* the operations of Bip32 return, and the fact extended public keys rest  *)
(* on: deriving a normal child and taking its public key is the same as    *)
(* deriving from the public key, down to when it fails.                    *)
(***************************************************************************)
EXTENDS HDWallet, FiniteSetTheorems, WellFoundedInduction, TLAPS

(* A compressed key is 33 bytes, parses, and parses to the point it came   *)
(* from (secp256k1_ec_pubkey_serialize and secp256k1_ec_pubkey_parse).     *)
LEMMA ParseSerialize ==
    ASSUME NEW p \in Point
    PROVE  /\ PubkeySerialize(p) \in Bytes33
           /\ PubkeySerialize(p)[1] # 0
           /\ PubkeyParseOK(PubkeySerialize(p))
           /\ PubkeyParse(PubkeySerialize(p)) = p
<1>1. Order \in Nat /\ Order > 2 /\ Order % 2 = 1 /\ Top \in Nat /\ Top >= Order
    BY CurveAssumption
<1>2. p \in Nat /\ 0 < p /\ p < Order
    BY <1>1 DEF Point
<1>3. CASE 2 * p < Order
    BY <1>1, <1>2, <1>3
       DEF PubkeySerialize, PubkeyParse, PubkeyParseOK, Bytes33, Bytes32
<1>4. CASE ~(2 * p < Order)
    <2>1. 2 * p # Order
        BY <1>1, <1>2
    <2>2. PubkeySerialize(p) = <<3, Order - p>>
        BY <1>4 DEF PubkeySerialize
    <2>3. 0 < Order - p /\ 2 * (Order - p) < Order
        BY <1>1, <1>2, <1>4, <2>1
    <2> QED
        BY <1>1, <1>2, <2>2, <2>3
           DEF PubkeyParse, PubkeyParseOK, Bytes33, Bytes32
<1> QED
    BY <1>3, <1>4

(* A key that parses is a point (secp256k1_ec_pubkey_parse). *)
LEMMA ParsePoint ==
    ASSUME NEW b \in Bytes33, PubkeyParseOK(b)
    PROVE  PubkeyParse(b) \in Point
BY CurveAssumption DEF Bytes33, Bytes32, PubkeyParseOK, PubkeyParse, Point

(* A successful tweak of a secret key is a secret key, and one of a point  *)
(* a point (secp256k1_ec_seckey_tweak_add, secp256k1_ec_pubkey_tweak_add). *)
LEMMA TweakAdd ==
    ASSUME NEW k \in Int, NEW tweak \in Int, (k + tweak) % Order # 0
    PROVE  /\ SeckeyTweakAdd(k, tweak) \in Point
           /\ PubkeyTweakAdd(k, tweak) \in Point
BY CurveAssumption DEF SeckeyTweakAdd, PubkeyTweakAdd, Point

(* A key that verifies is a point.                                         *)
LEMMA ValidIsPoint ==
    ASSUME NEW k \in Bytes32
    PROVE  SeckeyVerify(k) <=> k \in Point
BY CurveAssumption DEF Bytes32, SeckeyVerify, Point

(* A point's number fits 32 bytes.                                         *)
LEMMA PointIsBytes == Point \subseteq Bytes32
BY CurveAssumption DEF Point, Bytes32

(* The two halves of the master HMAC.                                      *)
LEMMA MasterHmacType ==
    ASSUME NEW seed \in Seed
    PROVE  /\ MasterHmac[seed][1] \in Bytes32
           /\ MasterHmac[seed][2] \in ChainCode
BY HmacAssumption

(* The two halves of a child HMAC.                                         *)
LEMMA ChildHmacType ==
    ASSUME NEW c \in ChainCode, NEW b \in Bytes33, NEW i \in Index
    PROVE  /\ ChildHmac[<<c, b, i>>][1] \in Bytes32
           /\ ChildHmac[<<c, b, i>>][2] \in ChainCode
<1>1. <<c, b, i>> \in ChainCode \X Bytes33 \X Index
    OBVIOUS
<1> QED
    BY <1>1, HmacAssumption
-----------------------------------------------------------------------------
(* The node an extended public key carries: everything but the secret. *)
Neuter(nd) == [fillPublicKey(nd) EXCEPT !.private_key_data = 0]

(* HDNode::fromSeed returns a node with nothing cached. *)
LEMMA FromSeedType ==
    ASSUME NEW seed \in Seed
    PROVE  fromSeed(seed) \in HDNode /\ ~HasPublicKey(fromSeed(seed))
<1>1. ZeroNode \in HDNode
    BY CurveAssumption, HmacAssumption, HardenedBitAssumption
       DEF ZeroNode, HDNode, Zero33, Bytes32, Bytes33, Index, Word
<1> QED
    BY <1>1, MasterHmacType
       DEF fromSeed, ZeroNode, HDNode, HasPublicKey, Zero33

(* HDNode::fillPublicKey leaves a node of its kind, whose public key is    *)
(* there, and changes nothing else.                                        *)
LEMMA FillPublicKeyType ==
    ASSUME NEW nd \in HDNode, fillPublicKeyOK(nd)
    PROVE  /\ fillPublicKey(nd) \in HDNode
           /\ HasPublicKey(fillPublicKey(nd))
           /\ fillPublicKey(nd).private_key_data = nd.private_key_data
           /\ fillPublicKey(nd).chain_code = nd.chain_code
           /\ fillPublicKey(nd).depth = nd.depth
           /\ fillPublicKey(nd).child_num = nd.child_num
<1>1. CASE HasPublicKey(nd)
    BY <1>1 DEF fillPublicKey
<1>2. CASE ~HasPublicKey(nd)
    <2>1. nd.private_key_data \in Point
        BY <1>2, ValidIsPoint DEF fillPublicKeyOK, PubkeyCreateOK, HDNode
    <2>2. PubkeySerialize(PubkeyCreate(nd.private_key_data)) \in Bytes33
        BY <2>1, ParseSerialize DEF PubkeyCreate
    <2>3. PubkeySerialize(PubkeyCreate(nd.private_key_data))[1] # 0
        BY <2>1, ParseSerialize DEF PubkeyCreate
    <2> QED
        BY <1>2, <2>2, <2>3 DEF fillPublicKey, HDNode, HasPublicKey
<1> QED
    BY <1>1, <1>2

(* A coherent node stays coherent when its public key is filled in, and    *)
(* then has the public key of its private key.                             *)
LEMMA FillPublicKeyCoherent ==
    ASSUME NEW nd \in HDNode, Coherent(nd), fillPublicKeyOK(nd)
    PROVE  /\ SeckeyVerify(nd.private_key_data)
           /\ fillPublicKey(nd).public_key_data =
                 PubkeySerialize(PubkeyCreate(nd.private_key_data))
           /\ Coherent(fillPublicKey(nd))
<1>1. SeckeyVerify(nd.private_key_data)
    BY DEF Coherent, fillPublicKeyOK, PubkeyCreateOK
<1>2. fillPublicKey(nd).public_key_data =
         PubkeySerialize(PubkeyCreate(nd.private_key_data))
    BY DEF fillPublicKey, Coherent, HDNode
<1> QED
    BY <1>1, <1>2, FillPublicKeyType DEF Coherent

(* The two halves of what privateCkd computes.                             *)
LEMMA PrivateCkdHmacType ==
    ASSUME NEW nd \in HDNode, NEW i \in Index,
           IsHardened(i) \/ fillPublicKeyOK(nd)
    PROVE  /\ PrivateCkdHmac(nd, i)[1] \in Bytes32
           /\ PrivateCkdHmac(nd, i)[2] \in ChainCode
<1> DEFINE data == IF IsHardened(i) THEN <<0, nd.private_key_data>>
                   ELSE fillPublicKey(nd).public_key_data
<1>1. data \in Bytes33
    BY FillPublicKeyType DEF HDNode, Bytes33
<1>2. nd.chain_code \in ChainCode
    BY DEF HDNode
<1> HIDE DEF data
<1>3. /\ ChildHmac[<<nd.chain_code, data, i>>][1] \in Bytes32
      /\ ChildHmac[<<nd.chain_code, data, i>>][2] \in ChainCode
    BY <1>1, <1>2, ChildHmacType
<1> QED
    BY <1>3 DEF data, PrivateCkdHmac

(* HDNode::privateCkd, when it does not throw, returns a node with a valid *)
(* private key and no public key, one level down.                          *)
LEMMA PrivateCkdType ==
    ASSUME NEW nd \in HDNode, NEW i \in Index, privateCkdOK(nd, i)
    PROVE  /\ privateCkd(nd, i) \in HDNode
           /\ SeckeyVerify(nd.private_key_data)
           /\ SeckeyVerify(privateCkd(nd, i).private_key_data)
           /\ ~HasPublicKey(privateCkd(nd, i))
<1> DEFINE il == PrivateCkdHmac(nd, i)[1]
           ir == PrivateCkdHmac(nd, i)[2]
           k == nd.private_key_data
<1>1. il \in Bytes32 /\ ir \in ChainCode
    BY PrivateCkdHmacType DEF privateCkdOK
<1>2. k \in Bytes32 /\ nd.depth \in Nat
    BY DEF HDNode
<1>3. SeckeyVerify(k) /\ (k + il) % Order # 0
    BY DEF privateCkdOK, SeckeyTweakAddOK
<1>4. il \in Int /\ k \in Int
    BY <1>1, <1>2, CurveAssumption DEF Bytes32
<1>5. SeckeyTweakAdd(k, il) \in Point
    BY <1>3, <1>4, TweakAdd
<1>6. SeckeyTweakAdd(k, il) \in Bytes32 /\ SeckeyVerify(SeckeyTweakAdd(k, il))
    BY <1>5, PointIsBytes, ValidIsPoint
<1>7. Zero33 \in Bytes33 /\ Zero33[1] = 0
    BY CurveAssumption DEF Zero33, Bytes33, Bytes32
<1> QED
    BY <1>1, <1>2, <1>3, <1>6, <1>7 DEF privateCkd, HDNode, HasPublicKey

(* HDNode::publicCkd, when it does not throw, returns a node with a public *)
(* key that parses, no private key, one level down.                        *)
LEMMA PublicCkdType ==
    ASSUME NEW nd \in HDNode, NEW i \in Index, publicCkdOK(nd, i)
    PROVE  /\ publicCkd(nd, i) \in HDNode
           /\ HasPublicKey(publicCkd(nd, i))
           /\ PubkeyParseOK(publicCkd(nd, i).public_key_data)
           /\ publicCkd(nd, i).private_key_data = 0
<1> DEFINE il == PublicCkdHmac(nd, i)[1]
           ir == PublicCkdHmac(nd, i)[2]
           p == PubkeyParse(nd.public_key_data)
<1>1. il \in Bytes32 /\ ir \in ChainCode
    BY ChildHmacType DEF PublicCkdHmac, HDNode
<1>2. p \in Point
    BY ParsePoint DEF publicCkdOK, HDNode
<1>3. (p + il) % Order # 0
    BY DEF publicCkdOK, PubkeyTweakAddOK
<1>4. il \in Int /\ p \in Int
    BY <1>1, <1>2, CurveAssumption DEF Bytes32, Point
<1>5. PubkeyTweakAdd(p, il) \in Point
    BY <1>3, <1>4, TweakAdd
<1>6. /\ PubkeySerialize(PubkeyTweakAdd(p, il)) \in Bytes33
      /\ PubkeySerialize(PubkeyTweakAdd(p, il))[1] # 0
      /\ PubkeyParseOK(PubkeySerialize(PubkeyTweakAdd(p, il)))
    BY <1>5, ParseSerialize
<1>7. 0 \in Bytes32 /\ nd.depth + 1 \in Nat
    BY CurveAssumption DEF Bytes32, HDNode
<1> QED
    BY <1>1, <1>6, <1>7 DEF publicCkd, HDNode, HasPublicKey
-----------------------------------------------------------------------------
(* Watch-only derivation is derivation.  For a coherent node with a valid  *)
(* private key and an index that is not hardened, publicCkd from the       *)
(* node's public half throws exactly when privateCkd from the node does,   *)
(* and otherwise returns the public half of what privateCkd returns.       *)
THEOREM PublicCkdCommutes ==
    ASSUME NEW nd \in HDNode, NEW i \in Index,
           Coherent(nd), SeckeyVerify(nd.private_key_data),
           ~IsHardened(i)
    PROVE  /\ publicCkdOK(Neuter(nd), i) <=> privateCkdOK(nd, i)
           /\ privateCkdOK(nd, i) =>
                 publicCkd(Neuter(nd), i) = Neuter(privateCkd(nd, i))
<1> DEFINE k == nd.private_key_data
           half == Neuter(nd)
           child == privateCkd(nd, i)
           il == PrivateCkdHmac(nd, i)[1]
<1>1. k \in Bytes32 /\ k \in Point
    BY ValidIsPoint DEF HDNode
<1>2. fillPublicKeyOK(nd)
    BY DEF fillPublicKeyOK, PubkeyCreateOK
<1>3. /\ half.public_key_data = PubkeySerialize(k)
      /\ half.private_key_data = 0
      /\ half.chain_code = nd.chain_code
      /\ half.depth = nd.depth
    BY <1>2, FillPublicKeyCoherent, FillPublicKeyType
       DEF Neuter, PubkeyCreate, HDNode
<1>4. PubkeyParseOK(half.public_key_data) /\ PubkeyParse(half.public_key_data) = k
    BY <1>1, <1>3, ParseSerialize
<1>5. PublicCkdHmac(half, i) = PrivateCkdHmac(nd, i)
    BY <1>2, <1>3, FillPublicKeyCoherent
       DEF PublicCkdHmac, PrivateCkdHmac, PubkeyCreate
<1>6. publicCkdOK(half, i) <=> privateCkdOK(nd, i)
    BY <1>2, <1>4, <1>5
       DEF publicCkdOK, privateCkdOK, PubkeyTweakAddOK, SeckeyTweakAddOK
<1>7. ASSUME privateCkdOK(nd, i)
      PROVE  publicCkd(half, i) = Neuter(child)
    <2>1. child \in HDNode /\ SeckeyVerify(child.private_key_data)
             /\ ~HasPublicKey(child)
        BY <1>7, PrivateCkdType
    <2>2. child.private_key_data = PubkeyTweakAdd(k, il)
        BY DEF privateCkd, SeckeyTweakAdd, PubkeyTweakAdd
    <2>3. Neuter(child) =
             [private_key_data |-> 0,
              public_key_data |-> PubkeySerialize(PubkeyTweakAdd(k, il)),
              chain_code |-> PrivateCkdHmac(nd, i)[2],
              depth |-> nd.depth + 1, child_num |-> i]
        <3>1. child = [private_key_data |-> PubkeyTweakAdd(k, il),
                       public_key_data |-> Zero33,
                       chain_code |-> PrivateCkdHmac(nd, i)[2],
                       depth |-> nd.depth + 1, child_num |-> i]
            BY DEF privateCkd, SeckeyTweakAdd, PubkeyTweakAdd
        <3>2. fillPublicKey(child) =
                 [child EXCEPT !.public_key_data =
                     PubkeySerialize(PubkeyTweakAdd(k, il))]
            BY <2>1, <2>2 DEF fillPublicKey, PubkeyCreate
        <3> QED
            BY <3>1, <3>2 DEF Neuter
    <2>4. publicCkd(half, i) =
             [private_key_data |-> 0,
              public_key_data |-> PubkeySerialize(PubkeyTweakAdd(k, il)),
              chain_code |-> PrivateCkdHmac(nd, i)[2],
              depth |-> nd.depth + 1, child_num |-> i]
        BY <1>3, <1>4, <1>5 DEF publicCkd
    <2> QED
        BY <2>3, <2>4
<1> QED
    BY <1>6, <1>7
-----------------------------------------------------------------------------
(* What holds of a thread's locals between two of its steps. *)
Locals(t) ==
    /\ pc[t] \in {"idle", "root", "deserialize"} => node[t] = ZeroNode
    /\ pc[t] = "root" => CallOf(t) \notin ExtendedCalls
    /\ pc[t] = "deserialize" => CallOf(t) \in ExtendedCalls
    /\ pc[t] \in {"fingerprint", "account"} => CallOf(t) \in AccountCalls
    /\ WatchOnly(t) =>
          /\ node[t].private_key_data = 0
          /\ CallOf(t) \in PrvExtendedCalls =>
                pc[t] \in {"idle", "deserialize", "derive"}
    /\ ~WatchOnly(t) =>
          /\ Coherent(node[t])
          /\ FromPublic(t) => ~HasPublicKey(node[t])
    /\ /\ pc[t] \in {"fingerprint", "account", "finish"}
       /\ ~FromPublic(t)
       /\ CallOf(t) \in ExtendedCalls \/ request[t].path # <<>>
       => SeckeyVerify(node[t].private_key_data)

(* What a call may end with: KeysValid and NoKeyFromWatchOnly of one call. *)
Fits(t, a) ==
    /\ /\ a.status = "returned" /\ CallOf(t) \in PrivateKeyCalls
       /\ CallOf(t) \in ExtendedCalls \/ request[t].path # <<>>
       => SeckeyVerify(a.key[2])
    /\ WatchOnly(t) /\ CallOf(t) \in PrvExtendedCalls => a.status = "thrown"

AnswerFits(t) == pc[t] = "idle" => Fits(t, answer[t])

IInv ==
    /\ TypeOK
    /\ \A t \in Thread : Locals(t) /\ AnswerFits(t)
-----------------------------------------------------------------------------
(* The indices the wallet derives with are words.                          *)
LEMMA IndexFacts ==
    /\ 0 \in Index
    /\ \A v \in Index : Harden(v) \in Index
    /\ \A a \in Index : AccountIndex(a) \in Index
<1>1. HardenedBit \in Nat /\ HardenedBit > 0
    BY HardenedBitAssumption
<1>2. 0 \in Index
    BY <1>1 DEF Index, Word
<1>3. ASSUME NEW v \in Index PROVE Harden(v) \in Index
    BY <1>1 DEF Index, Word, Harden, IsHardened
<1>4. ASSUME NEW a \in Index PROVE AccountIndex(a) \in Index
    <2>1. a + HardenedBit \in Int /\ Word \in Nat /\ Word > 0
        BY <1>1 DEF Index, Word
    <2>2. (a + HardenedBit) % Word \in 0 .. Word - 1
        BY <2>1
    <2> QED
        BY <2>2 DEF AccountIndex, Index
<1> QED
    BY <1>2, <1>3, <1>4

(* The indices a path leads to are 32-bit words. *)
LEMMA PathFacts ==
    ASSUME NEW p \in Path \cup {<<>>}
    PROVE  /\ DerivationIndices(p) \in Seq(Index)
           /\ p # <<>> => DerivationIndices(p) # <<>>
           /\ change(p) \in Index /\ address(p) \in Index
<1>1. /\ p \in Seq(DerivationPathIndex)
      /\ Len(p) \in Nat /\ DOMAIN p = 1 .. Len(p)
      /\ \A i \in 1 .. Len(p) : p[i] \in DerivationPathIndex
    <2>1. <<>> \in Seq(DerivationPathIndex)
        OBVIOUS
    <2>2. p \in Seq(DerivationPathIndex)
        BY <2>1, ApiAssumption
    <2> QED
        BY <2>2
<1>2. ASSUME NEW i \in DOMAIN p PROVE DerivationIndex(p[i]) \in Index
    <2>1. p[i].value \in Index
        BY <1>1 DEF DerivationPathIndex
    <2> QED
        BY <2>1, IndexFacts DEF DerivationIndex
<1>3. /\ DerivationIndices(p) \in Seq(Index)
      /\ Len(DerivationIndices(p)) = Len(p)
    <2>1. DerivationIndices(p) \in [1 .. Len(p) -> Index]
        BY <1>1, <1>2 DEF DerivationIndices
    <2> QED
        BY <1>1, <2>1
<1>4. p # <<>> => DerivationIndices(p) # <<>>
    BY <1>1, <1>3
<1>5. ASSUME NEW n \in Nat PROVE ValueAt(p, n) \in Index
    <2>1. CASE Len(p) <= n
        BY <2>1, IndexFacts DEF ValueAt
    <2>2. CASE ~(Len(p) <= n)
        <3>1. p[n + 1] \in DerivationPathIndex
            BY <1>1, <2>2
        <3> QED
            BY <2>2, <3>1 DEF ValueAt, DerivationPathIndex
    <2> QED
        BY <2>1, <2>2
<1> QED
    BY <1>3, <1>4, <1>5 DEF change, address

(* node_serialize of a node is an extended key.                            *)
LEMMA NodeSerializeType ==
    ASSUME NEW n \in HDNode, NEW f \in Fingerprint, NEW b \in BOOLEAN
    PROVE  NodeSerialize(n, f, b) \in Extended
<1>1. n.depth % 256 \in Nat
    BY DEF HDNode
<1>2. <<0, n.private_key_data>> \in Bytes33
    BY DEF HDNode, Bytes33
<1> QED
    BY <1>1, <1>2 DEF NodeSerialize, Extended, Version, HDNode

(* node_deserialize of an extended key is a node, without a cached public  *)
(* key or without a private one.                                           *)
LEMMA NodeDeserializeType ==
    ASSUME NEW e \in Extended, NodeDeserializeOK(e)
    PROVE  NodeDeserialize(e) \in HDNode
<1>1. Zero33 \in Bytes33 /\ 0 \in Bytes32
    BY CurveAssumption DEF Zero33, Bytes33, Bytes32
<1>2. e.key[2] \in Bytes32
    BY DEF Extended, Bytes33
<1> QED
    BY <1>1, <1>2 DEF NodeDeserialize, Extended, HDNode

(* The default of an extended key argument is one.                         *)
LEMMA NoExtendedType == NoExtended \in Extended
<1>1. Zero33 \in Bytes33
    BY CurveAssumption DEF Zero33, Bytes33, Bytes32
<1> QED
    BY <1>1, ApiAssumption, HmacAssumption, IndexFacts
       DEF NoExtended, Extended, Version

(* What a call may end with is an answer.                                  *)
LEMMA AnswerTypes ==
    /\ NoAnswer \in Answer
    /\ Thrown \in Answer
    /\ \A k \in Key : ReturnedKey(k) \in Answer
    /\ \A e \in Extended : ReturnedExtended(e) \in Answer
<1>1. Zero33 \in Key
    BY CurveAssumption DEF Zero33, Bytes33, Bytes32, Key
<1> QED
    BY <1>1, NoExtendedType
       DEF NoAnswer, Thrown, ReturnedKey, ReturnedExtended, Answer

(* The address of a public key that parses is a key.                       *)
LEMMA TronAddressType ==
    ASSUME NEW b \in Bytes33, PubkeyParseOK(b)
    PROVE  TronAddress(b) \in Key /\ TronAddress(b)[1] = 65
BY ParsePoint, ApiAssumption DEF TronAddress, Key

(* There is a seed.                                                        *)
LEMMA SeedFacts == Seed # {}
<1>1. PICK b \in Block : TRUE
    BY ApiAssumption
<1>2. [i \in 1 .. SeedLen |-> b] \in Seed
    BY <1>1, ApiAssumption
<1> QED
    BY <1>2

(* The calls a thread can make are calls. *)
LEMMA OnExtendedType ==
    ASSUME NEW c \in ExtendedCalls, NEW e \in Extended,
           NEW p \in Path \cup {<<>>}
    PROVE  OnExtended(c, e, p) \in Request
BY IndexFacts, SeedFacts DEF OnExtended, Request, Call

(* A call on a seed is a request.                                          *)
LEMMA OnSeedType ==
    ASSUME NEW c \in Call, NEW v \in SeedVector, NEW p \in Path \cup {<<>>},
           NEW co \in Index, NEW ac \in Index, NEW r \in OnSeed(c, v, p, co, ac)
    PROVE  r \in Request /\ r.call = c /\ r.path = p
BY NoExtendedType DEF OnSeed, Request, CopySeed

(* Every call a caller can make is a request.                              *)
LEMMA RequestsType ==
    ASSUME NEW known, known \subseteq Extended, NEW r \in Requests(known)
    PROVE  r \in Request
<1>1. 0 \in Index /\ Coin \subseteq Index /\ Account \subseteq Index
    BY IndexFacts, ApiAssumption
<1>2. CASE \E c \in SeedKeyCalls, v \in SeedVector, p \in Path :
              r \in OnSeed(c, v, p, 0, 0)
    BY <1>1, <1>2, OnSeedType DEF Call
<1>3. CASE \E v \in SeedVector : r \in OnSeed("getRootKey", v, <<>>, 0, 0)
    BY <1>1, <1>3, OnSeedType DEF Call
<1>4. CASE \E c \in AccountCalls, v \in SeedVector, co \in Coin, ac \in Account :
              r \in OnSeed(c, v, <<>>, co, ac)
    BY <1>1, <1>4, OnSeedType DEF Call
<1>5. CASE \E c \in ExtendedCalls, e \in known \cup Foreign, p \in Path :
              r = OnExtended(c, e, p)
    BY <1>5, OnExtendedType, ApiAssumption
<1> QED
    BY <1>2, <1>3, <1>4, <1>5 DEF Requests
-----------------------------------------------------------------------------
(* The zero-initialised node is a node and caches nothing.                 *)
LEMMA ZeroNodeFacts ==
    /\ ZeroNode \in HDNode /\ ~HasPublicKey(ZeroNode) /\ Coherent(ZeroNode)
    /\ ZeroNode.private_key_data = 0
    /\ Hash160[Zero33] \in Fingerprint
BY CurveAssumption, HmacAssumption, ApiAssumption, IndexFacts
   DEF ZeroNode, HDNode, Zero33, Bytes32, Bytes33, HasPublicKey, Coherent

(* The invariant holds before the first call.                              *)
LEMMA InitIInv == Init => IInv
<1> SUFFICES ASSUME Init PROVE IInv
    OBVIOUS
<1>1. NoRequest \in Request
    BY NoExtendedType, OnExtendedType
       DEF NoRequest, ExtendedCalls, PubExtendedCalls
<1>2. TypeOK
    BY <1>1, ZeroNodeFacts, AnswerTypes DEF Init, TypeOK, Ctx!Init
<1>3. ASSUME NEW t \in Thread PROVE Locals(t) /\ AnswerFits(t)
    BY <1>3, ZeroNodeFacts
       DEF Init, Locals, AnswerFits, Fits, WatchOnly, FromPublic, CallOf,
           NoRequest, OnExtended, NoExtended, NoAnswer,
           PrvExtendedCalls, PubExtendedCalls
<1> QED
    BY <1>2, <1>3 DEF IInv
-----------------------------------------------------------------------------
(* A step of t that ends its call with an answer that fits it.             *)
LEMMA LeaveIInv ==
    ASSUME IInv, NEW t \in Thread, NEW a \in Answer, Leave(t, a), Fits(t, a),
           UNCHANGED ctxVars, issued' \subseteq Issue, calls' \in Nat
    PROVE  IInv'
<1>1. TypeOK'
    BY ZeroNodeFacts DEF IInv, TypeOK, Leave, ctxVars
<1>2. ASSUME NEW u \in Thread PROVE Locals(u)' /\ AnswerFits(u)'
    <2>1. CASE u = t
        BY <2>1, ZeroNodeFacts
           DEF IInv, TypeOK, Leave, Locals, AnswerFits, Fits, WatchOnly,
               FromPublic, CallOf
    <2>2. CASE u # t
        BY <2>2
           DEF IInv, TypeOK, Leave, Locals, AnswerFits, Fits, WatchOnly,
               FromPublic, CallOf
    <2> QED
        BY <2>1, <2>2
<1> QED
    BY <1>1, <1>2 DEF IInv

(* An exception fits every call. *)
LEMMA ThrowIInv ==
    ASSUME IInv, NEW t \in Thread, Throw(t)
    PROVE  IInv'
<1>1. Thrown \in Answer /\ Fits(t, Thrown)
    BY AnswerTypes DEF Fits, Thrown, NoAnswer
<1>2. issued' \subseteq Issue /\ calls' \in Nat
    BY DEF IInv, TypeOK, Throw, Return
<1> QED
    BY <1>1, <1>2, LeaveIInv DEF Throw, Return

(* A step of t that moves on inside its call: what it may do to its locals *)
(* is for each action to show, the other threads' are as they were.        *)
LEMMA MoveIInv ==
    ASSUME IInv, NEW t \in Thread, NEW q, NEW n \in HDNode,
           NEW d \in Seq(Index), NEW f \in Fingerprint,
           q \in {"derive", "fingerprint", "account", "finish"},
           q = "derive" => d # <<>>,
           q \in {"fingerprint", "account"} => CallOf(t) \in AccountCalls,
           pc' = [pc EXCEPT ![t] = q], node' = [node EXCEPT ![t] = n],
           todo' = [todo EXCEPT ![t] = d],
           fingerprint' = [fingerprint EXCEPT ![t] = f],
           UNCHANGED <<request, answer, issued, calls, ctxVars>>,
           WatchOnly(t) => /\ n.private_key_data = 0
                           /\ CallOf(t) \in PrvExtendedCalls => q = "derive",
           ~WatchOnly(t) => /\ Coherent(n)
                            /\ FromPublic(t) => ~HasPublicKey(n),
           /\ q # "derive" /\ ~FromPublic(t)
           /\ CallOf(t) \in ExtendedCalls \/ request[t].path # <<>>
           => SeckeyVerify(n.private_key_data)
    PROVE  IInv'
<1>1. TypeOK'
    BY DEF IInv, TypeOK, ctxVars
<1>2. ASSUME NEW u \in Thread PROVE Locals(u)' /\ AnswerFits(u)'
    <2>1. CASE u = t
        BY <2>1
           DEF IInv, TypeOK, Locals, AnswerFits, WatchOnly, FromPublic, CallOf
    <2>2. CASE u # t
        BY <2>2
           DEF IInv, TypeOK, Locals, AnswerFits, Fits, WatchOnly,
               FromPublic, CallOf
    <2> QED
        BY <2>1, <2>2
<1> QED
    BY <1>1, <1>2 DEF IInv
-----------------------------------------------------------------------------
(* The initialiser of the static touches no local of a call.               *)
LEMMA InitialiserIInv ==
    ASSUME IInv, NEW t \in Thread, EnterInitialiser(t) \/ LeaveInitialiser(t)
    PROVE  IInv'
<1>1. UNCHANGED <<callVars, issued, calls>>
    BY DEF EnterInitialiser, LeaveInitialiser
<1>2. TypeOK'
    <2>1. /\ guard' \in {"none", "pending", "complete"}
          /\ builders' \subseteq Thread /\ contexts' \in Nat
        BY DEF IInv, TypeOK, EnterInitialiser, LeaveInitialiser,
               Ctx!EnterInitialiser, Ctx!LeaveInitialiser
    <2> QED
        BY <1>1, <2>1 DEF IInv, TypeOK, callVars
<1>3. ASSUME NEW u \in Thread PROVE Locals(u)' /\ AnswerFits(u)'
    BY <1>1, <1>3 DEF IInv, callVars, Locals, AnswerFits, Fits, WatchOnly,
                      FromPublic, CallOf
<1> QED
    BY <1>2, <1>3 DEF IInv

(* A new call starts with no node and with nothing to derive.              *)
LEMMA BeginIInv ==
    ASSUME IInv, NEW t \in Thread, Begin(t)
    PROVE  IInv'
<1>1. {i.extended : i \in issued} \subseteq Extended
    BY DEF IInv, TypeOK, Issue
<1>2. PICK r \in Requests({i.extended : i \in issued}) :
         /\ request' = [request EXCEPT ![t] = r]
         /\ pc' = [pc EXCEPT ![t] = IF r.call \in ExtendedCalls
                                    THEN "deserialize" ELSE "root"]
    BY DEF Begin
<1>3. r \in Request
    BY <1>1, RequestsType
<1>4. /\ pc[t] = "idle" /\ answer' = [answer EXCEPT ![t] = NoAnswer]
      /\ calls' = calls + 1
      /\ UNCHANGED <<node, todo, fingerprint, issued, ctxVars>>
    BY DEF Begin
<1>5. TypeOK'
    BY <1>2, <1>3, <1>4, AnswerTypes DEF IInv, TypeOK, ctxVars
<1>6. ASSUME NEW u \in Thread PROVE Locals(u)' /\ AnswerFits(u)'
    <2>1. CASE u = t
        BY <1>2, <1>4, <2>1, ZeroNodeFacts
           DEF IInv, TypeOK, Locals, AnswerFits, WatchOnly, FromPublic, CallOf
    <2>2. CASE u # t
        BY <1>2, <1>4, <2>2
           DEF IInv, TypeOK, Locals, AnswerFits, Fits, WatchOnly,
               FromPublic, CallOf
    <2> QED
        BY <2>1, <2>2
<1> QED
    BY <1>5, <1>6 DEF IInv

(* The seed's master key, and the indices of the call. *)
LEMMA RootIInv ==
    ASSUME IInv, NEW t \in Thread, Root(t)
    PROVE  IInv'
<1> DEFINE r == request[t]
           indices == SeedIndices(r)
           q == IF indices = <<>> THEN "finish" ELSE "derive"
<1>1. r \in Request /\ CallOf(t) \notin ExtendedCalls /\ ~WatchOnly(t)
    BY DEF IInv, TypeOK, Root, Locals, WatchOnly, CallOf
<1>2. indices \in Seq(Index) /\ (r.path # <<>> => indices # <<>>)
    <2>1. r.path \in Path \cup {<<>>} /\ r.coin \in Index /\ Purpose \in Index
        BY <1>1, ApiAssumption DEF Request
    <2>2. Harden(Purpose) \in Index /\ Harden(r.coin) \in Index
        BY <2>1, IndexFacts
    <2>3. CASE r.call \in AccountCalls
        BY <2>2, <2>3 DEF SeedIndices
    <2>4. CASE r.call \notin AccountCalls
        BY <2>1, <2>4, PathFacts DEF SeedIndices
    <2> QED
        BY <2>3, <2>4
<1>3. fromSeed(r.seed) \in HDNode /\ ~HasPublicKey(fromSeed(r.seed))
    BY <1>1, FromSeedType DEF Request
<1>4. Coherent(fromSeed(r.seed))
    BY <1>3 DEF Coherent
<1>5. fingerprint[t] \in Fingerprint
         /\ fingerprint' = [fingerprint EXCEPT ![t] = fingerprint[t]]
    BY DEF IInv, TypeOK, Root
<1>6. /\ pc' = [pc EXCEPT ![t] = q]
      /\ node' = [node EXCEPT ![t] = fromSeed(r.seed)]
      /\ todo' = [todo EXCEPT ![t] = indices]
      /\ UNCHANGED <<request, answer, issued, calls, ctxVars>>
    BY DEF Root
<1>7. q \in {"derive", "fingerprint", "account", "finish"}
         /\ (q = "derive" => indices # <<>>)
         /\ q \notin {"fingerprint", "account"}
         /\ (q # "derive" => r.path = <<>>)
    BY <1>2
<1> HIDE DEF q, indices
<1> QED
    BY <1>1, <1>2, <1>3, <1>4, <1>5, <1>6, <1>7, MoveIInv DEF CallOf

(* The node of an extended key, without a secret when it is a public one.  *)
LEMMA DeserializeIInv ==
    ASSUME IInv, NEW t \in Thread, Deserialize(t)
    PROVE  IInv'
<1> DEFINE r == request[t]
           n == NodeDeserialize(r.extended)
           d == <<change(r.path), address(r.path)>>
<1>1. r \in Request /\ CallOf(t) \in ExtendedCalls
    BY DEF IInv, TypeOK, Deserialize, Locals, CallOf
<1>2. CASE ~NodeDeserializeOK(r.extended)
    BY <1>2, ThrowIInv DEF Deserialize
<1>3. CASE NodeDeserializeOK(r.extended)
    <2>1. n \in HDNode
        BY <1>1, <1>3, NodeDeserializeType DEF Request
    <2>2. d \in Seq(Index) /\ d # <<>>
        <3>1. change(r.path) \in Index /\ address(r.path) \in Index
            BY <1>1, PathFacts DEF Request
        <3> QED
            BY <3>1
    <2>3. WatchOnly(t) => n.private_key_data = 0
        BY DEF WatchOnly, NodeDeserialize
    <2>4. ~WatchOnly(t) => ~HasPublicKey(n)
        BY <1>1 DEF WatchOnly, NodeDeserialize, HasPublicKey, Zero33
    <2>5. fingerprint[t] \in Fingerprint
             /\ fingerprint' = [fingerprint EXCEPT ![t] = fingerprint[t]]
        BY <1>3 DEF IInv, TypeOK, Deserialize
    <2>6. /\ pc' = [pc EXCEPT ![t] = "derive"]
          /\ node' = [node EXCEPT ![t] = n]
          /\ todo' = [todo EXCEPT ![t] = d]
          /\ UNCHANGED <<request, answer, issued, calls, ctxVars>>
        BY <1>3 DEF Deserialize
    <2> HIDE DEF n, d
    <2> QED
        BY <2>1, <2>2, <2>3, <2>4, <2>5, <2>6, MoveIInv DEF Coherent
<1> QED
    BY <1>2, <1>3

(* One derivation.  On a watch-only node privateCkd throws, and so does    *)
(* publicCkd on a node that is not.                                        *)
LEMMA DeriveIInv ==
    ASSUME IInv, NEW t \in Thread, Derive(t)
    PROVE  IInv'
<1> DEFINE i == Head(todo[t])
           rest == Tail(todo[t])
           n == ckd(t, i)
           q == IF rest # <<>> THEN "derive"
                ELSE IF CallOf(t) \in AccountCalls THEN "fingerprint"
                ELSE "finish"
<1>1. pc[t] = "derive" /\ node[t] \in HDNode /\ Locals(t)
    BY DEF IInv, TypeOK, Derive
<1>2. i \in Index /\ rest \in Seq(Index)
    <2>1. todo[t] \in Seq(Index) /\ todo[t] # <<>>
        BY <1>1 DEF IInv, TypeOK
    <2> QED
        BY <2>1
<1> HIDE DEF i, rest, n, q
<1>3. CASE ~ckdOK(t, i)
    BY <1>3, ThrowIInv DEF Derive, i
<1>4. CASE ckdOK(t, i)
    <2>1. /\ n \in HDNode
          /\ WatchOnly(t) => /\ n.private_key_data = 0
                             /\ CallOf(t) \notin PrvExtendedCalls
          /\ ~WatchOnly(t) => Coherent(n) /\ (FromPublic(t) => ~HasPublicKey(n))
          /\ ~FromPublic(t) => SeckeyVerify(n.private_key_data)
        <3>1. CASE FromPublic(t)
            <4>1. publicCkdOK(node[t], i) /\ n = publicCkd(node[t], i)
                BY <1>4, <3>1 DEF ckdOK, ckd, n
            <4>2. n \in HDNode /\ n.private_key_data = 0
                BY <1>1, <1>2, <4>1, PublicCkdType
            <4>3. HasPublicKey(node[t])
                BY <4>1 DEF publicCkdOK, PubkeyParseOK, HasPublicKey
            <4>4. WatchOnly(t) /\ CallOf(t) \notin PrvExtendedCalls
                BY <1>1, <3>1, <4>3
                   DEF Locals, FromPublic, PrvExtendedCalls, PubExtendedCalls
            <4> QED
                BY <3>1, <4>2, <4>4
        <3>2. CASE ~FromPublic(t)
            <4>1. privateCkdOK(node[t], i) /\ n = privateCkd(node[t], i)
                BY <1>4, <3>2 DEF ckdOK, ckd, n
            <4>2. /\ n \in HDNode /\ ~HasPublicKey(n)
                  /\ SeckeyVerify(n.private_key_data)
                  /\ SeckeyVerify(node[t].private_key_data)
                BY <1>1, <1>2, <4>1, PrivateCkdType
            <4>3. ~WatchOnly(t)
                BY <1>1, <4>2 DEF Locals, SeckeyVerify
            <4> QED
                BY <3>2, <4>2, <4>3 DEF Coherent
        <3> QED
            BY <3>1, <3>2
    <2>2. fingerprint[t] \in Fingerprint
             /\ fingerprint' = [fingerprint EXCEPT ![t] = fingerprint[t]]
        BY <1>4 DEF IInv, TypeOK, Derive, i
    <2>3. /\ pc' = [pc EXCEPT ![t] = q]
          /\ node' = [node EXCEPT ![t] = n]
          /\ todo' = [todo EXCEPT ![t] = rest]
          /\ UNCHANGED <<request, answer, issued, calls, ctxVars>>
        BY <1>4 DEF Derive, i, rest, n, q
    <2>4. q \in {"derive", "fingerprint", "account", "finish"}
             /\ (q = "derive" => rest # <<>>)
             /\ (q \in {"fingerprint", "account"} => CallOf(t) \in AccountCalls)
        BY DEF q
    <2> QED
        BY <1>2, <2>1, <2>2, <2>3, <2>4, MoveIInv
<1> QED
    BY <1>3, <1>4

(* node_fingerprint fills in the coin node's public key, its own.          *)
LEMMA FingerprintParentIInv ==
    ASSUME IInv, NEW t \in Thread, FingerprintParent(t)
    PROVE  IInv'
<1> DEFINE n == fillPublicKey(node[t])
           f == NodeFingerprint(node[t])
<1>1. pc[t] = "fingerprint" /\ node[t] \in HDNode /\ Locals(t)
         /\ todo[t] \in Seq(Index)
    BY DEF IInv, TypeOK, FingerprintParent
<1>2. CASE ~fillPublicKeyOK(node[t])
    BY <1>2, ThrowIInv DEF FingerprintParent
<1>3. CASE fillPublicKeyOK(node[t])
    <2>1. n \in HDNode /\ HasPublicKey(n)
             /\ n.private_key_data = node[t].private_key_data
        BY <1>1, <1>3, FillPublicKeyType
    <2>2. f \in Fingerprint
        BY <2>1, ApiAssumption DEF NodeFingerprint, HDNode
    <2>3. ~WatchOnly(t) => Coherent(n)
        BY <1>1, <1>3, FillPublicKeyCoherent DEF Locals
    <2>4. CallOf(t) \in AccountCalls /\ ~WatchOnly(t) /\ ~FromPublic(t)
        BY <1>1 DEF Locals, WatchOnly, FromPublic, AccountCalls,
                    ExtendedCalls, PrvExtendedCalls, PubExtendedCalls
    <2>5. request[t].path # <<>> => SeckeyVerify(n.private_key_data)
        BY <1>1, <2>1, <2>4 DEF Locals
    <2>6. CallOf(t) \notin ExtendedCalls
        BY <2>4 DEF AccountCalls, ExtendedCalls, PrvExtendedCalls,
                    PubExtendedCalls
    <2>7. /\ pc' = [pc EXCEPT ![t] = "account"]
          /\ node' = [node EXCEPT ![t] = n]
          /\ todo' = [todo EXCEPT ![t] = todo[t]]
          /\ fingerprint' = [fingerprint EXCEPT ![t] = f]
          /\ UNCHANGED <<request, answer, issued, calls, ctxVars>>
        BY <1>3 DEF IInv, TypeOK, FingerprintParent
    <2> HIDE DEF n, f
    <2> QED
        BY <1>1, <2>1, <2>2, <2>3, <2>4, <2>5, <2>6, <2>7, MoveIInv
<1> QED
    BY <1>2, <1>3

(* The account node is a private child: valid key, empty cache.            *)
LEMMA DeriveAccountIInv ==
    ASSUME IInv, NEW t \in Thread, DeriveAccount(t)
    PROVE  IInv'
<1> DEFINE i == AccountIndex(request[t].account)
           n == privateCkd(node[t], i)
<1>1. pc[t] = "account" /\ node[t] \in HDNode /\ Locals(t)
         /\ todo[t] \in Seq(Index) /\ fingerprint[t] \in Fingerprint
    BY DEF IInv, TypeOK, DeriveAccount
<1>2. i \in Index
    BY IndexFacts DEF IInv, TypeOK, Request
<1>3. CASE ~privateCkdOK(node[t], i)
    BY <1>3, ThrowIInv DEF DeriveAccount
<1>4. CASE privateCkdOK(node[t], i)
    <2>1. /\ n \in HDNode /\ ~HasPublicKey(n)
          /\ SeckeyVerify(n.private_key_data)
          /\ SeckeyVerify(node[t].private_key_data)
        BY <1>1, <1>2, <1>4, PrivateCkdType
    <2>2. ~WatchOnly(t)
        BY <1>1, <2>1 DEF Locals, SeckeyVerify
    <2>3. /\ pc' = [pc EXCEPT ![t] = "finish"]
          /\ node' = [node EXCEPT ![t] = n]
          /\ todo' = [todo EXCEPT ![t] = todo[t]]
          /\ fingerprint' = [fingerprint EXCEPT ![t] = fingerprint[t]]
          /\ UNCHANGED <<request, answer, issued, calls, ctxVars>>
        BY <1>4 DEF IInv, TypeOK, DeriveAccount
    <2> HIDE DEF n
    <2> QED
        BY <1>1, <2>1, <2>2, <2>3, MoveIInv DEF Coherent
<1> QED
    BY <1>3, <1>4
-----------------------------------------------------------------------------
(* The string of a node is handed out: any answer but a key fits. *)
LEMMA IssuesIInv ==
    ASSUME IInv, NEW t \in Thread, NEW e \in Extended, Issues(t, e),
           CallOf(t) \in AccountCalls
    PROVE  IInv'
<1>1. CallOf(t) \notin ExtendedCalls \cup PrivateKeyCalls
    BY DEF AccountCalls, ExtendedCalls, PrvExtendedCalls, PubExtendedCalls,
           PrivateKeyCalls
<1>2. ReturnedExtended(e) \in Answer /\ Fits(t, ReturnedExtended(e))
    BY <1>1, AnswerTypes DEF Fits, WatchOnly
<1>3. IssueOf(request[t], e) \in Issue
    BY DEF IInv, TypeOK, IssueOf, Issue, Request
<1>4. issued' \subseteq Issue /\ calls' \in Nat /\ UNCHANGED ctxVars
    BY <1>3 DEF Issues, IInv, TypeOK
<1> QED
    BY <1>2, <1>4, LeaveIInv DEF Issues

(* The extended keys that are handed out are extended keys.                *)
LEMMA FinishExtendedIInv ==
    ASSUME IInv, NEW t \in Thread,
           FinishPrivateExtended(t) \/ FinishPublicExtended(t)
    PROVE  IInv'
<1>1. node[t] \in HDNode /\ fingerprint[t] \in Fingerprint
    BY DEF IInv, TypeOK
<1>2. CallOf(t) \in AccountCalls
    BY DEF FinishPrivateExtended, FinishPublicExtended, AccountCalls
<1>3. CASE FinishPrivateExtended(t)
    BY <1>1, <1>2, <1>3, NodeSerializeType, IssuesIInv
       DEF FinishPrivateExtended
<1>4. CASE FinishPublicExtended(t) /\ fillPublicKeyOK(node[t])
    BY <1>1, <1>2, <1>4, FillPublicKeyType, NodeSerializeType, IssuesIInv
       DEF FinishPublicExtended
<1>5. CASE FinishPublicExtended(t) /\ ~fillPublicKeyOK(node[t])
    BY <1>5, ThrowIInv DEF FinishPublicExtended
<1> QED
    BY <1>3, <1>4, <1>5

(* A call returns a key that fits it. *)
LEMMA ReturnKeyIInv ==
    ASSUME IInv, NEW t \in Thread, NEW k \in Key, Return(t, ReturnedKey(k)),
           Fits(t, ReturnedKey(k))
    PROVE  IInv'
<1>1. ReturnedKey(k) \in Answer
    BY AnswerTypes
<1>2. issued' \subseteq Issue /\ calls' \in Nat /\ UNCHANGED ctxVars
    BY DEF Return, IInv, TypeOK
<1> QED
    BY <1>1, <1>2, LeaveIInv DEF Return

(* A private key is returned valid, and never to a holder of an extended   *)
(* public key.                                                             *)
LEMMA FinishPrivateKeyIInv ==
    ASSUME IInv, NEW t \in Thread, FinishPrivateKey(t)
    PROVE  IInv'
<1> DEFINE k == PrivateKey(node[t].private_key_data)
<1>1. /\ node[t] \in HDNode /\ Locals(t) /\ pc[t] = "finish"
      /\ CallOf(t) \in PrivateKeyCalls
    BY DEF IInv, TypeOK, FinishPrivateKey
<1>2. k \in Key /\ k[2] = node[t].private_key_data
    BY <1>1 DEF PrivateKey, Key, Bytes33, HDNode
<1>3. ~FromPublic(t)
    BY <1>1 DEF FromPublic, PubExtendedCalls, PrivateKeyCalls
<1>4. ReturnedKey(k).key = k
    BY DEF ReturnedKey, NoAnswer
<1> HIDE DEF k
<1>5. Fits(t, ReturnedKey(k))
    BY <1>1, <1>2, <1>3, <1>4 DEF Fits, Locals
<1> QED
    BY <1>2, <1>5, ReturnKeyIInv DEF FinishPrivateKey, k

(* What PrivateKey::getPublicKey and HDNode::publicKey return. *)
LEMMA PublicKeyOfType ==
    ASSUME IInv, NEW t \in Thread, PublicKeyOK(t)
    PROVE  PublicKeyOf(t) \in Bytes33
<1>1. node[t] \in HDNode
    BY DEF IInv, TypeOK
<1>2. CASE FromPublic(t)
    BY <1>1, <1>2, FillPublicKeyType DEF PublicKeyOK, PublicKeyOf, HDNode
<1>3. CASE ~FromPublic(t)
    <2>1. node[t].private_key_data \in Point
        BY <1>1, <1>3, ValidIsPoint DEF PublicKeyOK, PubkeyCreateOK, HDNode
    <2> QED
        BY <1>3, <2>1, ParseSerialize DEF PublicKeyOf, PubkeyCreate
<1> QED
    BY <1>2, <1>3

(* Only a call that is not watched returns without having thrown. *)
LEMMA FinishFits ==
    ASSUME IInv, NEW t \in Thread, NEW a, pc[t] = "finish",
           CallOf(t) \notin PrivateKeyCalls
    PROVE  Fits(t, a)
BY DEF IInv, Locals, Fits

(* A public key is returned only by a call that may have one.              *)
LEMMA FinishPublicKeyIInv ==
    ASSUME IInv, NEW t \in Thread, FinishPublicKey(t)
    PROVE  IInv'
<1>1. pc[t] = "finish" /\ CallOf(t) \notin PrivateKeyCalls
    BY DEF FinishPublicKey, PublicKeyCalls, PrivateKeyCalls
<1>2. CASE PublicKeyOK(t)
    <2>1. PublicKeyOf(t) \in Key
        BY <1>2, PublicKeyOfType DEF Key
    <2> QED
        BY <1>1, <1>2, <2>1, FinishFits, ReturnKeyIInv DEF FinishPublicKey
<1>3. CASE ~PublicKeyOK(t)
    BY <1>3, ThrowIInv DEF FinishPublicKey
<1> QED
    BY <1>2, <1>3

(* An address is never returned by a private route from an extended public *)
(* key.                                                                    *)
LEMMA FinishAddressIInv ==
    ASSUME IInv, NEW t \in Thread, FinishAddress(t)
    PROVE  IInv'
<1>1. pc[t] = "finish" /\ CallOf(t) \notin PrivateKeyCalls
    BY DEF FinishAddress
<1>2. CASE PublicKeyOK(t) /\ PubkeyParseOK(PublicKeyOf(t))
    <2>1. TronAddress(PublicKeyOf(t)) \in Key
        BY <1>2, PublicKeyOfType, TronAddressType
    <2> QED
        BY <1>1, <1>2, <2>1, FinishFits, ReturnKeyIInv DEF FinishAddress
<1>3. CASE ~(PublicKeyOK(t) /\ PubkeyParseOK(PublicKeyOf(t)))
    BY <1>3, ThrowIInv DEF FinishAddress
<1> QED
    BY <1>2, <1>3
-----------------------------------------------------------------------------
(* Every step of the wallet preserves the invariant.                       *)
LEMMA NextIInv == IInv /\ [Next]_vars => IInv'
<1> SUFFICES ASSUME IInv, [Next]_vars PROVE IInv'
    OBVIOUS
<1>1. CASE UNCHANGED vars
    <2>1. UNCHANGED <<guard, builders, contexts, pc, request, node, todo,
                      fingerprint, answer, issued, calls>>
        BY <1>1 DEF vars, ctxVars, callVars
    <2>2. TypeOK'
        BY <2>1 DEF IInv, TypeOK
    <2>3. ASSUME NEW t \in Thread PROVE Locals(t)' /\ AnswerFits(t)'
        BY <2>1, <2>3 DEF IInv, Locals, AnswerFits, Fits, WatchOnly,
                          FromPublic, CallOf
    <2> QED
        BY <2>2, <2>3 DEF IInv
<1>2. ASSUME NEW t \in Thread, Begin(t) \/ Step(t)
      PROVE  IInv'
    <2>1. CASE Begin(t)
        BY <2>1, BeginIInv
    <2>2. CASE EnterInitialiser(t) \/ LeaveInitialiser(t)
        BY <2>2, InitialiserIInv
    <2>3. CASE Root(t)
        BY <2>3, RootIInv
    <2>4. CASE Deserialize(t)
        BY <2>4, DeserializeIInv
    <2>5. CASE Derive(t)
        BY <2>5, DeriveIInv
    <2>6. CASE FingerprintParent(t)
        BY <2>6, FingerprintParentIInv
    <2>7. CASE DeriveAccount(t)
        BY <2>7, DeriveAccountIInv
    <2>8. CASE FinishPrivateExtended(t) \/ FinishPublicExtended(t)
        BY <2>8, FinishExtendedIInv
    <2>9. CASE FinishPrivateKey(t)
        BY <2>9, FinishPrivateKeyIInv
    <2>10. CASE FinishPublicKey(t)
        BY <2>10, FinishPublicKeyIInv
    <2>11. CASE FinishAddress(t)
        BY <2>11, FinishAddressIInv
    <2> QED
        BY <1>2, <2>1, <2>2, <2>3, <2>4, <2>5, <2>6, <2>7, <2>8, <2>9,
           <2>10, <2>11 DEF Step, Finish
<1> QED
    BY <1>1, <1>2 DEF Next

(* The inductive invariant: types, what is known of the locals of each     *)
(* call, and what a finished call has answered.                            *)
THEOREM IInvariant == Spec => []IInv
<1>1. Init => IInv
    BY InitIInv
<1>2. IInv /\ [Next]_vars => IInv'
    BY NextIInv
<1> QED
    BY <1>1, <1>2, PTL DEF Spec

(* The state of the wallet keeps its types: no index leaves 32 bits, no    *)
(* private key 32 bytes, and a call in its derivation loop has an index    *)
(* left to derive.                                                         *)
THEOREM TypeCorrect == Spec => []TypeOK
<1>1. IInv => TypeOK
    BY DEF IInv
<1> QED
    BY <1>1, IInvariant, PTL

(* A node never holds a public key that is not that of its private key,    *)
(* unless it was made from an extended public key, and then it never holds *)
(* a private key at all.                                                   *)
THEOREM NodesConsistent == Spec => []NodeConsistent
<1>1. IInv => NodeConsistent
    BY DEF IInv, Locals, NodeConsistent
<1> QED
    BY <1>1, IInvariant, PTL

(* An extended public key given where a private one is due makes the call  *)
(* throw; it returns no private key and no address.                        *)
THEOREM WatchOnlyKeepsSecrets == Spec => []NoKeyFromWatchOnly
<1>1. IInv => NoKeyFromWatchOnly
    BY DEF IInv, AnswerFits, Fits, NoKeyFromWatchOnly
<1> QED
    BY <1>1, IInvariant, PTL

(* Every private key handed out is valid, but for the master key. *)
THEOREM PrivateKeysValid == Spec => []KeysValid
<1>1. IInv => KeysValid
    BY DEF IInv, AnswerFits, Fits, KeysValid, Returned
<1> QED
    BY <1>1, IInvariant, PTL
-----------------------------------------------------------------------------
(* The static of curve.cpp, and how far a thread gets without it. *)
CtxInv ==
    /\ guard = "none" => builders = {} /\ contexts = 0
    /\ guard = "pending" => contexts = 1 /\ \E b \in Thread : builders = {b}
    /\ guard = "complete" => builders = {} /\ contexts = 1
    /\ \A t \in Thread :
          \/ pc[t] \in {"fingerprint", "account"}
          \/ pc[t] = "finish" /\ request[t].path # <<>>
          => guard = "complete"

Past(q, path) == q \in {"fingerprint", "account"} \/ (q = "finish" /\ path # <<>>)

(* A step of t that leaves the static alone and is past it only if it is   *)
(* complete.                                                               *)
LEMMA CtxFrame ==
    ASSUME IInv, CtxInv, NEW t \in Thread, NEW q, UNCHANGED ctxVars,
           pc' = [pc EXCEPT ![t] = q],
           \A u \in Thread \ {t} : request'[u] = request[u],
           Past(q, request'[t].path) => guard = "complete"
    PROVE  CtxInv'
<1>1. ASSUME NEW u \in Thread, Past(pc'[u], request'[u].path)
      PROVE  guard' = "complete"
    <2>1. CASE u = t
        BY <1>1, <2>1 DEF IInv, TypeOK, ctxVars
    <2>2. CASE u # t
        BY <1>1, <2>2 DEF IInv, TypeOK, CtxInv, Past, ctxVars
    <2> QED
        BY <2>1, <2>2
<1> QED
    BY <1>1 DEF CtxInv, Past, ctxVars

(* A call that ends is past no step.                                       *)
LEMMA LeaveCtxInv ==
    ASSUME IInv, CtxInv, NEW t \in Thread, NEW a, Leave(t, a),
           UNCHANGED ctxVars
    PROVE  CtxInv'
BY CtxFrame DEF Leave, Past

(* A turn of the loop passes on only with the context built.               *)
LEMMA DeriveCtxInv ==
    ASSUME IInv, CtxInv, NEW t \in Thread, Derive(t)
    PROVE  CtxInv'
<1> DEFINE i == Head(todo[t])
           q == IF Tail(todo[t]) # <<>> THEN "derive"
                ELSE IF CallOf(t) \in AccountCalls THEN "fingerprint"
                ELSE "finish"
<1>1. CASE ~ckdOK(t, i)
    BY <1>1, LeaveCtxInv DEF Derive, Throw, Return
<1>2. CASE ckdOK(t, i)
    <2>1. ~(FromPublic(t) /\ IsHardened(i))
        BY <1>2 DEF ckdOK, publicCkdOK
    <2>2. guard = "complete"
        BY <2>1 DEF Derive, HasContext, NeedsContext, Ctx!Ready
    <2>3. pc' = [pc EXCEPT ![t] = q] /\ UNCHANGED <<request, ctxVars>>
        BY <1>2 DEF Derive
    <2> HIDE DEF q
    <2> QED
        BY <2>2, <2>3, CtxFrame
<1> QED
    BY <1>1, <1>2

(* A call on a path with components derives before it finishes.            *)
LEMMA RootCtxInv ==
    ASSUME IInv, CtxInv, NEW t \in Thread, Root(t)
    PROVE  CtxInv'
<1> DEFINE indices == SeedIndices(request[t])
           q == IF indices = <<>> THEN "finish" ELSE "derive"
<1>1. pc' = [pc EXCEPT ![t] = q] /\ UNCHANGED <<request, ctxVars>>
    BY DEF Root
<1>2. request[t].path \in Path \cup {<<>>}
    BY DEF IInv, TypeOK, Request
<1>3. request[t].path # <<>> => indices # <<>>
    BY <1>2, PathFacts DEF SeedIndices
<1>4. ~Past(q, request'[t].path)
    BY <1>1, <1>3 DEF Past
<1> HIDE DEF q
<1> QED
    BY <1>1, <1>4, CtxFrame

(* Every step of the wallet preserves what is known of the static.         *)
LEMMA NextCtxInv == IInv /\ CtxInv /\ [Next]_vars => CtxInv'
<1> SUFFICES ASSUME IInv, CtxInv, [Next]_vars PROVE CtxInv'
    OBVIOUS
<1>1. CASE UNCHANGED vars
    BY <1>1 DEF CtxInv, vars, ctxVars, callVars
<1>2. ASSUME NEW t \in Thread, Begin(t) \/ Step(t)
      PROVE  CtxInv'
    <2>1. CASE Begin(t)
        <3>1. PICK r : /\ request' = [request EXCEPT ![t] = r]
                       /\ pc' = [pc EXCEPT ![t] = IF r.call \in ExtendedCalls
                                             THEN "deserialize" ELSE "root"]
            BY <2>1 DEF Begin
        <3> QED
            BY <2>1, <3>1, CtxFrame DEF Begin, IInv, TypeOK, Past
    <2>2. CASE EnterInitialiser(t)
        BY <2>2 DEF CtxInv, EnterInitialiser, Ctx!EnterInitialiser, callVars
    <2>3. CASE LeaveInitialiser(t)
        BY <2>3 DEF IInv, TypeOK, CtxInv, LeaveInitialiser,
                    Ctx!LeaveInitialiser, callVars
    <2>4. CASE Root(t)
        BY <2>4, RootCtxInv
    <2>5. CASE Deserialize(t)
        BY <2>5, LeaveCtxInv, CtxFrame DEF Deserialize, Throw, Return, Past
    <2>6. CASE Derive(t)
        BY <2>6, DeriveCtxInv
    <2>7. CASE FingerprintParent(t)
        BY <2>7, LeaveCtxInv, CtxFrame
           DEF FingerprintParent, Throw, Return, HasContext, NeedsContext,
               Ctx!Ready
    <2>8. CASE DeriveAccount(t)
        BY <2>8, LeaveCtxInv, CtxFrame
           DEF DeriveAccount, Throw, Return, HasContext, NeedsContext,
               Ctx!Ready
    <2>9. CASE Finish(t)
        BY <2>9, LeaveCtxInv
           DEF Finish, FinishPrivateExtended, FinishPublicExtended,
               FinishPrivateKey, FinishPublicKey, FinishAddress, Issues,
               Throw, Return
    <2> QED
        BY <1>2, <2>1, <2>2, <2>3, <2>4, <2>5, <2>6, <2>7, <2>8, <2>9
           DEF Step
<1> QED
    BY <1>1, <1>2 DEF Next

(* The secp256k1 context is built once, by one thread, and no call is past *)
(* a step that needs it before it is built.                                *)
THEOREM ContextBuiltOnce == Spec => []ContextOnce
<1>1. Init => CtxInv
    BY DEF Init, Ctx!Init, CtxInv
<1>2. IInv /\ CtxInv /\ [Next]_vars => CtxInv'
    BY NextCtxInv
<1>3. IInv /\ CtxInv => ContextOnce
    <2> SUFFICES ASSUME IInv, CtxInv PROVE ContextOnce
        OBVIOUS
    <2>1. guard \in {"none", "pending", "complete"}
        BY DEF IInv, TypeOK
    <2>2. contexts <= 1
        BY <2>1 DEF CtxInv
    <2>3. Cardinality(builders) <= 1
        <3>1. Cardinality({}) = 0
            BY FS_EmptySet
        <3>2. \A b : Cardinality({b}) = 1
            BY FS_Singleton
        <3>3. CASE builders = {}
            BY <3>1, <3>3
        <3>4. ASSUME NEW b, builders = {b}
              PROVE  Cardinality(builders) <= 1
            <4>1. Cardinality({b}) = 1
                BY <3>2
            <4>2. Cardinality(builders) = 1
                BY <4>1, <3>4, Zenon
            <4> QED
                BY <4>2
        <3> QED
            BY <2>1, <3>3, <3>4 DEF CtxInv
    <2> QED
        BY <2>2, <2>3 DEF CtxInv, ContextOnce, Ctx!Ready
<1> QED
    BY <1>1, <1>2, <1>3, IInvariant, PTL DEF Spec
-----------------------------------------------------------------------------
(* HDWallet implements WalletPromise: what the loops derive step by step,  *)
(* and what a caller derives on from an extended public key, is what one   *)
(* descent from the master key gives.  A descent is a recursive function   *)
(* of the length, and what holds along it is proved from the least length  *)
(* at which it would not.                                                  *)

(* A set of numbers that is not empty has a least element.                 *)
LEMMA NatMinimum ==
    ASSUME NEW T, T \subseteq Nat, T # {}
    PROVE  \E m \in T : \A n \in T : m <= n
<1> DEFINE R == OpToRel(<, Nat)
<1>1. \A x, y \in Nat : x < y => <<x, y>> \in R
    BY DEF OpToRel
<1>2. IsWellFoundedOn(R, Nat)
    BY NatLessThanWellFounded
<1> HIDE DEF R
<1>3. PICK m \in T : \A n \in T : ~(<<n, m>> \in R)
    BY <1>2, WFMin, Zenon
<1>4. ASSUME NEW n \in T
      PROVE  m <= n
    <2>1. m \in Nat /\ n \in Nat
        OBVIOUS
    <2>2. ~(n < m)
        BY <1>1, <1>3, <2>1
    <2> QED
        BY <2>1, <2>2
<1> QED
    BY <1>4

(* A descent from x along s, one child after the other, as the promise has *)
(* it: f[n] is the node n children down.                                   *)
IsWalk(f, x, s, l) ==
    f = [n \in 0 .. l |-> IF n = 0 THEN x ELSE Promise!Child(f[n - 1], s[n])]

(* There is a descent of every length.                                     *)
LEMMA WalkExists ==
    ASSUME NEW x, NEW s, NEW l \in Nat
    PROVE  \E f : IsWalk(f, x, s, l)
<1> DEFINE T == {m \in Nat : ~ \E f : IsWalk(f, x, s, m)}
<1> SUFFICES T = {}
    OBVIOUS
<1>1. SUFFICES ASSUME T # {} PROVE FALSE
    OBVIOUS
<1>2. PICK m \in T : \A n \in T : m <= n
    BY <1>1, NatMinimum
<1>3. CASE m = 0
    <2>1. IsWalk([n \in 0 .. 0 |-> x], x, s, 0)
        BY DEF IsWalk
    <2> QED
        BY <1>2, <1>3, <2>1
<1>4. CASE m # 0
    <2>1. m - 1 \in Nat /\ m - 1 \notin T
        BY <1>2, <1>4
    <2>2. PICK f : IsWalk(f, x, s, m - 1)
        BY <2>1
    <2> DEFINE g == [n \in 0 .. m |-> IF n = m THEN Promise!Child(f[m - 1], s[m])
                                      ELSE f[n]]
    <2>3. IsWalk(g, x, s, m)
        BY <1>4, <2>1, <2>2 DEF IsWalk
    <2> QED
        BY <1>2, <2>3
<1> QED
    BY <1>3, <1>4

(* A start and the indices have only one descent.                          *)
LEMMA WalkUnique ==
    ASSUME NEW x, NEW s, NEW l \in Nat, NEW f, NEW g,
           IsWalk(f, x, s, l), IsWalk(g, x, s, l)
    PROVE  f = g
<1> DEFINE T == {m \in 0 .. l : f[m] # g[m]}
<1>1. T = {}
    <2> SUFFICES ASSUME T # {} PROVE FALSE
        OBVIOUS
    <2>0. T \subseteq Nat
        OBVIOUS
    <2>1. PICK m \in T : \A n \in T : m <= n
        BY <2>0, NatMinimum
    <2>2. m # 0
        BY DEF IsWalk
    <2>3. f[m - 1] = g[m - 1]
        BY <2>1, <2>2
    <2> QED
        BY <2>2, <2>3 DEF IsWalk
<1> QED
    BY <1>1 DEF IsWalk

(* A descendant is where the descent ends.                                 *)
LEMMA DescendantIs ==
    ASSUME NEW x, NEW s, Len(s) \in Nat, NEW f, IsWalk(f, x, s, Len(s))
    PROVE  Promise!Descendant(x, s) = f[Len(s)]
<1> DEFINE w == CHOOSE w : IsWalk(w, x, s, Len(s))
<1>1. IsWalk(w, x, s, Len(s))
    OBVIOUS
<1>2. w = f
    BY <1>1, WalkUnique
<1> QED
    BY <1>2 DEF Promise!Descendant, IsWalk

(* Along no index one stays where one is.                                  *)
LEMMA DescendantNone ==
    ASSUME NEW x
    PROVE  Promise!Descendant(x, <<>>) = x
<1>1. PICK f : IsWalk(f, x, <<>>, 0)
    BY WalkExists
<1>2. f[0] = x
    BY <1>1 DEF IsWalk
<1> QED
    BY <1>1, <1>2, DescendantIs

(* The descent goes to the child first, and on from there: what makes the  *)
(* loop of get_node, which takes one index off the front, compute it.      *)
LEMMA DescendantFirst ==
    ASSUME NEW x, NEW s \in Seq(Index), s # <<>>
    PROVE  Promise!Descendant(x, s) =
              Promise!Descendant(Promise!Child(x, Head(s)), Tail(s))
<1> DEFINE y == Promise!Child(x, Head(s))
           l == Len(s)
<1>1. /\ l \in Nat /\ l # 0 /\ Len(Tail(s)) = l - 1 /\ Head(s) = s[1]
      /\ \A n \in 1 .. l - 1 : Tail(s)[n] = s[n + 1]
    OBVIOUS
<1>2. PICK f : IsWalk(f, x, s, l)
    BY <1>1, WalkExists
<1> DEFINE g == [n \in 0 .. l - 1 |-> f[n + 1]]
<1>3. /\ f[0] = x
      /\ \A n \in 1 .. l : f[n] = Promise!Child(f[n - 1], s[n])
    BY <1>1, <1>2 DEF IsWalk
<1> HIDE DEF y
<1>4. g[0] = y
    BY <1>1, <1>3 DEF y
<1>5. ASSUME NEW n \in 1 .. l - 1
      PROVE  g[n] = Promise!Child(g[n - 1], Tail(s)[n])
    <2>1. n + 1 \in 1 .. l /\ n - 1 \in 0 .. l - 1 /\ n \in 0 .. l - 1
        BY <1>1
    <2>2. g[n] = f[n + 1] /\ g[n - 1] = f[n]
        BY <1>1, <2>1
    <2>3. f[n + 1] = Promise!Child(f[n], s[n + 1])
        BY <1>1, <1>3, <2>1
    <2> QED
        BY <1>1, <2>2, <2>3
<1>6. IsWalk(g, y, Tail(s), l - 1)
    <2> DEFINE w == [n \in 0 .. l - 1 |->
                        IF n = 0 THEN y ELSE Promise!Child(g[n - 1], Tail(s)[n])]
    <2>1. ASSUME NEW n \in 0 .. l - 1 PROVE g[n] = w[n]
        <3>1. CASE n = 0
            BY <1>4, <3>1
        <3>2. CASE n # 0
            <4>1. n \in 1 .. l - 1
                BY <1>1, <3>2
            <4>2. g[n] = Promise!Child(g[n - 1], Tail(s)[n])
                BY <1>5, <4>1
            <4> HIDE DEF g
            <4> QED
                BY <3>2, <4>2
        <3> QED
            BY <3>1, <3>2
    <2>2. g = w
        BY <2>1
    <2> QED
        BY <2>2 DEF IsWalk
<1> HIDE DEF g
<1>7. Promise!Descendant(y, Tail(s)) = g[l - 1]
    <2>1. l - 1 \in Nat /\ Len(Tail(s)) = l - 1
        BY <1>1
    <2> QED
        BY <1>6, <2>1, DescendantIs
<1>8. Promise!Descendant(x, s) = f[l]
    BY <1>1, <1>2, DescendantIs
<1>9. g[l - 1] = f[l]
    BY <1>1 DEF g
<1> QED
    BY <1>7, <1>8, <1>9 DEF y
-----------------------------------------------------------------------------
(* The promise's words of numbers, points and paths are the wallet's.      *)
LEMMA SameWords ==
    /\ Promise!Point = Point
    /\ \A i : Promise!IsHardened(i) <=> IsHardened(i)
    /\ \A i : Promise!Harden(i) = Harden(i)
    /\ \A p : Promise!DerivationIndices(p) = DerivationIndices(p)
    /\ \A p : Promise!change(p) = change(p) /\ Promise!address(p) = address(p)
    /\ \A a : Promise!AccountIndex(a) = AccountIndex(a)
    /\ \A b : /\ Promise!PubkeyParseOK(b) <=> PubkeyParseOK(b)
             /\ Promise!PubkeyParse(b) = PubkeyParse(b)
BY DEF Promise!Point, Point, Promise!IsHardened, IsHardened, Promise!Harden,
       Harden, Promise!DerivationIndices, DerivationIndices,
       Promise!DerivationIndex, DerivationIndex, Promise!change, change,
       Promise!address, address, Promise!ValueAt, ValueAt,
       Promise!AccountIndex, AccountIndex, Promise!Word, Word,
       Promise!PubkeyParseOK, PubkeyParseOK, Promise!PubkeyParse, PubkeyParse

(* The promise's kinds of calls and forms of answers are the wallet's.     *)
LEMMA SameCalls ==
    /\ Promise!ExtendedCalls = ExtendedCalls
    /\ Promise!PrvExtendedCalls = PrvExtendedCalls
    /\ Promise!PubExtendedCalls = PubExtendedCalls
    /\ Promise!AccountCalls = AccountCalls
    /\ Promise!PrivateKeyCalls = PrivateKeyCalls
    /\ Promise!PublicKeyCalls = PublicKeyCalls
    /\ Promise!Request = Request
    /\ Promise!NoRequest = NoRequest
    /\ \A v : Promise!CopySeed(v) = CopySeed(v)
    /\ Promise!NoAnswer = NoAnswer
    /\ Promise!Thrown = Thrown
    /\ \A k : Promise!ReturnedKey(k) = ReturnedKey(k)
    /\ \A e : Promise!ReturnedExtended(e) = ReturnedExtended(e)
    /\ \A r, e : Promise!IssueOf(r, e) = IssueOf(r, e)
BY DEF Promise!ExtendedCalls, ExtendedCalls, Promise!PrvExtendedCalls,
       PrvExtendedCalls, Promise!PubExtendedCalls, PubExtendedCalls,
       Promise!AccountCalls, AccountCalls, Promise!PrivateKeyCalls,
       PrivateKeyCalls, Promise!PublicKeyCalls, PublicKeyCalls,
       Promise!Request, Request, Promise!Call, Call, Promise!SeedKeyCalls,
       SeedKeyCalls, Promise!Extended, Extended, Promise!Version, Version,
       Promise!Index, Index, Promise!Word, Word, Promise!Bytes33, Bytes33,
       Promise!Bytes32, Bytes32, Promise!NoRequest, NoRequest,
       Promise!OnExtended, OnExtended, Promise!NoExtended, NoExtended,
       Promise!Zero33, Zero33, Promise!CopySeed, CopySeed,
       Promise!NoAnswer, NoAnswer, Promise!Thrown, Thrown,
       Promise!ReturnedKey, ReturnedKey, Promise!ReturnedExtended,
       ReturnedExtended, Promise!IssueOf, IssueOf

(* The child of a secret, spelled out. *)
LEMMA ChildIs ==
    ASSUME NEW x, NEW i
    PROVE  LET h == ChildHmac[<<x.c, IF IsHardened(i) THEN <<0, x.k>>
                                     ELSE PubkeySerialize(x.k % Order), i>>]
               k == (x.k + h[1]) % Order
               y == Promise!Child(x, i)
           IN  /\ y.ok <=> x.ok /\ x.k \in Point /\ h[1] \in Point /\ k # 0
               /\ y.ok => y = [ok |-> TRUE, k |-> k, c |-> h[2]]
<1> DEFINE h == ChildHmac[<<x.c, IF IsHardened(i) THEN <<0, x.k>>
                                 ELSE PubkeySerialize(x.k % Order), i>>]
           k == (x.k + h[1]) % Order
           good == x.ok /\ x.k \in Point /\ h[1] \in Point /\ k # 0
           y == Promise!Child(x, i)
<1>1. \A z : (CHOOSE w \in {z} : TRUE) = z
    OBVIOUS
<1>2. \A l : Promise!Public(l) = PubkeySerialize(l)
    BY DEF Promise!Public, PubkeySerialize
<1>3. y = [ok |-> good, k |-> k, c |-> h[2]]
    BY <1>1, <1>2, SameWords DEF Promise!Child
<1> HIDE DEF y, h, k
<1>4. y.ok <=> good
    <2>1. [ok |-> good, k |-> k, c |-> h[2]].ok = good
        OBVIOUS
    <2> QED
        BY <1>3, <2>1
<1>5. good => good = TRUE
    OBVIOUS
<1>6. y.ok => y = [ok |-> TRUE, k |-> k, c |-> h[2]]
    BY <1>3, <1>4, <1>5
<1> QED
    BY <1>4, <1>6 DEF y, h, k

(* Only a secret has children, and they are valid keys. *)
LEMMA ChildNeeds ==
    ASSUME NEW x, NEW i, Promise!Child(x, i).ok
    PROVE  LET y == Promise!Child(x, i)
           IN  /\ x.ok /\ x.k \in Point /\ y.k \in Point
               /\ y = [ok |-> TRUE, k |-> y.k, c |-> y.c]
<1> DEFINE h == ChildHmac[<<x.c, IF IsHardened(i) THEN <<0, x.k>>
                                 ELSE PubkeySerialize(x.k % Order), i>>]
           y == Promise!Child(x, i)
<1> HIDE DEF h
<1>1. /\ x.ok /\ x.k \in Point /\ h[1] \in Point /\ (x.k + h[1]) % Order # 0
      /\ y.k = (x.k + h[1]) % Order
      /\ y = [ok |-> TRUE, k |-> y.k, c |-> y.c]
    <2>1. /\ y.ok <=> /\ x.ok /\ x.k \in Point /\ h[1] \in Point
                      /\ (x.k + h[1]) % Order # 0
          /\ y.ok => y = [ok |-> TRUE, k |-> (x.k + h[1]) % Order, c |-> h[2]]
        BY ChildIs DEF h
    <2> HIDE DEF y
    <2> QED
        BY <2>1 DEF y
<1>2. y.k \in Point
    BY <1>1, CurveAssumption DEF Point
<1> QED
    BY <1>1, <1>2

(* A key that parses serializes to the bytes it was parsed from.           *)
LEMMA SerializeParse ==
    ASSUME NEW b \in Bytes33, PubkeyParseOK(b)
    PROVE  PubkeySerialize(PubkeyParse(b)) = b
<1>1. Order \in Nat /\ Order > 2 /\ Top \in Nat
    BY CurveAssumption
<1>2. /\ b = <<b[1], b[2]>> /\ b[1] \in {2, 3} /\ b[2] \in Int
      /\ 0 < b[2] /\ 2 * b[2] < Order
    BY <1>1 DEF Bytes33, Bytes32, PubkeyParseOK
<1>3. CASE b[1] = 2
    BY <1>1, <1>2, <1>3 DEF PubkeySerialize, PubkeyParse
<1>4. CASE b[1] = 3
    <2>1. PubkeyParse(b) = Order - b[2] /\ ~(2 * (Order - b[2]) < Order)
        BY <1>1, <1>2, <1>4 DEF PubkeyParse
    <2>2. Order - (Order - b[2]) = b[2]
        BY <1>1, <1>2
    <2> QED
        BY <1>2, <1>4, <2>1, <2>2 DEF PubkeySerialize
<1> QED
    BY <1>2, <1>3, <1>4
-----------------------------------------------------------------------------
(* The secret behind a node: of a node with a public key alone, one that   *)
(* its holder does not know.                                               *)
Behind(n, public) ==
    IF public
    THEN [ok |-> PubkeyParseOK(n.public_key_data),
          k |-> PubkeyParse(n.public_key_data), c |-> n.chain_code]
    ELSE [ok |-> TRUE, k |-> n.private_key_data, c |-> n.chain_code]

(* What is behind a node only depends on whether its public key is taken.  *)
LEMMA BehindIs ==
    ASSUME NEW n, NEW p
    PROVE  /\ p => Behind(n, p) = Behind(n, TRUE)
           /\ ~p => Behind(n, p) = Behind(n, FALSE)
BY DEF Behind

(* privateCkd goes to the child of the secret, and throws when it has none.*)
LEMMA PrivateChild ==
    ASSUME NEW n \in HDNode, NEW i \in Index, Coherent(n)
    PROVE  LET y == Promise!Child(Behind(n, FALSE), i)
           IN  /\ y.ok <=> privateCkdOK(n, i)
               /\ privateCkdOK(n, i) => Behind(privateCkd(n, i), FALSE) = y
<1> DEFINE k == n.private_key_data
           x == Behind(n, FALSE)
           y == Promise!Child(x, i)
           h == ChildHmac[<<n.chain_code, IF IsHardened(i) THEN <<0, k>>
                                          ELSE PubkeySerialize(k % Order), i>>]
<1>1. k \in Bytes32 /\ n.chain_code \in ChainCode
    BY DEF HDNode
<1>2. x.ok /\ x.k = k /\ x.c = n.chain_code
    BY DEF Behind
<1> HIDE DEF x
<1>3. /\ y.ok <=> k \in Point /\ h[1] \in Point /\ (k + h[1]) % Order # 0
      /\ y.ok => y = [ok |-> TRUE, k |-> (k + h[1]) % Order, c |-> h[2]]
    BY <1>2, ChildIs
<1> HIDE DEF y, h
<1>4. CASE k \notin Point
    <2>1. ~SeckeyVerify(k)
        BY <1>1, <1>4, ValidIsPoint
    <2>2. ~privateCkdOK(n, i)
        BY <2>1 DEF privateCkdOK, SeckeyTweakAddOK
    <2> QED
        BY <1>3, <1>4, <2>2 DEF x, y
<1>5. CASE k \in Point
    <2>1. SeckeyVerify(k) /\ fillPublicKeyOK(n) /\ k % Order = k
        BY <1>1, <1>5, ValidIsPoint, CurveAssumption
           DEF fillPublicKeyOK, PubkeyCreateOK, Point
    <2>2. fillPublicKey(n).public_key_data = PubkeySerialize(k)
        BY <2>1, FillPublicKeyCoherent DEF PubkeyCreate
    <2>3. PrivateCkdHmac(n, i) = h
        BY <2>1, <2>2 DEF PrivateCkdHmac, h
    <2>4. h[1] \in Bytes32
        BY <2>1, <2>3, PrivateCkdHmacType
    <2>5. SeckeyVerify(h[1]) <=> h[1] \in Point
        BY <2>4, ValidIsPoint
    <2>6. privateCkdOK(n, i) <=> h[1] \in Point /\ (k + h[1]) % Order # 0
        BY <2>1, <2>3, <2>5 DEF privateCkdOK, SeckeyTweakAddOK, SeckeyVerify
    <2>7. Behind(privateCkd(n, i), FALSE) =
             [ok |-> TRUE, k |-> (k + h[1]) % Order, c |-> h[2]]
        BY <2>3 DEF Behind, privateCkd, SeckeyTweakAdd
    <2> QED
        BY <1>3, <1>5, <2>6, <2>7 DEF x, y
<1> QED
    BY <1>4, <1>5

(* publicCkd goes to the child of the secret it does not know, when the    *)
(* child is not hardened.                                                  *)
LEMMA PublicChild ==
    ASSUME NEW n \in HDNode, NEW i \in Index, ~IsHardened(i)
    PROVE  LET y == Promise!Child(Behind(n, TRUE), i)
           IN  /\ y.ok <=> publicCkdOK(n, i)
               /\ publicCkdOK(n, i) => Behind(publicCkd(n, i), TRUE) = y
<1> DEFINE b == n.public_key_data
           k == PubkeyParse(b)
           x == Behind(n, TRUE)
           y == Promise!Child(x, i)
           h == ChildHmac[<<n.chain_code, PubkeySerialize(k % Order), i>>]
<1>1. b \in Bytes33 /\ n.chain_code \in ChainCode
    BY DEF HDNode
<1>2. (x.ok <=> PubkeyParseOK(b)) /\ x.k = k /\ x.c = n.chain_code
    BY DEF Behind
<1> HIDE DEF x, k, h
<1>3. /\ y.ok <=> /\ PubkeyParseOK(b) /\ k \in Point /\ h[1] \in Point
                  /\ (k + h[1]) % Order # 0
      /\ y.ok => y = [ok |-> TRUE, k |-> (k + h[1]) % Order, c |-> h[2]]
    <2>1. h = ChildHmac[<<x.c, IF IsHardened(i) THEN <<0, x.k>>
                               ELSE PubkeySerialize(x.k % Order), i>>]
        BY <1>2 DEF h
    <2> QED
        BY <1>2, <2>1, ChildIs
<1> HIDE DEF y
<1>4. CASE ~PubkeyParseOK(b)
    BY <1>3, <1>4 DEF publicCkdOK, x, y
<1>5. CASE PubkeyParseOK(b)
    <2>1. k \in Point /\ k % Order = k /\ PubkeySerialize(k) = b
        BY <1>1, <1>5, ParsePoint, SerializeParse, CurveAssumption DEF Point, k
    <2>2. PublicCkdHmac(n, i) = h
        BY <2>1 DEF PublicCkdHmac, h
    <2>3. h[1] \in Bytes32
        BY <1>1, <2>2, ChildHmacType DEF PublicCkdHmac
    <2>4. SeckeyVerify(h[1]) <=> h[1] \in Point
        BY <2>3, ValidIsPoint
    <2>5. publicCkdOK(n, i) <=> h[1] \in Point /\ (k + h[1]) % Order # 0
        BY <1>5, <2>2, <2>4 DEF publicCkdOK, PubkeyTweakAddOK, SeckeyVerify, k
    <2>6. ASSUME publicCkdOK(n, i)
          PROVE  Behind(publicCkd(n, i), TRUE) =
                    [ok |-> TRUE, k |-> (k + h[1]) % Order, c |-> h[2]]
        <3>1. k \in Int /\ h[1] \in Int
            BY <2>1, <2>3, CurveAssumption DEF Point, Bytes32
        <3>2. PubkeyTweakAdd(k, h[1]) \in Point
            BY <2>5, <2>6, <3>1, TweakAdd
        <3>3. LET c == PubkeySerialize(PubkeyTweakAdd(k, h[1]))
              IN  PubkeyParseOK(c) /\ PubkeyParse(c) = PubkeyTweakAdd(k, h[1])
            BY <3>2, ParseSerialize
        <3>4. /\ publicCkd(n, i).public_key_data =
                    PubkeySerialize(PubkeyTweakAdd(k, h[1]))
              /\ publicCkd(n, i).chain_code = h[2]
            BY <2>2 DEF publicCkd, k
        <3> QED
            BY <3>3, <3>4 DEF Behind, PubkeyTweakAdd
    <2> QED
        BY <1>3, <1>5, <2>1, <2>5, <2>6 DEF x, y
<1> QED
    BY <1>4, <1>5

(* Where there is no secret there is none further down. *)
LEMMA NoneBelow ==
    ASSUME NEW x, NEW s \in Seq(Index), ~x.ok
    PROVE  ~Promise!Descendant(x, s).ok
<1> DEFINE l == Len(s)
<1>1. l \in Nat
    OBVIOUS
<1>2. PICK f : IsWalk(f, x, s, l)
    BY <1>1, WalkExists
<1> DEFINE T == {n \in 0 .. l : f[n].ok}
<1>3. T = {}
    <2> SUFFICES ASSUME T # {} PROVE FALSE
        OBVIOUS
    <2>1. T \subseteq Nat
        OBVIOUS
    <2>2. PICK m \in T : \A n \in T : m <= n
        BY <2>1, NatMinimum
    <2>3. f[0] = x
        BY <1>1, <1>2 DEF IsWalk
    <2>4. m # 0 /\ m - 1 \in 0 .. l /\ m - 1 \notin T
        BY <1>1, <2>2, <2>3
    <2>5. f[m] = Promise!Child(f[m - 1], s[m])
        BY <1>2, <2>4 DEF IsWalk
    <2>6. f[m].ok => f[m - 1].ok
        BY <2>5, ChildIs
    <2> QED
        BY <2>4, <2>6
<1>4. ~f[l].ok
    BY <1>1, <1>3
<1> QED
    BY <1>1, <1>2, <1>4, DescendantIs
-----------------------------------------------------------------------------
(* A call given an extended key of the other kind. *)
WrongKind(r) ==
    \/ r.call \in PrvExtendedCalls /\ r.extended.version # "xprv"
    \/ r.call \in PubExtendedCalls /\ r.extended.version # "xpub"

(* Whether a hardened index is among them.                                 *)
Marked(indices) == \E n \in 1 .. Len(indices) : IsHardened(indices[n])

(* What a call given an extended key derives, below it.                    *)
LastTwo(r) == <<change(r.path), address(r.path)>>

(* What an account call derives its account from.                          *)
CoinSecret(r) == Promise!CoinNode(r.seed, r.coin)

(* Where the loop of a call leads. *)
Goal(r) ==
    IF r.call \in AccountCalls THEN CoinSecret(r) ELSE Promise!Secret(r)

(* How far a call r is on the way to what it is promised, when it is at q  *)
(* with the node n, the indices d to derive and the fingerprint f.         *)
OnCourse(r, q, n, d, f) ==
    LET x == Behind(n, r.call \in PubExtendedCalls)
    IN  /\ q = "derive" =>
              /\ WrongKind(r) \/ Promise!Descendant(x, d) = Goal(r)
              /\ r.call \in PubExtendedCalls =>
                    (Marked(d) <=> Marked(LastTwo(r)))
              /\ r.call \in AccountCalls => n.depth + Len(d) = 2
              /\ r.call \in ExtendedCalls =>
                    r.extended.version \in {"xprv", "xpub"}
        /\ q \in {"fingerprint", "account"} =>
              x = CoinSecret(r) /\ n.depth = 2
        /\ q = "account" \/ (q = "finish" /\ r.call \in AccountCalls) =>
              f = Hash160[PubkeySerialize(CoinSecret(r).k)]
        /\ q = "finish" =>
              /\ x = Promise!Secret(r) /\ x.ok
              /\ Promise!Admissible(r)
              /\ r.call \in AccountCalls =>
                    n.depth = 3 /\ n.child_num = AccountIndex(r.account)

Course(t) ==
    /\ OnCourse(request[t], pc[t], node[t], todo[t], fingerprint[t])
    /\ pc[t] = "idle" => answer[t] \in {NoAnswer, Promise!Promised(request[t])}

(* An extended key in a caller's hands is one that a call was promised. *)
Granted(i) ==
    \E r \in Request :
        /\ r.call \in AccountCalls
        /\ Promise!Promised(r).status = "returned"
        /\ i = IssueOf(r, Promise!Promised(r).extended)

PInv == (\A t \in Thread : Course(t)) /\ (\A i \in issued : Granted(i))

(* A step of t inside its call, which nobody else sees. *)
Moved(t) ==
    \E q, n, d, f :
        /\ pc[t] # "idle" /\ q # "idle"
        /\ OnCourse(request[t], q, n, d, f)
        /\ pc' = [pc EXCEPT ![t] = q] /\ node' = [node EXCEPT ![t] = n]
        /\ todo' = [todo EXCEPT ![t] = d]
        /\ fingerprint' = [fingerprint EXCEPT ![t] = f]
        /\ UNCHANGED <<request, answer, issued>>

(* The last step of a call, with the answer it was promised. *)
Answered(t) ==
    LET r == request[t]
        a == Promise!Promised(r)
    IN  /\ pc[t] # "idle"
        /\ Leave(t, a)
        /\ issued' = issued \cup
              (IF r.call \in AccountCalls /\ a.status = "returned"
               THEN {IssueOf(r, a.extended)} ELSE {})

(* A thread that another thread's step leaves alone.                       *)
Same(u) ==
    /\ pc'[u] = pc[u] /\ request'[u] = request[u] /\ node'[u] = node[u]
    /\ todo'[u] = todo[u] /\ fingerprint'[u] = fingerprint[u]
    /\ answer'[u] = answer[u]

(* A thread that is left alone stays on its course.                        *)
LEMMA SameCourse ==
    ASSUME NEW u \in Thread, Same(u), Course(u)
    PROVE  Course(u)'
BY DEF Same, Course

(* A step inside a call keeps the invariant, and the promise does not see  *)
(* it.                                                                     *)
LEMMA MovedPInv ==
    ASSUME IInv, PInv, NEW t \in Thread, Moved(t)
    PROVE  PInv' /\ UNCHANGED <<{u \in Thread : pc[u] # "idle"}, request, answer, issued>>
<1>1. PICK q, n, d, f :
        /\ pc[t] # "idle" /\ q # "idle"
        /\ OnCourse(request[t], q, n, d, f)
        /\ pc' = [pc EXCEPT ![t] = q] /\ node' = [node EXCEPT ![t] = n]
        /\ todo' = [todo EXCEPT ![t] = d]
        /\ fingerprint' = [fingerprint EXCEPT ![t] = f]
        /\ UNCHANGED <<request, answer, issued>>
    BY DEF Moved
<1>2. /\ pc'[t] = q /\ node'[t] = n /\ todo'[t] = d /\ fingerprint'[t] = f
      /\ \A u \in Thread \ {t} : Same(u)
    BY <1>1 DEF IInv, TypeOK, Same
<1>3. Course(t)'
    BY <1>1, <1>2 DEF Course
<1>4. ASSUME NEW u \in Thread PROVE Course(u)'
    BY <1>2, <1>3, SameCourse DEF PInv
<1>5. \A i \in issued' : Granted(i)
    BY <1>1 DEF PInv
<1>6. {u \in Thread : pc'[u] # "idle"} = {u \in Thread : pc[u] # "idle"}
    BY <1>1, <1>2 DEF Same
<1> QED
    BY <1>1, <1>4, <1>5, <1>6 DEF PInv, Granted

(* An answer as promised keeps the invariant, and ends the promise's call. *)
LEMMA AnsweredPInv ==
    ASSUME IInv, PInv, NEW t \in Thread, Answered(t)
    PROVE  PInv' /\ Promise!End(t)
<1> DEFINE r == request[t]
           a == Promise!Promised(r)
<1>1. /\ pc' = [pc EXCEPT ![t] = "idle"] /\ answer' = [answer EXCEPT ![t] = a]
      /\ node' = [node EXCEPT ![t] = ZeroNode]
      /\ todo' = [todo EXCEPT ![t] = <<>>]
      /\ fingerprint' = [fingerprint EXCEPT ![t] = Hash160[Zero33]]
      /\ request' = request /\ pc[t] # "idle"
      /\ issued' = issued \cup
            (IF r.call \in AccountCalls /\ a.status = "returned"
             THEN {IssueOf(r, a.extended)} ELSE {})
    BY DEF Answered, Leave
<1> HIDE DEF a
<1>2. /\ pc'[t] = "idle" /\ answer'[t] = a /\ request'[t] = r
      /\ \A u \in Thread \ {t} : Same(u)
    BY <1>1 DEF IInv, TypeOK, Same
<1>3. Course(t)'
    BY <1>2 DEF Course, OnCourse, a
<1>4. ASSUME NEW u \in Thread PROVE Course(u)'
    BY <1>2, <1>3, SameCourse DEF PInv
<1>5. \A i \in issued' : Granted(i)
    <2>1. r \in Request
        BY DEF IInv, TypeOK
    <2> QED
        BY <1>1, <2>1 DEF PInv, Granted, a
<1>6. {u \in Thread : pc'[u] # "idle"} = {u \in Thread : pc[u] # "idle"} \ {t}
    BY <1>1, <1>2 DEF Same
<1>7. Promise!End(t)
    BY <1>1, <1>6, SameCalls DEF Promise!End, a
<1> QED
    BY <1>4, <1>5, <1>7 DEF PInv, Granted

(* A call that begins is on its course, and begins the promise's call.     *)
LEMMA BeginPInv ==
    ASSUME IInv, PInv, NEW t \in Thread, Begin(t)
    PROVE  PInv' /\ Promise!Begin(t)
<1>1. {i.extended : i \in issued} \subseteq Extended
    BY DEF IInv, TypeOK, Issue
<1>2. PICK r \in Requests({i.extended : i \in issued}) :
         /\ request' = [request EXCEPT ![t] = r]
         /\ pc' = [pc EXCEPT ![t] = IF r.call \in ExtendedCalls
                                    THEN "deserialize" ELSE "root"]
    BY DEF Begin
<1>3. r \in Request
    BY <1>1, RequestsType
<1>4. r.call \notin ExtendedCalls => r.seed \in CopySeed(r.vector)
    BY DEF Requests, OnSeed, OnExtended
<1>5. /\ pc[t] = "idle" /\ answer' = [answer EXCEPT ![t] = NoAnswer]
      /\ UNCHANGED <<node, todo, fingerprint, issued>>
    BY DEF Begin
<1>6. /\ pc'[t] \in {"deserialize", "root"} /\ request'[t] = r
      /\ \A u \in Thread \ {t} : Same(u)
    BY <1>2, <1>5 DEF IInv, TypeOK, Same
<1>7. Course(t)'
    BY <1>6 DEF Course, OnCourse
<1>8. ASSUME NEW u \in Thread PROVE Course(u)'
    BY <1>6, <1>7, SameCourse DEF PInv
<1>9. \A i \in issued' : Granted(i)
    BY <1>5 DEF PInv
<1>10. {u \in Thread : pc'[u] # "idle"} = {u \in Thread : pc[u] # "idle"} \cup {t}
    BY <1>6 DEF Same
<1>11. request' \in [Thread -> Request]
    BY <1>2, <1>3 DEF IInv, TypeOK
<1>12. Promise!Begin(t)
    BY <1>3, <1>4, <1>5, <1>6, <1>10, <1>11, SameCalls DEF Promise!Begin, Same
<1> QED
    BY <1>8, <1>9, <1>12 DEF PInv, Granted
-----------------------------------------------------------------------------
(* A hardened index is the first or one of the others.                     *)
LEMMA MarkedFirst ==
    ASSUME NEW s \in Seq(Index), s # <<>>
    PROVE  Marked(s) <=> IsHardened(Head(s)) \/ Marked(Tail(s))
<1>1. /\ Len(s) \in Nat /\ Len(s) > 0 /\ Len(Tail(s)) = Len(s) - 1
      /\ Head(s) = s[1]
      /\ \A n \in 1 .. Len(s) - 1 : Tail(s)[n] = s[n + 1]
    OBVIOUS
<1>2. ASSUME NEW n \in 1 .. Len(s), IsHardened(s[n])
      PROVE  IsHardened(Head(s)) \/ Marked(Tail(s))
    <2>1. CASE n = 1
        BY <1>1, <1>2, <2>1
    <2>2. CASE n # 1
        <3>1. n - 1 \in 1 .. Len(s) - 1 /\ Tail(s)[n - 1] = s[n]
            BY <1>1, <2>2
        <3> QED
            BY <1>1, <1>2, <3>1 DEF Marked
    <2> QED
        BY <2>1, <2>2
<1>3. ASSUME NEW n \in 1 .. Len(s) - 1, IsHardened(Tail(s)[n])
      PROVE  Marked(s)
    <2>1. n + 1 \in 1 .. Len(s) /\ IsHardened(s[n + 1])
        BY <1>1, <1>3
    <2> QED
        BY <2>1 DEF Marked
<1>4. IsHardened(Head(s)) => Marked(s)
    BY <1>1 DEF Marked
<1> QED
    BY <1>1, <1>2, <1>3, <1>4 DEF Marked

(* The last two components of a path are two indices.                      *)
LEMMA LastTwoFacts ==
    ASSUME NEW r \in Request
    PROVE  /\ LastTwo(r) \in Seq(Index) /\ LastTwo(r) # <<>>
           /\ Marked(LastTwo(r)) <=>
                 IsHardened(change(r.path)) \/ IsHardened(address(r.path))
<1>1. change(r.path) \in Index /\ address(r.path) \in Index
    BY PathFacts DEF Request
<1>2. /\ Len(LastTwo(r)) = 2 /\ LastTwo(r)[1] = change(r.path)
      /\ LastTwo(r)[2] = address(r.path)
    BY DEF LastTwo
<1> QED
    BY <1>1, <1>2 DEF LastTwo, Marked

(* The secret of each kind of call. *)
LEMMA SecretIs ==
    ASSUME NEW r
    PROVE  /\ r.call \in ExtendedCalls =>
                 Promise!Secret(r) = Promise!Descendant(
                     Promise!SecretOf(r.extended), LastTwo(r))
           /\ r.call \notin ExtendedCalls /\ r.call \in AccountCalls =>
                 Promise!Secret(r) = Promise!Child(CoinSecret(r),
                                                   AccountIndex(r.account))
           /\ r.call \notin ExtendedCalls /\ r.call \notin AccountCalls =>
                 Promise!Secret(r) = Promise!Descendant(
                     Promise!Master(r.seed), DerivationIndices(r.path))
BY SameWords, SameCalls DEF Promise!Secret, LastTwo, CoinSecret

(* A call is admissible when its key is of its kind and nothing hardened   *)
(* is to be derived from a public one.                                     *)
LEMMA AdmissibleIs ==
    ASSUME NEW r \in Request
    PROVE  Promise!Admissible(r) <=>
              /\ ~WrongKind(r)
              /\ r.call \in PubExtendedCalls => ~Marked(LastTwo(r))
BY LastTwoFacts, SameWords, SameCalls DEF Promise!Admissible, WrongKind

(* Which kinds of calls exclude and include which.                         *)
LEMMA CallKinds ==
    /\ \A c \in AccountCalls : c \notin ExtendedCalls /\ c \notin PubExtendedCalls
                               /\ c \notin PrvExtendedCalls
    /\ \A c \in PubExtendedCalls : c \in ExtendedCalls /\ c \notin PrvExtendedCalls
                                   /\ c \notin PrivateKeyCalls
    /\ \A c \in PrvExtendedCalls : c \in ExtendedCalls
    /\ \A c \in ExtendedCalls : c \in PrvExtendedCalls \/ c \in PubExtendedCalls
    /\ \A c \in AccountCalls : c \notin PrivateKeyCalls /\ c \notin PublicKeyCalls
    /\ \A c \in PublicKeyCalls : c \notin PrivateKeyCalls
BY DEF AccountCalls, ExtendedCalls, PubExtendedCalls, PrvExtendedCalls,
       PrivateKeyCalls, PublicKeyCalls

(* A call that throws, having no secret or not being admissible, answers   *)
(* as promised.                                                            *)
LEMMA ThrowAnswered ==
    ASSUME NEW t \in Thread, pc[t] # "idle", Throw(t),
           ~Promise!Secret(request[t]).ok \/ ~Promise!Admissible(request[t])
    PROVE  Answered(t)
<1>1. Promise!Promised(request[t]) = Thrown
    BY SameCalls DEF Promise!Promised
<1>2. Thrown.status = "thrown"
    BY DEF Thrown, NoAnswer
<1> QED
    BY <1>1, <1>2 DEF Throw, Return, Answered

(* HDNode::fromSeed puts a call on its course from the master key.         *)
LEMMA RootMoved ==
    ASSUME IInv, NEW t \in Thread, Root(t)
    PROVE  Moved(t)
<1> DEFINE r == request[t]
           n == fromSeed(r.seed)
           d == SeedIndices(r)
           q == IF d = <<>> THEN "finish" ELSE "derive"
           x == Behind(n, r.call \in PubExtendedCalls)
<1>1. r \in Request /\ r.call \notin ExtendedCalls /\ pc[t] = "root"
    BY DEF IInv, TypeOK, Root, Locals, CallOf
<1>2. /\ pc' = [pc EXCEPT ![t] = q] /\ node' = [node EXCEPT ![t] = n]
      /\ todo' = [todo EXCEPT ![t] = d]
      /\ fingerprint' = [fingerprint EXCEPT ![t] = fingerprint[t]]
      /\ UNCHANGED <<request, answer, issued>>
    BY DEF IInv, TypeOK, Root
<1>3. r.call \notin PubExtendedCalls /\ r.call \notin PrvExtendedCalls
    BY <1>1, CallKinds
<1>4. x = Promise!Master(r.seed) /\ x.ok /\ n.depth = 0
    BY <1>3 DEF Behind, fromSeed, ZeroNode, Promise!Master
<1>5. Promise!Admissible(r)
    BY <1>1, <1>3, AdmissibleIs DEF WrongKind
<1>6. CASE r.call \in AccountCalls
    <2>1. d = <<Harden(Purpose), Harden(r.coin)>>
        BY <1>6 DEF SeedIndices
    <2>2. Promise!Descendant(x, d) = Goal(r)
        BY <1>4, <1>6, <2>1, SameWords DEF Goal, CoinSecret, Promise!CoinNode
    <2>3. Len(d) = 2 /\ d # <<>>
        BY <2>1
    <2>4. OnCourse(r, q, n, d, fingerprint[t])
        BY <1>1, <1>3, <1>4, <2>2, <2>3 DEF OnCourse
    <2> QED
        BY <1>1, <1>2, <2>4 DEF Moved
<1>7. CASE r.call \notin AccountCalls
    <2>1. d = DerivationIndices(r.path)
        BY <1>7 DEF SeedIndices
    <2>2. Promise!Descendant(x, d) = Promise!Secret(r)
        BY <1>1, <1>4, <1>7, <2>1, SecretIs
    <2>3. d = <<>> => x = Promise!Secret(r)
        BY <2>2, DescendantNone
    <2> HIDE DEF d, x, n
    <2>4. OnCourse(r, q, n, d, fingerprint[t])
        <3>1. x = Behind(n, r.call \in PubExtendedCalls)
            BY DEF x
        <3> QED
            BY <1>1, <1>3, <1>4, <1>5, <1>7, <2>2, <2>3, <3>1 DEF OnCourse, Goal
    <2> QED
        BY <1>1, <1>2, <2>4 DEF Moved
<1> QED
    BY <1>6, <1>7

(* An extended key puts a call on its course from what it encodes, or is   *)
(* refused as promised.                                                    *)
LEMMA DeserializeMoved ==
    ASSUME IInv, NEW t \in Thread, Deserialize(t)
    PROVE  Moved(t) \/ Answered(t)
<1> DEFINE r == request[t]
           e == r.extended
           n == NodeDeserialize(e)
           d == LastTwo(r)
           x == Behind(n, r.call \in PubExtendedCalls)
<1>1. r \in Request /\ r.call \in ExtendedCalls /\ pc[t] = "deserialize"
    BY DEF IInv, TypeOK, Deserialize, Locals, CallOf
<1>2. Promise!Secret(r) = Promise!Descendant(Promise!SecretOf(e), d)
    BY <1>1, SecretIs
<1>3. d \in Seq(Index)
    BY <1>1, LastTwoFacts
<1>4. CASE ~NodeDeserializeOK(e)
    <2>1. ~Promise!SecretOf(e).ok
        BY <1>4 DEF NodeDeserializeOK, Promise!SecretOf
    <2>2. ~Promise!Secret(r).ok
        BY <1>2, <1>3, <2>1, NoneBelow
    <2>3. Throw(t)
        BY <1>4 DEF Deserialize
    <2> QED
        BY <1>1, <2>2, <2>3, ThrowAnswered
<1>5. CASE NodeDeserializeOK(e)
    <2>1. /\ pc' = [pc EXCEPT ![t] = "derive"]
          /\ node' = [node EXCEPT ![t] = n]
          /\ todo' = [todo EXCEPT ![t] = d]
          /\ fingerprint' = [fingerprint EXCEPT ![t] = fingerprint[t]]
          /\ UNCHANGED <<request, answer, issued>>
        BY <1>5 DEF IInv, TypeOK, Deserialize, LastTwo
    <2>2. e.version \in {"xprv", "xpub"}
        BY <1>5 DEF NodeDeserializeOK
    <2>3. ASSUME ~WrongKind(r) PROVE x = Promise!SecretOf(e)
        <3>1. CASE r.call \in PubExtendedCalls
            <4>1. e.version = "xpub"
                BY <2>3, <3>1 DEF WrongKind
            <4>2. x = [ok |-> PubkeyParseOK(e.key), k |-> PubkeyParse(e.key),
                       c |-> e.chain_code]
                BY <3>1, <4>1 DEF Behind, NodeDeserialize
            <4>3. Promise!SecretOf(e) =
                     [ok |-> PubkeyParseOK(e.key), k |-> PubkeyParse(e.key),
                      c |-> e.chain_code]
                <5>1. PubkeyParseOK(e.key) \in BOOLEAN
                    BY DEF PubkeyParseOK
                <5>2. (\/ e.version = "xprv" /\ e.key[1] = 0
                       \/ e.version = "xpub" /\ Promise!PubkeyParseOK(e.key))
                         = PubkeyParseOK(e.key)
                    BY <4>1, <5>1, SameWords
                <5> QED
                    BY <4>1, <5>2, SameWords DEF Promise!SecretOf
            <4> QED
                BY <4>2, <4>3
        <3>2. CASE r.call \notin PubExtendedCalls
            <4>1. e.version = "xprv"
                BY <1>1, <2>3, <3>2, CallKinds DEF WrongKind
            <4>2. e.key[1] = 0
                BY <1>5, <4>1 DEF NodeDeserializeOK
            <4>3. x = [ok |-> TRUE, k |-> e.key[2], c |-> e.chain_code]
                BY <3>2, <4>1 DEF Behind, NodeDeserialize
            <4>4. Promise!SecretOf(e) =
                     [ok |-> TRUE, k |-> e.key[2], c |-> e.chain_code]
                BY <4>1, <4>2 DEF Promise!SecretOf
            <4> QED
                BY <4>3, <4>4
        <3> QED
            BY <3>1, <3>2
    <2>4. r.call \notin AccountCalls
        BY <1>1, CallKinds
    <2> HIDE DEF d, n
    <2>5. OnCourse(r, "derive", n, d, fingerprint[t])
        <3>1. WrongKind(r) \/ Promise!Descendant(x, d) = Goal(r)
            BY <1>2, <2>3, <2>4 DEF Goal
        <3> QED
            BY <2>2, <2>4, <3>1 DEF OnCourse, d
    <2> QED
        BY <1>1, <2>1, <2>5 DEF Moved
<1> QED
    BY <1>4, <1>5

(* An account call that has no coin secret has no secret at all. *)
LEMMA NoSecretWithoutGoal ==
    ASSUME NEW r, ~Goal(r).ok
    PROVE  ~Promise!Secret(r).ok
<1>1. CASE r.call \in AccountCalls
    BY <1>1, CallKinds, SecretIs, ChildNeeds DEF Goal
<1> QED
    BY <1>1 DEF Goal

(* One derivation goes to the child of the secret, and fails when there is *)
(* none or the call may not go there.                                      *)
LEMMA DeriveChild ==
    ASSUME IInv, NEW t \in Thread, pc[t] = "derive", ~WrongKind(request[t]),
           NEW i \in Index, ~(FromPublic(t) /\ IsHardened(i))
    PROVE  LET public == request[t].call \in PubExtendedCalls
               y == Promise!Child(Behind(node[t], public), i)
           IN  /\ y.ok <=> ckdOK(t, i)
               /\ ckdOK(t, i) => Behind(ckd(t, i), public) = y
<1> DEFINE public == request[t].call \in PubExtendedCalls
<1>0. public <=> FromPublic(t)
    BY DEF FromPublic, CallOf
<1>1. node[t] \in HDNode /\ Locals(t)
    BY DEF IInv, TypeOK
<1>2. CASE FromPublic(t)
    <2>1. \A m : Behind(m, public) = Behind(m, TRUE)
        BY <1>0, <1>2, BehindIs
    <2>2. ckd(t, i) = publicCkd(node[t], i)
             /\ (ckdOK(t, i) <=> publicCkdOK(node[t], i))
        BY <1>2 DEF ckdOK, ckd
    <2> QED
        BY <1>1, <1>2, <2>1, <2>2, PublicChild
<1>3. CASE ~FromPublic(t)
    <2>1. ~WatchOnly(t)
        BY <1>3, CallKinds DEF WatchOnly, WrongKind, FromPublic, CallOf
    <2>2. Coherent(node[t])
        BY <1>1, <2>1 DEF Locals
    <2>3. \A m : Behind(m, public) = Behind(m, FALSE)
        BY <1>0, <1>3, BehindIs
    <2>4. ckd(t, i) = privateCkd(node[t], i)
             /\ (ckdOK(t, i) <=> privateCkdOK(node[t], i))
        BY <1>3 DEF ckdOK, ckd
    <2> QED
        BY <1>1, <2>2, <2>3, <2>4, PrivateChild
<1> QED
    BY <1>2, <1>3

(* One turn of the loop of get_node stays on the course; a derivation that *)
(* fails, or is not allowed, was promised to throw.                        *)
LEMMA DeriveMoved ==
    ASSUME IInv, PInv, NEW t \in Thread, Derive(t)
    PROVE  Moved(t) \/ Answered(t)
<1> DEFINE r == request[t]
           d == todo[t]
           i == Head(d)
           rest == Tail(d)
           public == r.call \in PubExtendedCalls
           x == Behind(node[t], public)
           y == Promise!Child(x, i)
<1>1. /\ pc[t] = "derive" /\ node[t] \in HDNode /\ Locals(t)
      /\ r \in Request /\ d \in Seq(Index) /\ d # <<>>
    BY DEF IInv, TypeOK, Derive
<1>2. i \in Index /\ rest \in Seq(Index)
    BY <1>1
<1>3. OnCourse(r, "derive", node[t], d, fingerprint[t])
    BY <1>1 DEF PInv, Course
<1>4. Marked(d) <=> IsHardened(i) \/ Marked(rest)
    BY <1>1, MarkedFirst
<1>5. public <=> FromPublic(t)
    BY DEF FromPublic, CallOf
<1> HIDE DEF i, rest
<1>6. ~WrongKind(r) => Promise!Descendant(y, rest) = Goal(r)
    BY <1>1, <1>3, DescendantFirst DEF OnCourse, i, rest
<1>7. CASE ~ckdOK(t, i)
    <2>1. Throw(t)
        BY <1>7 DEF Derive, i
    <2>2. CASE WrongKind(r)
        BY <1>1, <2>1, <2>2, AdmissibleIs, ThrowAnswered
    <2>3. CASE public /\ IsHardened(i)
        <3>1. Marked(LastTwo(r))
            BY <1>3, <1>4, <2>3 DEF OnCourse
        <3> QED
            BY <1>1, <2>1, <2>3, <3>1, AdmissibleIs, ThrowAnswered
    <2>4. CASE ~WrongKind(r) /\ ~(public /\ IsHardened(i))
        <3>1. ~y.ok
            BY <1>1, <1>2, <1>5, <1>7, <2>4, DeriveChild
        <3>2. ~Goal(r).ok
            BY <1>2, <1>6, <2>4, <3>1, NoneBelow
        <3> QED
            BY <1>1, <2>1, <3>2, NoSecretWithoutGoal, ThrowAnswered
    <2> QED
        BY <2>2, <2>3, <2>4
<1>8. CASE ckdOK(t, i)
    <2> DEFINE n == ckd(t, i)
               q == IF rest # <<>> THEN "derive"
                    ELSE IF r.call \in AccountCalls THEN "fingerprint"
                    ELSE "finish"
    <2>1. /\ pc' = [pc EXCEPT ![t] = q] /\ node' = [node EXCEPT ![t] = n]
          /\ todo' = [todo EXCEPT ![t] = rest]
          /\ fingerprint' = [fingerprint EXCEPT ![t] = fingerprint[t]]
          /\ UNCHANGED <<request, answer, issued>>
        BY <1>8 DEF IInv, TypeOK, Derive, i, rest, CallOf
    <2>2. ~(public /\ IsHardened(i))
        BY <1>5, <1>8 DEF ckdOK, publicCkdOK
    <2>3. ~WrongKind(r)
        <3>1. CASE public
            <4>1. HasPublicKey(node[t])
                BY <1>5, <1>8, <3>1
                   DEF ckdOK, publicCkdOK, PubkeyParseOK, HasPublicKey
            <4>2. WatchOnly(t)
                BY <1>1, <1>5, <3>1, <4>1 DEF Locals
            <4> QED
                BY <3>1, <4>2, CallKinds DEF WatchOnly, WrongKind
        <3>2. CASE ~public
            <4>1. SeckeyVerify(node[t].private_key_data)
                BY <1>1, <1>2, <1>5, <1>8, <3>2, PrivateCkdType DEF ckdOK
            <4>2. ~WatchOnly(t)
                BY <1>1, <4>1 DEF Locals, SeckeyVerify
            <4>3. r.call \in ExtendedCalls => r.extended.version = "xprv"
                BY <1>3, <4>2 DEF OnCourse, WatchOnly, CallOf
            <4> QED
                BY <3>2, <4>3, CallKinds DEF WrongKind
        <3> QED
            BY <3>1, <3>2
    <2>4. Behind(n, public) = y
        BY <1>1, <1>2, <1>5, <1>8, <2>2, <2>3, DeriveChild
    <2>5. public => ~Marked(d) \/ rest # <<>>
        <3>1. ~Marked(<<>>)
            BY DEF Marked
        <3> QED
            BY <1>4, <2>2, <3>1
    <2>6. n.depth = node[t].depth + 1
        BY DEF ckd, privateCkd, publicCkd
    <2>7. /\ Len(d) \in Nat /\ Len(rest) = Len(d) - 1
          /\ rest = <<>> => Len(rest) = 0
          /\ node[t].depth \in Nat
        <3>1. node[t].depth \in Nat
            BY <1>1 DEF HDNode
        <3>2. Len(d) \in Nat /\ Len(Tail(d)) = Len(d) - 1
            BY <1>1
        <3>3. rest = <<>> => Len(rest) = 0
            OBVIOUS
        <3> QED
            BY <3>1, <3>2, <3>3 DEF rest
    <2> HIDE DEF n
    <2>8. CASE rest # <<>>
        <3>1. OnCourse(r, "derive", n, rest, fingerprint[t])
            BY <1>3, <1>4, <1>6, <2>2, <2>3, <2>4, <2>6, <2>7 DEF OnCourse
        <3> QED
            BY <1>1, <2>1, <2>8, <3>1 DEF Moved
    <2>9. CASE rest = <<>>
        <3>1. y = Goal(r)
            BY <1>6, <2>3, <2>9, DescendantNone
        <3>2. CASE r.call \in AccountCalls
            <4>1. n.depth = 2
                <5>1. node[t].depth + Len(d) = 2
                    BY <1>3, <3>2 DEF OnCourse
                <5>2. Len(d) = 1
                    BY <2>7, <2>9
                <5> QED
                    BY <2>6, <2>7, <5>1, <5>2
            <4>2. OnCourse(r, "fingerprint", n, rest, fingerprint[t])
                BY <2>4, <3>1, <3>2, <4>1 DEF OnCourse, Goal
            <4> QED
                BY <1>1, <2>1, <2>9, <3>2, <4>2 DEF Moved
        <3>3. CASE r.call \notin AccountCalls
            <4>1. Behind(n, public).ok
                BY <1>1, <1>2, <1>5, <1>8, PublicCkdType
                   DEF Behind, ckdOK, ckd, n
            <4>2. public => ~Marked(LastTwo(r))
                BY <1>3, <2>5, <2>9 DEF OnCourse
            <4>3. Promise!Admissible(r)
                BY <1>1, <2>3, <4>2, AdmissibleIs
            <4>4. OnCourse(r, "finish", n, rest, fingerprint[t])
                BY <2>4, <3>1, <3>3, <4>1, <4>3 DEF OnCourse, Goal
            <4> QED
                BY <1>1, <2>1, <2>9, <3>3, <4>4 DEF Moved
        <3> QED
            BY <3>2, <3>3
    <2> QED
        BY <2>8, <2>9
<1> QED
    BY <1>7, <1>8

(* What an account call is promised, when it has a secret. *)
LEMMA AccountPromised ==
    ASSUME NEW r \in Request, r.call \in AccountCalls, Promise!Secret(r).ok
    PROVE  /\ Promise!Promised(r) = ReturnedExtended(
                 Promise!PromisedExtended(r, Promise!Secret(r)))
           /\ Promise!Promised(r).status = "returned"
           /\ Promise!Promised(r).extended =
                 Promise!PromisedExtended(r, Promise!Secret(r))
<1>1. Promise!Admissible(r)
    BY CallKinds, AdmissibleIs DEF WrongKind
<1>2. Promise!Promised(r) = ReturnedExtended(
         Promise!PromisedExtended(r, Promise!Secret(r)))
    BY <1>1, SameCalls DEF Promise!Promised
<1> QED
    BY <1>2 DEF ReturnedExtended, NoAnswer

(* The fingerprint of the coin's key is taken on the way to the account.   *)
LEMMA FingerprintMoved ==
    ASSUME IInv, PInv, NEW t \in Thread, FingerprintParent(t)
    PROVE  Moved(t) \/ Answered(t)
<1> DEFINE r == request[t]
           n == node[t]
           k == n.private_key_data
<1>1. /\ pc[t] = "fingerprint" /\ n \in HDNode /\ r \in Request
      /\ r.call \in AccountCalls /\ Coherent(n)
    BY CallKinds
       DEF IInv, TypeOK, FingerprintParent, Locals, CallOf, WatchOnly
<1>2. ~(r.call \in PubExtendedCalls) /\ r.call \notin ExtendedCalls
    BY <1>1, CallKinds
<1>3. Behind(n, FALSE) = CoinSecret(r) /\ n.depth = 2
    <2>1. OnCourse(r, "fingerprint", n, todo[t], fingerprint[t])
        BY <1>1 DEF PInv, Course
    <2>2. Behind(n, r.call \in PubExtendedCalls) = Behind(n, FALSE)
        BY <1>2 DEF Behind
    <2> QED
        BY <2>1, <2>2 DEF OnCourse
<1>4. CoinSecret(r).k = k
    BY <1>3 DEF Behind
<1>5. CASE ~fillPublicKeyOK(n)
    <2>1. k \notin Point
        BY <1>1, <1>5, ValidIsPoint DEF fillPublicKeyOK, PubkeyCreateOK, HDNode
    <2>2. ~Promise!Secret(r).ok
        BY <1>1, <1>2, <1>4, <2>1, SecretIs, ChildNeeds
    <2>3. Throw(t)
        BY <1>5 DEF FingerprintParent
    <2> QED
        BY <1>1, <2>2, <2>3, ThrowAnswered
<1>6. CASE fillPublicKeyOK(n)
    <2> DEFINE m == fillPublicKey(n)
               f == NodeFingerprint(n)
    <2>1. /\ pc' = [pc EXCEPT ![t] = "account"]
          /\ node' = [node EXCEPT ![t] = m]
          /\ todo' = [todo EXCEPT ![t] = todo[t]]
          /\ fingerprint' = [fingerprint EXCEPT ![t] = f]
          /\ UNCHANGED <<request, answer, issued>>
        BY <1>6 DEF IInv, TypeOK, FingerprintParent
    <2>2. Behind(m, FALSE) = Behind(n, FALSE) /\ m.depth = 2
        BY <1>1, <1>3, <1>6, FillPublicKeyType DEF Behind
    <2>3. f = Hash160[PubkeySerialize(CoinSecret(r).k)]
        BY <1>1, <1>4, <1>6, FillPublicKeyCoherent
           DEF NodeFingerprint, PubkeyCreate
    <2>4. Behind(m, r.call \in PubExtendedCalls) = Behind(m, FALSE)
        BY <1>2 DEF Behind
    <2> HIDE DEF m, f
    <2>5. OnCourse(r, "account", m, todo[t], f)
        BY <1>3, <2>2, <2>3, <2>4 DEF OnCourse
    <2> QED
        BY <1>1, <2>1, <2>5 DEF Moved
<1> QED
    BY <1>5, <1>6

(* The account's key is derived from the coin's, or was promised not to    *)
(* be.                                                                     *)
LEMMA AccountMoved ==
    ASSUME IInv, PInv, NEW t \in Thread, DeriveAccount(t)
    PROVE  Moved(t) \/ Answered(t)
<1> DEFINE r == request[t]
           n == node[t]
           i == AccountIndex(r.account)
           y == Promise!Child(Behind(n, FALSE), i)
<1>1. /\ pc[t] = "account" /\ n \in HDNode /\ r \in Request
      /\ r.call \in AccountCalls /\ Coherent(n)
    BY CallKinds DEF IInv, TypeOK, DeriveAccount, Locals, CallOf, WatchOnly
<1>2. ~(r.call \in PubExtendedCalls) /\ r.call \notin ExtendedCalls
    BY <1>1, CallKinds
<1>3. OnCourse(r, "account", n, todo[t], fingerprint[t])
    BY <1>1 DEF PInv, Course
<1>4. \A m : Behind(m, r.call \in PubExtendedCalls) = Behind(m, FALSE)
    BY <1>2 DEF Behind
<1>5. Behind(n, FALSE) = CoinSecret(r) /\ n.depth = 2
    BY <1>3, <1>4 DEF OnCourse
<1>6. i \in Index
    BY <1>1, IndexFacts DEF Request
<1>7. y = Promise!Secret(r)
    BY <1>1, <1>2, <1>5, SecretIs
<1>8. CASE ~privateCkdOK(n, i)
    <2>1. ~y.ok
        BY <1>1, <1>6, <1>8, PrivateChild
    <2>2. Throw(t)
        BY <1>8 DEF DeriveAccount
    <2> QED
        BY <1>1, <1>7, <2>1, <2>2, ThrowAnswered
<1>9. CASE privateCkdOK(n, i)
    <2> DEFINE m == privateCkd(n, i)
    <2>1. /\ pc' = [pc EXCEPT ![t] = "finish"]
          /\ node' = [node EXCEPT ![t] = m]
          /\ todo' = [todo EXCEPT ![t] = todo[t]]
          /\ fingerprint' = [fingerprint EXCEPT ![t] = fingerprint[t]]
          /\ UNCHANGED <<request, answer, issued>>
        BY <1>9 DEF IInv, TypeOK, DeriveAccount
    <2>2. Behind(m, FALSE) = y /\ y.ok
        BY <1>1, <1>6, <1>9, PrivateChild
    <2>3. m.depth = 3 /\ m.child_num = i
        BY <1>5 DEF privateCkd
    <2>4. Promise!Admissible(r)
        BY <1>1, CallKinds, AdmissibleIs DEF WrongKind
    <2> HIDE DEF m, y
    <2>5. OnCourse(r, "finish", m, todo[t], fingerprint[t])
        BY <1>3, <1>4, <1>7, <2>2, <2>3, <2>4 DEF OnCourse
    <2> QED
        BY <1>1, <2>1, <2>5 DEF Moved
<1> QED
    BY <1>8, <1>9
-----------------------------------------------------------------------------
(* What is known of a call that is about to answer. *)
LEMMA AtFinish ==
    ASSUME IInv, PInv, NEW t \in Thread, pc[t] = "finish"
    PROVE  LET r == request[t]
               n == node[t]
               x == Promise!Secret(r)
           IN  /\ r \in Request /\ n \in HDNode /\ x.ok /\ Promise!Admissible(r)
               /\ ~FromPublic(t) => /\ Coherent(n) /\ x.c = n.chain_code
                                    /\ x.k = n.private_key_data
               /\ FromPublic(t) =>
                     /\ PubkeyParseOK(n.public_key_data)
                     /\ HasPublicKey(n) /\ x.k \in Point
                     /\ n.public_key_data = PubkeySerialize(x.k)
               /\ r.call \in AccountCalls =>
                     /\ n.depth = 3 /\ n.child_num = AccountIndex(r.account)
                     /\ fingerprint[t] = Hash160[PubkeySerialize(CoinSecret(r).k)]
                     /\ x.k \in Point
<1> DEFINE r == request[t]
           n == node[t]
           x == Promise!Secret(r)
           public == r.call \in PubExtendedCalls
<1>1. n \in HDNode /\ r \in Request /\ Locals(t)
    BY DEF IInv, TypeOK
<1>2. OnCourse(r, "finish", n, todo[t], fingerprint[t])
    BY DEF PInv, Course
<1>3. x = Behind(n, public) /\ x.ok /\ Promise!Admissible(r)
    BY <1>2 DEF OnCourse
<1>4. public <=> FromPublic(t)
    BY DEF FromPublic, CallOf
<1>5. ~WrongKind(r)
    BY <1>1, <1>3, AdmissibleIs
<1>6. ASSUME ~FromPublic(t)
      PROVE  Coherent(n) /\ x.c = n.chain_code /\ x.k = n.private_key_data
    <2>1. ~WatchOnly(t)
        BY <1>5, <1>6, CallKinds DEF WatchOnly, WrongKind, FromPublic, CallOf
    <2> QED
        BY <1>1, <1>3, <1>4, <1>6, <2>1 DEF Locals, Behind
<1>7. ASSUME FromPublic(t)
      PROVE  /\ PubkeyParseOK(n.public_key_data) /\ HasPublicKey(n)
             /\ x.k \in Point /\ n.public_key_data = PubkeySerialize(x.k)
    <2>1. PubkeyParseOK(n.public_key_data) /\ x.k = PubkeyParse(n.public_key_data)
        BY <1>3, <1>4, <1>7 DEF Behind
    <2>2. n.public_key_data \in Bytes33
        BY <1>1 DEF HDNode
    <2> QED
        BY <2>1, <2>2, ParsePoint, SerializeParse DEF PubkeyParseOK, HasPublicKey
<1>8. ASSUME r.call \in AccountCalls PROVE x.k \in Point
    BY <1>3, <1>8, CallKinds, SecretIs, ChildNeeds
<1>9. ASSUME r.call \in AccountCalls
      PROVE  /\ n.depth = 3 /\ n.child_num = AccountIndex(r.account)
             /\ fingerprint[t] = Hash160[PubkeySerialize(CoinSecret(r).k)]
    BY <1>2, <1>9 DEF OnCourse
<1> QED
    BY <1>1, <1>3, <1>6, <1>7, <1>8, <1>9

(* getPrivateExtended and getPublicExtended answer as promised.            *)
LEMMA FinishExtendedAnswered ==
    ASSUME IInv, PInv, NEW t \in Thread,
           FinishPrivateExtended(t) \/ FinishPublicExtended(t)
    PROVE  Answered(t)
<1> DEFINE r == request[t]
           n == node[t]
           x == Promise!Secret(r)
           e == Promise!PromisedExtended(r, x)
<1>1. pc[t] = "finish" /\ r.call \in AccountCalls /\ ~FromPublic(t)
    BY DEF FinishPrivateExtended, FinishPublicExtended, CallOf, AccountCalls,
           FromPublic, PubExtendedCalls
<1>2. /\ r \in Request /\ n \in HDNode /\ x.ok /\ Coherent(n)
      /\ x.c = n.chain_code /\ x.k = n.private_key_data /\ x.k \in Point
      /\ n.depth = 3 /\ n.child_num = AccountIndex(r.account)
      /\ fingerprint[t] = Hash160[PubkeySerialize(CoinSecret(r).k)]
    BY <1>1, AtFinish
<1>3. /\ Promise!Promised(r) = ReturnedExtended(e)
      /\ Promise!Promised(r).status = "returned"
      /\ Promise!Promised(r).extended = e
    BY <1>1, <1>2, AccountPromised
<1>4. \A k : Promise!Public(k) = PubkeySerialize(k)
    BY DEF Promise!Public, PubkeySerialize
<1>5. e = [version |-> IF r.call = "getPublicExtended" THEN "xpub" ELSE "xprv",
           depth |-> 3, fingerprint |-> fingerprint[t],
           child_num |-> n.child_num, chain_code |-> n.chain_code,
           key |-> IF r.call = "getPublicExtended" THEN PubkeySerialize(x.k)
                   ELSE <<0, x.k>>]
    BY <1>2, <1>4, SameWords
       DEF Promise!PromisedExtended, Promise!AccountDepth, Promise!PrivateKey,
           CoinSecret
<1>6. fillPublicKeyOK(n)
    <2>1. SeckeyVerify(n.private_key_data)
        BY <1>2, PointIsBytes, ValidIsPoint
    <2> QED
        BY <2>1 DEF fillPublicKeyOK, PubkeyCreateOK
<1>7. fillPublicKey(n).public_key_data = PubkeySerialize(x.k)
    BY <1>2, <1>6, FillPublicKeyCoherent DEF PubkeyCreate
<1>8. /\ fillPublicKey(n).depth = 3
      /\ fillPublicKey(n).child_num = n.child_num
      /\ fillPublicKey(n).chain_code = n.chain_code
    BY <1>2, <1>6, FillPublicKeyType
<1> HIDE DEF e, x
<1>9. CASE FinishPrivateExtended(t)
    <2>1. NodeSerialize(n, fingerprint[t], FALSE) = e
        BY <1>2, <1>5, <1>9 DEF NodeSerialize, FinishPrivateExtended, CallOf
    <2> QED
        BY <1>1, <1>3, <1>9, <2>1
           DEF FinishPrivateExtended, Issues, Answered
<1>10. CASE FinishPublicExtended(t)
    <2>1. NodeSerialize(fillPublicKey(n), fingerprint[t], TRUE) = e
        BY <1>5, <1>7, <1>8, <1>10
           DEF NodeSerialize, FinishPublicExtended, CallOf
    <2> QED
        BY <1>1, <1>3, <1>6, <1>10, <2>1
           DEF FinishPublicExtended, Issues, Answered
<1> QED
    BY <1>9, <1>10

(* A call that returns the key it was promised. *)
LEMMA ReturnAnswered ==
    ASSUME NEW t \in Thread, pc[t] # "idle", NEW k, Return(t, ReturnedKey(k)),
           CallOf(t) \notin AccountCalls,
           Promise!Promised(request[t]) = ReturnedKey(k)
    PROVE  Answered(t)
BY DEF Return, Answered, CallOf

(* getPrivateKey and getPrivateKeyFromExtended answer as promised.         *)
LEMMA FinishPrivateKeyAnswered ==
    ASSUME IInv, PInv, NEW t \in Thread, FinishPrivateKey(t)
    PROVE  Answered(t)
<1> DEFINE r == request[t]
           x == Promise!Secret(r)
<1>1. /\ pc[t] = "finish" /\ r.call \in PrivateKeyCalls
      /\ ~FromPublic(t) /\ r.call \notin AccountCalls
    BY CallKinds DEF FinishPrivateKey, CallOf, FromPublic
<1>2. /\ x.ok /\ Promise!Admissible(r) /\ x.k = node[t].private_key_data
    BY <1>1, AtFinish
<1>3. Promise!Promised(r) = ReturnedKey(PrivateKey(x.k))
    BY <1>1, <1>2, SameCalls
       DEF Promise!Promised, Promise!PromisedKey, Promise!PrivateKey, PrivateKey
<1> QED
    BY <1>1, <1>2, <1>3, ReturnAnswered DEF FinishPrivateKey, CallOf

(* The public key a call has at its end is that of its secret. *)
LEMMA PublicKeyAtFinish ==
    ASSUME IInv, PInv, NEW t \in Thread, pc[t] = "finish"
    PROVE  LET x == Promise!Secret(request[t])
           IN  /\ PublicKeyOK(t) <=> x.k \in Point
               /\ x.k \in Point =>
                     /\ PublicKeyOf(t) = PubkeySerialize(x.k)
                     /\ PubkeyParseOK(PublicKeyOf(t))
                     /\ PubkeyParse(PublicKeyOf(t)) = x.k
<1> DEFINE n == node[t]
           x == Promise!Secret(request[t])
<1>1. n \in HDNode
    BY DEF IInv, TypeOK
<1>2. CASE FromPublic(t)
    <2>1. /\ PubkeyParseOK(n.public_key_data) /\ HasPublicKey(n)
          /\ x.k \in Point /\ n.public_key_data = PubkeySerialize(x.k)
        BY <1>2, AtFinish
    <2>2. PublicKeyOK(t) /\ PublicKeyOf(t) = n.public_key_data
        BY <1>2, <2>1
           DEF PublicKeyOK, PublicKeyOf, fillPublicKeyOK, fillPublicKey
    <2> QED
        BY <2>1, <2>2, ParseSerialize
<1>3. CASE ~FromPublic(t)
    <2>1. x.k = n.private_key_data
        BY <1>3, AtFinish
    <2>2. SeckeyVerify(n.private_key_data) <=> n.private_key_data \in Point
        BY <1>1, ValidIsPoint DEF HDNode
    <2>3. PublicKeyOf(t) = PubkeySerialize(x.k)
        BY <1>3, <2>1 DEF PublicKeyOf, PubkeyCreate
    <2> QED
        BY <1>3, <2>1, <2>2, <2>3, ParseSerialize DEF PublicKeyOK, PubkeyCreateOK
<1> QED
    BY <1>2, <1>3

(* The public keys and addresses, and their failures, are as promised.     *)
LEMMA FinishPublicAnswered ==
    ASSUME IInv, PInv, NEW t \in Thread, FinishPublicKey(t) \/ FinishAddress(t)
    PROVE  Answered(t)
<1> DEFINE r == request[t]
           x == Promise!Secret(r)
<1>1. /\ pc[t] = "finish" /\ r.call \notin PrivateKeyCalls
      /\ r.call \notin AccountCalls
    BY CallKinds DEF FinishPublicKey, FinishAddress, CallOf, PublicKeyCalls,
                     AccountCalls
<1>2. x.ok /\ Promise!Admissible(r)
    BY <1>1, AtFinish
<1>3. /\ PublicKeyOK(t) <=> x.k \in Point
      /\ x.k \in Point => /\ PublicKeyOf(t) = PubkeySerialize(x.k)
                          /\ PubkeyParseOK(PublicKeyOf(t))
                          /\ PubkeyParse(PublicKeyOf(t)) = x.k
    BY <1>1, PublicKeyAtFinish
<1>4. CASE x.k \notin Point
    <2>1. Promise!Promised(r) = Thrown
        BY <1>1, <1>2, <1>4, SameWords, SameCalls DEF Promise!Promised
    <2>2. Throw(t)
        BY <1>3, <1>4 DEF FinishPublicKey, FinishAddress
    <2> QED
        BY <1>1, <2>1, <2>2 DEF Throw, Return, Answered
<1>5. CASE x.k \in Point
    <2>1. Promise!Promised(r) = ReturnedKey(Promise!PromisedKey(r, x.k))
        BY <1>1, <1>2, <1>5, SameWords, SameCalls DEF Promise!Promised
    <2>2. CASE FinishPublicKey(t)
        <3>1. r.call \in PublicKeyCalls
            BY <2>2 DEF FinishPublicKey, CallOf
        <3>2. Promise!PromisedKey(r, x.k) = PubkeySerialize(x.k)
            BY <1>1, <3>1, SameCalls
               DEF Promise!PromisedKey, Promise!Public, PubkeySerialize
        <3>3. Return(t, ReturnedKey(PubkeySerialize(x.k)))
            BY <1>3, <1>5, <2>2 DEF FinishPublicKey
        <3> QED
            BY <1>1, <2>1, <3>2, <3>3, ReturnAnswered DEF CallOf
    <2>3. CASE FinishAddress(t)
        <3>1. r.call \notin PublicKeyCalls
            BY <2>3 DEF FinishAddress, CallOf
        <3>2. Promise!PromisedKey(r, x.k) = <<65, Keccak256[x.k]>>
            BY <1>1, <3>1, SameCalls DEF Promise!PromisedKey
        <3>3. Return(t, ReturnedKey(<<65, Keccak256[x.k]>>))
            BY <1>3, <1>5, <2>3 DEF FinishAddress, TronAddress
        <3> QED
            BY <1>1, <2>1, <3>2, <3>3, ReturnAnswered DEF CallOf
    <2> QED
        BY <2>2, <2>3
<1> QED
    BY <1>4, <1>5
-----------------------------------------------------------------------------
(* At first every call is on its course, and nothing is promised.          *)
LEMMA InitPInv == Init => PInv /\ Promise!Init
<1> SUFFICES ASSUME Init PROVE PInv /\ Promise!Init
    OBVIOUS
<1>1. ASSUME NEW t \in Thread PROVE Course(t)
    BY <1>1 DEF Init, Course, OnCourse
<1>2. Promise!Init
    BY SameCalls DEF Init, Promise!Init
<1> QED
    BY <1>1, <1>2 DEF Init, PInv

(* Every step of the wallet is one of the promise, or none that shows. *)
LEMMA NextPInv ==
    IInv /\ PInv /\ [Next]_vars => PInv' /\ [Promise!Next]_(Promise!promiseVars)
<1> SUFFICES ASSUME IInv, PInv, [Next]_vars
             PROVE  PInv' /\ [Promise!Next]_(Promise!promiseVars)
    OBVIOUS
<1>1. ASSUME UNCHANGED <<callVars, issued>>
      PROVE  PInv' /\ UNCHANGED Promise!promiseVars
    <2>1. UNCHANGED <<pc, request, node, todo, fingerprint, answer, issued>>
        BY <1>1 DEF callVars
    <2>2. ASSUME NEW u \in Thread PROVE Course(u)'
        BY <2>1, SameCourse DEF PInv, Same
    <2> QED
        BY <2>1, <2>2 DEF PInv, Granted, Promise!promiseVars
<1>2. CASE UNCHANGED vars
    BY <1>1, <1>2 DEF vars
<1>3. ASSUME NEW t \in Thread, Begin(t) \/ Step(t)
      PROVE  PInv' /\ [Promise!Next]_(Promise!promiseVars)
    <2>1. CASE Begin(t)
        BY <2>1, BeginPInv DEF Promise!Next
    <2>2. CASE EnterInitialiser(t) \/ LeaveInitialiser(t)
        BY <1>1, <2>2 DEF EnterInitialiser, LeaveInitialiser
    <2>3. CASE Root(t) \/ Deserialize(t) \/ Derive(t) \/ FingerprintParent(t)
               \/ DeriveAccount(t) \/ Finish(t)
        <3>1. Moved(t) \/ Answered(t)
            BY <2>3, RootMoved, DeserializeMoved, DeriveMoved,
               FingerprintMoved, AccountMoved, FinishExtendedAnswered,
               FinishPrivateKeyAnswered, FinishPublicAnswered DEF Finish
        <3>2. CASE Moved(t)
            BY <3>2, MovedPInv DEF Promise!promiseVars
        <3>3. CASE Answered(t)
            BY <3>3, AnsweredPInv DEF Promise!Next
        <3> QED
            BY <3>1, <3>2, <3>3
    <2> QED
        BY <1>3, <2>1, <2>2, <2>3 DEF Step
<1> QED
    BY <1>2, <1>3 DEF Next

(* HDWallet implements WalletPromise: what a call of hd_wallet.cpp         *)
(* answers, or that it throws, is decided by its arguments alone, whatever *)
(* other calls do meanwhile, and it is one descent from the master key of  *)
(* the seed that either was given or is behind the extended key it was     *)
(* given.                                                                  *)
THEOREM WalletKeepsPromise == Spec => KeepsPromise
<1>1. Init => PInv /\ Promise!Init
    BY InitPInv
<1>2. IInv /\ PInv /\ [Next]_vars
         => PInv' /\ [Promise!Next]_(Promise!promiseVars)
    BY NextPInv
<1> QED
    BY <1>1, <1>2, IInvariant, PTL DEF Spec, KeepsPromise, Promise!Spec
-----------------------------------------------------------------------------
(* Every call is on its course at every time, and what was answered is     *)
(* what was promised.                                                      *)
THEOREM CourseInvariant == Spec => []PInv
<1>1. Init => PInv
    BY InitPInv
<1>2. IInv /\ PInv /\ [Next]_vars => PInv'
    BY NextPInv
<1> QED
    BY <1>1, <1>2, IInvariant, PTL DEF Spec

(* A walk of five steps is one of two, one more, and the last two. *)
LEMMA FiveSteps ==
    ASSUME NEW x, NEW a \in Index, NEW b \in Index, NEW c \in Index,
           NEW d \in Index, NEW e \in Index
    PROVE  Promise!Descendant(x, <<a, b, c, d, e>>) =
              Promise!Descendant(Promise!Child(
                  Promise!Descendant(x, <<a, b>>), c), <<d, e>>)
<1>1. /\ <<a, b>> \in Seq(Index) /\ Head(<<a, b>>) = a /\ Tail(<<a, b>>) = <<b>>
      /\ <<b>> \in Seq(Index) /\ Head(<<b>>) = b /\ Tail(<<b>>) = <<>>
      /\ <<a, b>> # <<>> /\ <<b>> # <<>>
    OBVIOUS
<1>2. Promise!Descendant(x, <<a, b>>) = Promise!Child(Promise!Child(x, a), b)
    BY <1>1, DescendantFirst, DescendantNone
<1>3. /\ <<a, b, c, d, e>> \in Seq(Index) /\ Head(<<a, b, c, d, e>>) = a
      /\ Tail(<<a, b, c, d, e>>) = <<b, c, d, e>>
      /\ <<a, b, c, d, e>> # <<>>
    OBVIOUS
<1>4. /\ <<b, c, d, e>> \in Seq(Index) /\ Head(<<b, c, d, e>>) = b
      /\ Tail(<<b, c, d, e>>) = <<c, d, e>> /\ <<b, c, d, e>> # <<>>
    OBVIOUS
<1>5. /\ <<c, d, e>> \in Seq(Index) /\ Head(<<c, d, e>>) = c
      /\ Tail(<<c, d, e>>) = <<d, e>> /\ <<c, d, e>> # <<>>
    OBVIOUS
<1>6. Promise!Descendant(x, <<a, b, c, d, e>>) =
         Promise!Descendant(Promise!Child(x, a), <<b, c, d, e>>)
    BY <1>3, DescendantFirst
<1>7. \A y : Promise!Descendant(y, <<b, c, d, e>>) =
                Promise!Descendant(Promise!Child(y, b), <<c, d, e>>)
    BY <1>4, DescendantFirst
<1>8. \A y : Promise!Descendant(y, <<c, d, e>>) =
                Promise!Descendant(Promise!Child(y, c), <<d, e>>)
    BY <1>5, DescendantFirst
<1> QED
    BY <1>2, <1>6, <1>7, <1>8

(* What is derived, and not the master key itself, is a valid key. *)
LEMMA DescendantValid ==
    ASSUME NEW x, NEW s \in Seq(Index), s # <<>>, Promise!Descendant(x, s).ok
    PROVE  Promise!Descendant(x, s).k \in Point
<1> DEFINE l == Len(s)
<1>1. l \in Nat /\ l # 0
    OBVIOUS
<1>2. PICK f : IsWalk(f, x, s, l)
    BY <1>1, WalkExists
<1>3. f[l] = Promise!Child(f[l - 1], s[l])
    <2>1. l \in 0 .. l
        BY <1>1
    <2> HIDE DEF l
    <2> QED
        BY <1>1, <1>2, <2>1 DEF IsWalk
<1>4. Promise!Descendant(x, s) = f[l]
    BY <1>1, <1>2, DescendantIs
<1> QED
    BY <1>3, <1>4, ChildNeeds

(* What an extended key that was handed out is about. *)
LEMMA GrantedFacts ==
    ASSUME NEW i, NEW r \in Request, r.call \in AccountCalls,
           Promise!Promised(r).status = "returned",
           i = IssueOf(r, Promise!Promised(r).extended)
    PROVE  LET x == Promise!Child(Promise!CoinNode(i.seed, i.coin),
                                  AccountIndex(i.account))
               public == r.call = "getPublicExtended"
           IN  /\ i.seed \in Seed /\ i.coin \in Index /\ i.account \in Index
               /\ x.ok /\ x.k \in Point
               /\ i.extended =
                     [version |-> IF public THEN "xpub" ELSE "xprv",
                      depth |-> 3,
                      fingerprint |-> Hash160[PubkeySerialize(
                          Promise!CoinNode(i.seed, i.coin).k)],
                      child_num |-> AccountIndex(i.account),
                      chain_code |-> x.c,
                      key |-> IF public THEN PubkeySerialize(x.k)
                              ELSE <<0, x.k>>]
               /\ Promise!SecretOf(i.extended) = x
<1> DEFINE x == Promise!Child(Promise!CoinNode(i.seed, i.coin),
                              AccountIndex(i.account))
           public == r.call = "getPublicExtended"
           e == i.extended
<1>1. /\ i.seed = r.seed /\ i.coin = r.coin /\ i.account = r.account
      /\ e = Promise!Promised(r).extended
    BY DEF IssueOf
<1>2. i.seed \in Seed /\ i.coin \in Index /\ i.account \in Index
    BY <1>1 DEF Request
<1>3. x = Promise!Secret(r)
    BY <1>1, CallKinds, SecretIs DEF CoinSecret
<1>4. x.ok
    <2>1. Thrown.status = "thrown"
        BY DEF Thrown, NoAnswer
    <2> QED
        BY <1>3, <2>1, SameCalls DEF Promise!Promised
<1>5. x.k \in Point /\ x = [ok |-> TRUE, k |-> x.k, c |-> x.c]
    <2>1. x.k \in Point
        BY <1>4, ChildNeeds
    <2> QED
        BY <1>4, <2>1, ChildNeeds
<1> HIDE DEF x
<1>6. e = Promise!PromisedExtended(r, x)
    BY <1>1, <1>3, <1>4, AccountPromised
<1>7. \A k : Promise!Public(k) = PubkeySerialize(k)
    BY DEF Promise!Public, PubkeySerialize
<1>8. e = [version |-> IF public THEN "xpub" ELSE "xprv", depth |-> 3,
           fingerprint |-> Hash160[PubkeySerialize(
               Promise!CoinNode(i.seed, i.coin).k)],
           child_num |-> AccountIndex(i.account), chain_code |-> x.c,
           key |-> IF public THEN PubkeySerialize(x.k) ELSE <<0, x.k>>]
    BY <1>1, <1>6, <1>7, SameWords
       DEF Promise!PromisedExtended, Promise!AccountDepth, Promise!PrivateKey
<1>9. Promise!SecretOf(e) = x
    <2>1. CASE public
        <3>1. e.version = "xpub" /\ e.key = PubkeySerialize(x.k)
                 /\ e.chain_code = x.c
            BY <1>8, <2>1
        <3>2. PubkeyParseOK(e.key) /\ PubkeyParse(e.key) = x.k
            BY <1>5, <3>1, ParseSerialize
        <3>3. Promise!SecretOf(e) = [ok |-> TRUE, k |-> x.k, c |-> x.c]
            BY <3>1, <3>2, SameWords DEF Promise!SecretOf
        <3> QED
            BY <1>5, <3>3
    <2>2. CASE ~public
        <3>1. e.version = "xprv" /\ e.key = <<0, x.k>> /\ e.chain_code = x.c
            BY <1>8, <2>2
        <3>2. e.key[1] = 0 /\ e.key[2] = x.k
            BY <3>1
        <3>3. Promise!SecretOf(e) = [ok |-> TRUE, k |-> x.k, c |-> x.c]
            BY <3>1, <3>2 DEF Promise!SecretOf
        <3> QED
            BY <1>5, <3>3
    <2> QED
        BY <2>1, <2>2
<1> QED
    BY <1>2, <1>4, <1>5, <1>8, <1>9 DEF x

(* The secret of a call is the one at the end of any of its origins. *)
LEMMA OriginSecret ==
    ASSUME IInv, PInv, NEW t \in Thread, NEW o \in Origins(t)
    PROVE  /\ CallOf(t) \notin AccountCalls
           /\ Promise!Secret(request[t]) =
                 Promise!Descendant(Promise!Master(o.seed), o.indices)
<1> DEFINE r == request[t]
<1>1. r \in Request
    BY DEF IInv, TypeOK
<1>2. CASE r.call \notin ExtendedCalls
    <2>1. r.call \notin AccountCalls
        BY <1>2 DEF Origins
    <2>2. o = [seed |-> r.seed, indices |-> DerivationIndices(r.path)]
        BY <1>2, <2>1 DEF Origins
    <2> QED
        BY <1>2, <2>1, <2>2, SecretIs DEF CallOf
<1>3. CASE r.call \in ExtendedCalls
    <2>1. PICK i \in issued :
             /\ i.extended = r.extended
             /\ o = [seed |-> i.seed,
                     indices |-> <<Harden(Purpose), Harden(i.coin),
                                   AccountIndex(i.account),
                                   change(r.path), address(r.path)>>]
        BY <1>3 DEF Origins
    <2>2. PICK q \in Request :
             /\ q.call \in AccountCalls
             /\ Promise!Promised(q).status = "returned"
             /\ i = IssueOf(q, Promise!Promised(q).extended)
        BY DEF PInv, Granted
    <2> DEFINE x == Promise!Child(Promise!CoinNode(i.seed, i.coin),
                                  AccountIndex(i.account))
    <2>3. /\ i.seed \in Seed /\ i.coin \in Index /\ i.account \in Index
          /\ Promise!SecretOf(r.extended) = x
        BY <2>1, <2>2, GrantedFacts
    <2>4. Promise!Secret(r) = Promise!Descendant(x, LastTwo(r))
        BY <1>3, <2>3, SecretIs
    <2>5. /\ Harden(Purpose) \in Index /\ Harden(i.coin) \in Index
          /\ AccountIndex(i.account) \in Index
          /\ change(r.path) \in Index /\ address(r.path) \in Index
        BY <1>1, <2>3, ApiAssumption, IndexFacts, PathFacts DEF Request
    <2>6. x = Promise!Child(Promise!Descendant(Promise!Master(i.seed),
                                <<Harden(Purpose), Harden(i.coin)>>),
                            AccountIndex(i.account))
        BY SameWords DEF Promise!CoinNode
    <2>7. Promise!Descendant(Promise!Master(i.seed), o.indices) =
             Promise!Descendant(x, LastTwo(r))
        BY <2>1, <2>5, <2>6, FiveSteps DEF LastTwo
    <2> QED
        BY <1>3, <2>1, <2>4, <2>7, CallKinds DEF CallOf
<1> QED
    BY <1>2, <1>3

(* The three forms of a valid key are forms of one. *)
LEMMA KeyForms ==
    ASSUME NEW k, NEW a \in {<<0, k>>, PubkeySerialize(k), <<65, Keccak256[k]>>},
           NEW b \in {<<0, k>>, PubkeySerialize(k), <<65, Keccak256[k]>>},
           k \in Point \/ (a = <<0, k>> /\ b = <<0, k>>)
    PROVE  SameKey(a, b)
<1>1. CASE k \notin Point
    BY <1>1 DEF SameKey
<1>2. CASE k \in Point
    <2> DEFINE p == PubkeySerialize(k)
               w == <<65, Keccak256[k]>>
    <2>1. /\ p[1] \in {2, 3} /\ PubkeyParse(p) = k
        BY <1>2, ParseSerialize DEF PubkeySerialize
    <2>2. TronAddress(p) = w
        BY <2>1 DEF TronAddress
    <2>3. AsPublic(<<0, k>>) = p /\ AsPublic(p) = p
        BY <2>1 DEF AsPublic, PubkeyCreate
    <2>4. AsAddress(<<0, k>>) = w /\ AsAddress(p) = w /\ AsAddress(w) = w
        BY <2>1, <2>2, <2>3 DEF AsAddress
    <2>5. w[1] = 65 /\ <<0, k>>[1] = 0
        OBVIOUS
    <2> HIDE DEF p, w
    <2>6. a \in {<<0, k>>, p, w} /\ b \in {<<0, k>>, p, w}
        BY DEF p, w
    <2> QED
        BY <2>1, <2>3, <2>4, <2>5, <2>6 DEF SameKey
<1> QED
    BY <1>1, <1>2

(* A key that was returned is a form of the secret's.                      *)
LEMMA ReturnedFacts ==
    ASSUME PInv, NEW t \in Thread, Returned(t), CallOf(t) \notin AccountCalls
    PROVE  LET k == Promise!Secret(request[t]).k
           IN  /\ answer[t].key \in {<<0, k>>, PubkeySerialize(k),
                                     <<65, Keccak256[k]>>}
               /\ k \in Point \/ answer[t].key = <<0, k>>
<1> DEFINE r == request[t]
           k == Promise!Secret(r).k
<1>1. answer[t] = Promise!Promised(r)
    BY DEF PInv, Course, Returned, NoAnswer
<1>2. Thrown.status = "thrown" /\ \A l : ReturnedKey(l).key = l
    BY DEF Thrown, ReturnedKey, NoAnswer
<1>3. /\ answer[t] = ReturnedKey(Promise!PromisedKey(r, k))
      /\ r.call \in PrivateKeyCalls \/ k \in Point
    BY <1>1, <1>2, SameWords, SameCalls DEF Promise!Promised, Returned, CallOf
<1>4. answer[t].key = Promise!PromisedKey(r, k)
    BY <1>2, <1>3
<1>5. \A l : Promise!Public(l) = PubkeySerialize(l)
    BY DEF Promise!Public, PubkeySerialize
<1>6. r.call \in PrivateKeyCalls => answer[t].key = <<0, k>>
    BY <1>4, SameCalls DEF Promise!PromisedKey, Promise!PrivateKey
<1> QED
    BY <1>3, <1>4, <1>5, <1>6, SameCalls
       DEF Promise!PromisedKey

(* Two calls that were promised the same secret return the same key.       *)
LEMMA RoutesFromCourse == IInv /\ PInv => RoutesAgree
<1> SUFFICES ASSUME IInv, PInv, NEW t \in Thread, NEW u \in Thread,
                    Returned(t), Returned(u), SameOrigin(t, u)
             PROVE  SameKey(answer[t].key, answer[u].key)
    BY DEF RoutesAgree
<1>1. PICK o : o \in Origins(t) /\ o \in Origins(u)
    BY DEF SameOrigin
<1>2. /\ CallOf(t) \notin AccountCalls /\ CallOf(u) \notin AccountCalls
      /\ Promise!Secret(request[t]) = Promise!Secret(request[u])
    BY <1>1, OriginSecret
<1> DEFINE k == Promise!Secret(request[t]).k
           keys == {<<0, k>>, PubkeySerialize(k), <<65, Keccak256[k]>>}
<1>3. /\ answer[t].key \in keys /\ answer[u].key \in keys
      /\ k \in Point \/ (answer[t].key = <<0, k>> /\ answer[u].key = <<0, k>>)
    BY <1>2, ReturnedFacts
<1> HIDE DEF k
<1> QED
    BY <1>3, KeyForms

(* A call without fault of its arguments throws exactly when it has no     *)
(* secret.                                                                 *)
LEMMA ProperFacts ==
    ASSUME IInv, PInv, NEW t \in Thread, Ended(t), Proper(t),
           CallOf(t) \notin AccountCalls
    PROVE  answer[t].status =
              IF Promise!Secret(request[t]).ok THEN "returned" ELSE "thrown"
<1> DEFINE r == request[t]
           x == Promise!Secret(r)
<1>1. r \in Request
    BY DEF IInv, TypeOK
<1>2. answer[t] = Promise!Promised(r)
    BY DEF PInv, Course, Ended, NoAnswer
<1>3. Promise!Admissible(r)
    BY SameWords, SameCalls DEF Promise!Admissible, Proper
<1>4. ASSUME x.ok PROVE x.k \in Point
    <2>1. CASE r.call \in ExtendedCalls
        BY <1>1, <1>4, <2>1, SecretIs, LastTwoFacts, DescendantValid
    <2>2. CASE r.call \notin ExtendedCalls
        <3>1. r.path \in Path \cup {<<>>} /\ r.path # <<>>
            BY <1>1, <2>2 DEF Request, Proper
        <3>2. DerivationIndices(r.path) \in Seq(Index)
                 /\ DerivationIndices(r.path) # <<>>
            BY <3>1, PathFacts
        <3> QED
            BY <1>4, <2>2, <3>2, SecretIs, DescendantValid DEF CallOf
    <2> QED
        BY <2>1, <2>2
<1>5. /\ Thrown.status = "thrown"
      /\ \A l : ReturnedKey(l).status = "returned"
    BY DEF Thrown, ReturnedKey, NoAnswer
<1> QED
    BY <1>2, <1>3, <1>4, <1>5, SameWords, SameCalls
       DEF Promise!Promised, CallOf

(* Two calls that were promised the same secret return both or neither.    *)
LEMMA ParityFromCourse == IInv /\ PInv => FailureParity
<1> SUFFICES ASSUME IInv, PInv, NEW t \in Thread, NEW u \in Thread,
                    Ended(t), Ended(u), SameOrigin(t, u), Proper(t), Proper(u)
             PROVE  answer[t].status = answer[u].status
    BY DEF FailureParity
<1>1. PICK o : o \in Origins(t) /\ o \in Origins(u)
    BY DEF SameOrigin
<1>2. /\ CallOf(t) \notin AccountCalls /\ CallOf(u) \notin AccountCalls
      /\ Promise!Secret(request[t]) = Promise!Secret(request[u])
    BY <1>1, OriginSecret
<1> QED
    BY <1>2, ProperFacts

(* Two extended keys of one account were promised about one secret.        *)
LEMMA PairFromCourse == PInv => ExportsPair
<1> SUFFICES ASSUME PInv, NEW i \in issued, NEW j \in issued,
                    i.seed = j.seed, i.coin = j.coin, i.account = j.account,
                    i.extended.version = "xpub", j.extended.version = "xprv"
             PROVE  i.extended = [j.extended EXCEPT
                        !.version = "xpub",
                        !.key = PubkeySerialize(PubkeyCreate(j.extended.key[2]))]
    BY DEF ExportsPair
<1>1. PICK q \in Request :
         /\ q.call \in AccountCalls
         /\ Promise!Promised(q).status = "returned"
         /\ i = IssueOf(q, Promise!Promised(q).extended)
    BY DEF PInv, Granted
<1>2. PICK r \in Request :
         /\ r.call \in AccountCalls
         /\ Promise!Promised(r).status = "returned"
         /\ j = IssueOf(r, Promise!Promised(r).extended)
    BY DEF PInv, Granted
<1> DEFINE x == Promise!Child(Promise!CoinNode(i.seed, i.coin),
                              AccountIndex(i.account))
           f == Hash160[PubkeySerialize(Promise!CoinNode(i.seed, i.coin).k)]
           n == AccountIndex(i.account)
           Form(v, key) == [version |-> v, depth |-> 3, fingerprint |-> f,
                            child_num |-> n, chain_code |-> x.c, key |-> key]
<1> HIDE DEF x, f, n
<1>3. i.extended = Form(IF q.call = "getPublicExtended" THEN "xpub" ELSE "xprv",
                        IF q.call = "getPublicExtended"
                        THEN PubkeySerialize(x.k) ELSE <<0, x.k>>)
    BY <1>1, GrantedFacts DEF x, f, n
<1>4. j.extended = Form(IF r.call = "getPublicExtended" THEN "xpub" ELSE "xprv",
                        IF r.call = "getPublicExtended"
                        THEN PubkeySerialize(x.k) ELSE <<0, x.k>>)
    BY <1>2, GrantedFacts DEF x, f, n
<1>5. q.call = "getPublicExtended" /\ r.call # "getPublicExtended"
    BY <1>3, <1>4
<1>6. /\ i.extended = Form("xpub", PubkeySerialize(x.k))
      /\ j.extended = Form("xprv", <<0, x.k>>)
    BY <1>3, <1>4, <1>5
<1>7. j.extended.key[2] = x.k
    BY <1>6
<1> DEFINE k == PubkeySerialize(x.k)
           whole == j.extended
           half == [whole EXCEPT !.version = "xpub"]
<1> HIDE DEF k
<1>8. half = Form("xpub", <<0, x.k>>)
    <2> HIDE DEF whole
    <2>1. whole = Form("xprv", <<0, x.k>>)
        BY <1>6 DEF whole
    <2> QED
        BY <2>1
<1> HIDE DEF half
<1>9. [half EXCEPT !.key = k] = Form("xpub", k)
    BY <1>8
<1>10. [whole EXCEPT !.version = "xpub", !.key = k] = [half EXCEPT !.key = k]
    BY DEF half
<1> QED
    BY <1>6, <1>7, <1>9, <1>10 DEF PubkeyCreate, k

(* Keys that calls return by different routes, from the seed or from an    *)
(* extended key of the account, private or public, are forms of one key.   *)
THEOREM AllRoutesAgree == Spec => []RoutesAgree
BY RoutesFromCourse, IInvariant, CourseInvariant, PTL

(* A derivation that fails by one route fails by all: a child that does    *)
(* not exist for getPrivateKey does not exist for a public derivation      *)
(* either.                                                                 *)
THEOREM RoutesFailTogether == Spec => []FailureParity
BY ParityFromCourse, IInvariant, CourseInvariant, PTL

(* The extended public key of an account is the public half of its         *)
(* extended private key: same depth, fingerprint, index and chain code,    *)
(* and its point.                                                          *)
THEOREM ExportsAreHalves == Spec => []ExportsPair
BY PairFromCourse, CourseInvariant, PTL
=============================================================================
