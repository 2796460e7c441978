-------------------------------- MODULE Hmac --------------------------------
(***************************************************************************)
(* CHMAC_SHA512 and secp256k1_hmac_sha256: two hash objects keyed with two *)
(* masks of one key, which is hashed when it is longer than a block.  Then *)
(* the nonces of secp256k1's signatures, which are made with it.           *)
(***************************************************************************)
EXTENDS BlockHash

CONSTANTS
    MaxKey, MaxBytes,   \* bounds: the lengths of keys and messages
    Unit,       \* the values of 16 bytes are 0 .. Unit - 1
    Order       \* of the group: what messages are reduced by

NonceAssumption == Unit \in Nat \ {0} /\ Order \in 1 .. Unit * Unit

VARIABLES
    direct,         \* which of the two implementations it is
    keylen,         \* of the key, whose bytes are numbered
    inner, outer,   \* the two objects
    written,        \* how many bytes the caller has written
    digest          \* what Finalize wrote, <<>> before

KeyBytes(n) == [i \in 1 .. n |-> <<"key", i>>]
DataBytes(from, n) == [i \in 1 .. n |-> <<"data", from + i>>]

(* A byte and the constants it is combined with by exclusive or. *)
Plain(bytes) == [i \in DOMAIN bytes |-> <<bytes[i], {}>>]
Xor(bytes, mask) ==
    [i \in DOMAIN bytes |-> <<bytes[i][1], SymDiff(bytes[i][2], mask)>>]

(* rkey: the key, or its hash if it is too long, and zeros. *)
BlockKey(n, isDirect) ==
    LET hash == Finalize(Write(NewHash, KeyBytes(n), isDirect), isDirect).s
    IN  Fill([i \in 1 .. Block |-> Zero], 0,
             IF n > Block THEN DigestBytes(hash) ELSE KeyBytes(n))

(* The array is masked in place, so the second mask takes off the first. *)
Masks(rkey) == [outer |-> Xor(rkey, {92}),
                inner |-> Xor(Xor(rkey, {92}), SymDiff({92}, {54}))]

Init ==
    /\ direct \in BOOLEAN /\ keylen \in 0 .. MaxKey
    /\ LET masks == Masks(Plain(BlockKey(keylen, direct)))
       IN  /\ outer = Write(NewHash, masks.outer, direct)
           /\ inner = Write(NewHash, masks.inner, direct)
    /\ written = 0 /\ digest = <<>>

WriteBytes ==
    /\ digest = <<>>
    /\ \E n \in 1 .. MaxBytes - written :
          /\ inner' = Write(inner, DataBytes(written, n), direct)
          /\ written' = written + n
    /\ UNCHANGED <<direct, keylen, outer, digest>>

FinalizeHmac ==
    /\ digest = <<>>
    /\ inner' = Finalize(inner, direct)
    /\ outer' = Finalize(Write(outer, DigestBytes(inner'.s), direct), direct)
    /\ digest' = outer'.s
    /\ UNCHANGED <<direct, keylen, written>>

Next == WriteBytes \/ FinalizeHmac
-----------------------------------------------------------------------------
(* The HMAC of RFC 2104, of a whole key and a whole message. *)
HmacOf(key, message) ==
    LET k == IF Len(key) > Block THEN DigestBytes(Padded(key)) ELSE key
        full == Plain(k \o [i \in 1 .. Block - Len(k) |-> Zero])
    IN  Padded(Xor(full, {92}) \o
               DigestBytes(Padded(Xor(full, {54}) \o message)))

(* Whatever the key's length and however the message is cut into writes,   *)
(* the digest is the HMAC of the standard: the in-place masks come out     *)
(* right, keys of more than a block are hashed, and both objects absorb    *)
(* what belongs to them.                                                   *)
IsHmac ==
    digest # <<>> =>
        digest = HmacOf(KeyBytes(keylen), DataBytes(0, written))

(* The two masked keys fill a block each, for ever: what is written later  *)
(* neither changes nor shares a block with the key.                        *)
KeysApart ==
    /\ inner.s[1] # outer.s[1]
    /\ \A i \in 1 .. Block :
          /\ outer.s[1][i][2] = {92} /\ inner.s[1][i][2] = {54}
          /\ outer.s[1][i][1] = inner.s[1][i][1] /\ outer.s[1][i][1] # Junk
-----------------------------------------------------------------------------
(* nonce_function_rfc6979 and the generator it seeds with the key, the     *)
(* reduced message and what else the caller gives, anew for every attempt. *)
(* HMAC is free here, a term of its key and its message; a number of 32    *)
(* bytes is two units.                                                     *)
Scalar32 == 0 .. Unit * Unit - 1
Halves(n) == <<n \div Unit, n % Unit>>
NoPointer == -1     \* a pointer to nothing

Argument ==
    [key32 : Scalar32, msg32 : Scalar32, data : Scalar32 \cup {NoPointer},
     algo16 : (0 .. Unit - 1) \cup {NoPointer}]
-----------------------------------------------------------------------------
Mac(k, message) == <<"hmac", k, message>>
Octet(n) == <<n>>

(* K is replaced by a hash of V, a byte and the seed, V by one of itself. *)
Update(rng, byte, seed) ==
    LET k == Mac(rng.k, <<rng.v>> \o Octet(byte) \o seed)
    IN  [rng EXCEPT !.k = k, !.v = Mac(k, <<rng.v>>)]

Initialize(seed) ==
    LET start == [k |-> <<"00">>, v |-> <<"01">>, retry |-> FALSE]
    IN  Update(Update(start, 0, seed), 1, seed)

(* 32 bytes, the new V; after the first time K is replaced before. *)
Generate(rng) ==
    LET r == IF rng.retry THEN Update(rng, 0, <<>>) ELSE rng
    IN  [r EXCEPT !.v = Mac(r.k, <<r.v>>), !.retry = TRUE]

(* The generator's seed: fields of fixed lengths, the last two optional. *)
KeyData(a) ==
    Halves(a.key32) \o Halves(a.msg32 % Order)
    \o (IF a.data = NoPointer THEN <<>> ELSE Halves(a.data))
    \o (IF a.algo16 = NoPointer THEN <<>> ELSE <<a.algo16>>)

(* counter numbers are generated and dropped before the one returned. *)
NonceFunction(a, counter) ==
    LET rng[i \in 0 .. counter + 1] ==
            IF i = 0 THEN Initialize(KeyData(a)) ELSE Generate(rng[i - 1])
    IN  rng[counter + 1].v

(* No two signatures share a nonce unless they are one signature: of equal *)
(* keys, of messages equal modulo the order, with equal data and algorithm *)
(* or equally without, and at the same attempt.  "Because the arguments    *)
(* have distinct fixed lengths it is not possible for different argument   *)
(* mixtures to emulate each other".                                        *)
NoncesFresh(args, count, maxCount) ==
    \A a \in Argument, c \in 0 .. maxCount :
        NonceFunction(a, c) = NonceFunction(args, count) =>
            /\ c = count
            /\ [a EXCEPT !.msg32 = 0] = [args EXCEPT !.msg32 = 0]
            /\ a.msg32 % Order = args.msg32 % Order
=============================================================================
