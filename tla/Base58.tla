------------------------------- MODULE Base58 -------------------------------
(***************************************************************************)
(* The two conversions of base58.cpp between a string of bytes and a text, *)
(* and their variants with a checksum.  The bases are parameters: what the *)
(* code says with the literals 138 / 100 and 733 / 1000 is that a buffer   *)
(* is long enough, which holds of any two bases in about that proportion   *)
(* (9 and 5 are).  A character is its value in mapBase58, where all that   *)
(* are not digits share one value; white space and NUL are told apart.     *)
(*                                                                         *)
(* Then the bytes of an extended key: node_serialize and node_deserialize  *)
(* of hd_wallet.cpp, between a node and what Base58Check carries.          *)
(* DecodeBase58Check bounds the payload from above only, and the reader    *)
(* never asks how long it is: behind a shorter one it reads whatever       *)
(* memory holds.  WalletApi works with the fields; this module shows what  *)
(* strings the fields stand for.                                           *)
(***************************************************************************)
EXTENDS Integers, SequencesExt, FiniteSetsExt

CONSTANTS
    Base,           \* 256: the values of a byte
    Radix,          \* 58: the digits
    CheckLen,       \* 4: the bytes of the hash that are appended
    Hash(_),        \* those bytes of the hash of a string of bytes
    MaxInt,         \* the largest int
    WordLen,        \* 4: the bytes of a uint32_t
    ChainLen, KeyLen,   \* 32: the bytes of a chain code, of a private key
    XPub, XPrv      \* 0x0488B21E and 0x0488ADE4

VARIABLE payload    \* what DecodeBase58Check returned

Base58Assumption ==
    /\ Base \in Nat \ {0, 1} /\ Radix \in Nat \ {0, 1}
    /\ CheckLen \in Nat /\ MaxInt \in Nat
    /\ {WordLen, ChainLen, KeyLen} \subseteq Nat \ {0}
    /\ XPub \in 0 .. Base ^ WordLen - 1 /\ XPrv \in 0 .. Base ^ WordLen - 1
    /\ XPub # XPrv

Byte == 0 .. Base - 1
Digit == 0 .. Radix - 1     \* 0 is the character '1'
Invalid == -1
Space == -2
Nul == -3
Char == Digit \cup {Invalid, Space, Nul}
-----------------------------------------------------------------------------
(* What a loop works on: the buffer's cells, least significant first, how  *)
(* many of them are in use, whether no assertion has failed, and whether   *)
(* the function has not returned early.                                    *)
Buffer(size) ==
    [cells |-> [i \in 1 .. size |-> 0], length |-> 0, fits |-> TRUE,
     ok |-> TRUE]

(* The loop ends when nothing is carried past the cells in use. *)
Rests(b, i, carry) == carry = 0 /\ i >= b.length

(* The loop "b = b * factor + digit", which ends at rest or at the end of  *)
(* the buffer, and the assertion after it.                                 *)
Carries(b, digit, factor, base) ==
    LET carry[i \in 0 .. Len(b.cells)] ==
            IF i = 0 THEN digit
            ELSE (carry[i - 1] + factor * b.cells[i]) \div base
    IN  carry

StopsAt(b, carry) ==
    Min({i \in DOMAIN carry : i = Len(b.cells) \/ Rests(b, i, carry[i])})

Carried(b, carry, stop, factor, base) ==
    [b EXCEPT !.cells = [i \in DOMAIN @ |->
                            IF i > stop THEN @[i]
                            ELSE (carry[i - 1] + factor * @[i]) % base],
              !.length = stop,
              !.fits = @ /\ carry[stop] = 0]

CarriedAlong(b, carry, factor, base) ==
    Carried(b, carry, StopsAt(b, carry), factor, base)

MulAdd(b, digit, factor, base) ==
    CarriedAlong(b, Carries(b, digit, factor, base), factor, base)

(* The number of elements at the head of s that are equal to e. *)
Leading(s, e) ==
    Min({i \in 0 .. Len(s) : i = Len(s) \/ s[i + 1] # e})

Drop(s, n) == SubSeq(s, n + 1, Len(s))
Zeros(n) == [i \in 1 .. n |-> 0]

(* The cells in use, most significant first. *)
Used(b) == Reverse(SubSeq(b.cells, 1, b.length))
-----------------------------------------------------------------------------
EncodedSize(n) == (n * 138) \div 100 + 1

WithoutZeros(s) == Drop(s, Leading(s, 0))

Written(zeroes, b58) ==
    [text |-> Zeros(zeroes) \o WithoutZeros(Used(b58)), fits |-> b58.fits]

EncodeRest(zeroes, rest) ==
    Written(zeroes, FoldLeft(LAMBDA b, c : MulAdd(b, c, Base, Radix),
                             Buffer(EncodedSize(Len(rest))), rest))

(* EncodeBase58, with the outcome of its assertion. *)
Encode(input) == EncodeRest(Leading(input, 0), WithoutZeros(input))

DecodedSize(n) == (n * 733) \div 1000 + 1

Rejected == [ok |-> FALSE, bytes |-> <<>>, fits |-> TRUE]

OnlySpace(s) == Leading(s, Space) = Len(s)

(* The static DecodeBase58: white space around the digits, a '1' for each  *)
(* leading zero, and an early return at the first character that is not a  *)
(* digit or that makes the result too long.                                *)
UpToSpace(s) ==
    SubSeq(s, 1, Min({i \in 0 .. Len(s) : i = Len(s) \/ s[i + 1] = Space}))

InBound(b, room) == [b EXCEPT !.ok = b.length <= room]

TakeDigit(b, c, room) ==
    IF ~b.ok THEN b
    ELSE IF c = Invalid THEN [b EXCEPT !.ok = FALSE]
    ELSE InBound(MulAdd(b, c, Radix, Base), room)

Result(zeroes, b256, after) ==
    [ok |-> b256.ok /\ OnlySpace(after), bytes |-> Zeros(zeroes) \o Used(b256),
     fits |-> b256.fits]

DecodeWord(zeroes, rest, word, room) ==
    IF room < 0 THEN Rejected
    ELSE Result(zeroes, FoldLeft(LAMBDA b, c : TakeDigit(b, c, room),
                                 Buffer(DecodedSize(Len(rest))), word),
                Drop(rest, Len(word)))

DecodeRest(zeroes, rest, room) ==
    DecodeWord(zeroes, rest, UpToSpace(rest), room)

DecodeText(text, max_ret_len) ==
    DecodeRest(Leading(text, 0), WithoutZeros(text),
               max_ret_len - Leading(text, 0))

DecodeCString(psz, max_ret_len) ==
    DecodeText(Drop(psz, Leading(psz, Space)), max_ret_len)

Decode(str, max_ret_len) ==
    IF Contains(str, Nul) THEN Rejected ELSE DecodeCString(str, max_ret_len)
-----------------------------------------------------------------------------
EncodeCheck(input) == Encode(input \o Hash(input))

\* Broken variant: the addition wraps around.
CheckedMax_Wraps(max) == (max + CheckLen) % (MaxInt + 1)

(* The bound on what DecodeBase58 returns: no int is larger than MaxInt. *)
CheckedMax(max) == IF max > MaxInt - CheckLen THEN MaxInt ELSE max + CheckLen

CheckedOff(d, n) ==
    IF /\ d.ok /\ n >= 0
       /\ Drop(d.bytes, n) = Hash(SubSeq(d.bytes, 1, n))
    THEN [d EXCEPT !.bytes = SubSeq(@, 1, n)]
    ELSE [Rejected EXCEPT !.fits = d.fits]

WithoutCheck(d) == CheckedOff(d, Len(d.bytes) - CheckLen)

DecodeCheck(str, max_ret_len) ==
    WithoutCheck(Decode(str, CheckedMax(max_ret_len)))
-----------------------------------------------------------------------------
Word == 0 .. Base ^ WordLen - 1
BytesOf(n) == [1 .. n -> Byte]

(* Where the fields begin: version, depth, parent's fingerprint, child     *)
(* number, chain code, key. *)
DepthAt == WordLen + 1
FingerprintAt == DepthAt + 1
ChildAt == FingerprintAt + WordLen
ChainAt == ChildAt + WordLen
KeyAt == ChainAt + ChainLen
BufLen == KeyAt + KeyLen        \* 78

WriteBE(n) == [i \in 1 .. WordLen |-> (n \div Base ^ (WordLen - i)) % Base]

ReadBE(s) == FoldLeft(LAMBDA n, b : n * Base + b, 0, s)

(* Only the key of the kind asked for is written. *)
NodeSerialize(node, fingerprint, use_public) ==
    WriteBE(IF use_public THEN XPub ELSE XPrv) \o <<node.depth % Base>>
    \o WriteBE(fingerprint) \o WriteBE(node.child_num) \o node.chain_code
    \o (IF use_public THEN node.public_key_data
        ELSE <<0>> \o node.private_key_data)

(* All that is read, when memory holds tail behind the payload. *)
Memory(tail) == payload \o tail

Field(buf, at, n) == SubSeq(buf, at, at + n - 1)

Thrown == [thrown |-> TRUE]

PadOK(buf) == buf[KeyAt] = 0

(* The callers' node is zero before it is filled in. *)
NodeDeserialize(buf) ==
    LET version == ReadBE(Field(buf, 1, WordLen))
    IN  IF \/ version \notin {XPub, XPrv}
           \/ version = XPrv /\ ~PadOK(buf)
        THEN Thrown
        ELSE [thrown |-> FALSE,
              depth |-> buf[DepthAt],
              child_num |-> ReadBE(Field(buf, ChildAt, WordLen)),
              chain_code |-> Field(buf, ChainAt, ChainLen),
              public_key_data |->
                  IF version = XPub THEN Field(buf, KeyAt, KeyLen + 1)
                  ELSE [i \in 1 .. KeyLen + 1 |-> 0],
              private_key_data |->
                  IF version = XPrv THEN Field(buf, KeyAt + 1, KeyLen)
                  ELSE [i \in 1 .. KeyLen |-> 0]]

Init == payload = <<>>

Next == /\ Len(payload) < BufLen
        /\ \E b \in Byte : payload' = Append(payload, b)

-----------------------------------------------------------------------------
(* What memory may hold behind the payload. *)
Tails == BytesOf(BufLen - Len(payload))

Outcomes == {NodeDeserialize(Memory(tail)) : tail \in Tails}

(* The reading of a payload of full length is undone by writing: no two    *)
(* strings give one node but for the fingerprint, which is dropped, and    *)
(* what was read goes back to its place.                                   *)
ReadsWhatIsWritten ==
    Len(payload) = BufLen =>
        \A out \in Outcomes :
            ~out.thrown =>
                payload = NodeSerialize(
                    out, ReadBE(Field(payload, FingerprintAt, WordLen)),
                    ReadBE(Field(payload, 1, WordLen)) = XPub)

(* A payload decides what it stands for only if it is complete, or cut     *)
(* behind a version that is rejected, or behind a byte that may not stand  *)
(* before a private key: any other short one gives a node of whatever      *)
(* memory holds behind it, and may give a different one each time.         *)
ShortDecidesNothing ==
    Cardinality(Outcomes) = 1 <=>
        \/ Len(payload) = BufLen
        \/ /\ Len(payload) >= WordLen
           /\ ReadBE(Field(payload, 1, WordLen)) \notin {XPub, XPrv}
        \/ /\ Len(payload) >= KeyAt
           /\ ReadBE(Field(payload, 1, WordLen)) = XPrv
           /\ payload[KeyAt] # 0
=============================================================================
