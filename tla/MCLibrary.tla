----------------------------- MODULE MCLibrary ------------------------------
(***************************************************************************)
(* The modules of the library the wallet rests on, for TLC.  They do not   *)
(* interact, so one specification takes each in turn: subject says which   *)
(* one a behaviour is about.  A machine with variables of its own is given *)
(* the registers r1, r2, ... for them; test is the state of the others.    *)
(* Two vectors have the variables of Prevector.                            *)
(***************************************************************************)
EXTENDS Prevector, TLC

CONSTANTS
    Subjects,               \* those to be checked
    a, b,                   \* vectors
    None                    \* a register that is not in use

VARIABLES
    subject, test, r1, r2, r3, r4, r5, r6, r7, r8, r9

registers == <<r1, r2, r3, r4, r5, r6, r7, r8, r9>>
vectors == <<vec, heap, call>>
vars == <<subject, test, registers, vectors>>

Unused8 == r8 = None /\ r9 = None
Unused7 == r7 = None /\ Unused8
Unused5 == r5 = None /\ r6 = None /\ Unused7
Unused4 == r4 = None /\ Unused5
Unused1 == r1 = None /\ r2 = None /\ r3 = None /\ Unused4

(* Strings of bytes and texts are made one element at a time, from the     *)
(* empty one, either a string or a text. *)
EmptyTest == test = [bytes |-> <<>>, text |-> <<>>] /\ Unused1

GrowBytes(bytes, max) ==
    /\ test.text = <<>> /\ Len(test.bytes) < max
    /\ \E x \in bytes : test' = [test EXCEPT !.bytes = Append(@, x)]

GrowText(chars, max) ==
    /\ test.bytes = <<>> /\ Len(test.text) < max
    /\ \E c \in chars : test' = [test EXCEPT !.text = Append(@, c)]
-----------------------------------------------------------------------------
(* base58: strings of bytes and texts in the bases 9 and 5.                *)
(* A hash of one byte that depends on every byte and on their order.       *)
OneByteHash(s) == <<FoldLeft(LAMBDA h, x : (2 * h + x + 1) % 9, 0, s)>>

B == INSTANCE Base58 WITH
        Base <- 9, Radix <- 5, CheckLen <- 1, Hash <- OneByteHash, MaxInt <- 4,
        WordLen <- 1, ChainLen <- 1, KeyLen <- 1, XPub <- 1, XPrv <- 2, payload <- test

ASSUME B!Base58Assumption

MaxInt == 4

Base58Next == GrowBytes(B!Byte, 4) \/ GrowText(B!Char, 5)

Bound == 0 .. MaxInt

(* What a digit string means, independent of any buffer: the zeros at its  *)
(* head and the number the rest denotes.                                   *)
Meaning(s, base) ==
    [zeroes |-> B!Leading(s, 0),
     value |-> FoldLeft(LAMBDA n, d : n * base + d, 0, s)]

ByteLength(s) ==
    LET m == Meaning(s, 5)
    IN  m.zeroes + CHOOSE k \in 0 .. Len(s) :
                       /\ m.value < 9 ^ k
                       /\ k = 0 \/ m.value >= 9 ^ (k - 1)

(* A text without the white space around it. *)
Trimmed(s) ==
    LET t == B!Drop(s, B!Leading(s, B!Space))
    IN  SubSeq(t, 1, Len(t) - B!Leading(Reverse(t), B!Space))

(* d is the string s, and is so exactly if s is within the bound. *)
GivesUpTo(d, s, max) ==
    (d.ok <=> Len(s) <= max) /\ (d.ok => d.bytes = s)

(* EncodeBase58 writes the number and the leading zeros of its input, no   *)
(* digit more, and DecodeBase58 reads the bytes back exactly when the      *)
(* caller's bound allows their length.                                     *)
Base58RoundTrip ==
    subject = "base58" /\ test.text = <<>> =>
        \E e \in {B!Encode(test.bytes).text} :
            /\ Meaning(e, 5) = Meaning(test.bytes, 9)
            /\ \A max \in Bound : \E d \in {B!Decode(e, max)} :
                  GivesUpTo(d, test.bytes, max)

(* DecodeBase58 accepts the digit strings, with white space around them,   *)
(* that denote no more bytes than the caller's bound, and no two of them   *)
(* for one string of bytes: the early returns and the cut at white space   *)
(* reject nothing else and let nothing else in.                            *)
Canonical ==
    subject = "base58" /\ test.bytes = <<>> =>
        \E t \in {Trimmed(test.text)} : \A max \in Bound :
            \E d \in {B!Decode(test.text, max)} :
                /\ d.ok <=> t \in Seq(B!Digit) /\ ByteLength(t) <= max
                /\ d.ok => B!Encode(d.bytes).text = t

(* The buffers sized by 138 / 100 + 1 and 733 / 1000 + 1 always hold the   *)
(* number: neither assertion on the carry can fail.                        *)
CarriesFit ==
    subject = "base58" =>
        /\ test.text = <<>> =>
              B!Encode(test.bytes).fits /\ B!EncodeCheck(test.bytes).fits
        /\ test.bytes = <<>> => \A max \in Bound :
              B!Decode(test.text, max).fits /\ B!DecodeCheck(test.text, max).fits

(* What DecodeBase58Check accepts is the text of what it returns with its  *)
(* checksum, and what EncodeBase58Check wrote it accepts up to the bound,  *)
(* where the bound on the checksum's bytes too may not be an int.          *)
Checked ==
    subject = "base58" =>
        \A max \in Bound :
            /\ test.bytes = <<>> => \E d \in {B!DecodeCheck(test.text, max)} :
                  d.ok => /\ B!EncodeCheck(d.bytes).text = Trimmed(test.text)
                          /\ Len(d.bytes) <= max
            /\ test.text = <<>> => \E d \in {B!DecodeCheck(B!EncodeCheck(test.bytes).text, max)} :
                  GivesUpTo(d, test.bytes, IF max < MaxInt THEN max ELSE MaxInt - 1)
-----------------------------------------------------------------------------
(* extended keys: every payload up to the full length, of bits.            *)
X == INSTANCE Base58 WITH
        Base <- 2, Radix <- 2, CheckLen <- 1, Hash <- OneByteHash, MaxInt <- 4,
        WordLen <- 2, ChainLen <- 1, KeyLen <- 1, XPub <- 1, XPrv <- 2, payload <- test

ASSUME X!Base58Assumption

(* The reading of a payload of full length is undone by writing: no two    *)
(* strings give one node but for the fingerprint, which is dropped, and    *)
(* what was read goes back to its place.                                   *)
ReadsWhatIsWritten == subject = "payloads" => X!ReadsWhatIsWritten

(* A payload decides what it stands for only if it is complete or already  *)
(* rejected; any other gives a node of whatever memory holds behind it.    *)
ShortDecidesNothing == subject = "payloads" => X!ShortDecidesNothing
-----------------------------------------------------------------------------
(* texts of bytes: strings of bytes and texts of digits that leave every   *)
(* number of bits over, clear and set; amounts and addresses: every text   *)
(* of their grammar's characters.                                          *)
T == INSTANCE Texts WITH Ten <- 3, Precision <- 4, MaxPort <- 5

ASSUME T!TextsAssumption

EncodingsNext ==
    \/ GrowBytes({0, 1, 90, 165, 255}, 5)
    \/ GrowText({0, 8, 21, T!Pad}, 8)
    \/ GrowText({T!Space}, 6)

(* No text is made longer when the parser has given up on it. *)
AmountsNext ==
    /\ FoldLeft(T!ProcessChar, T!Start, test.text).phase # "failed"
    /\ GrowText(T!Digit \cup {T!Minus, T!Plus, T!Point, T!Exponent, T!Other}, 7)

AddressesNext ==
    GrowText(T!Digit \cup {T!Colon, T!Open, T!Close, T!Other}, 6)

(* A string of numbers as bits, the first of each number on top. *)
BitsOf(s, width) ==
    FlattenSeq([i \in 1 .. Len(s) |->
        [j \in 1 .. width |-> (s[i] \div (2 ^ (width - j))) % 2]])

Zeros(n) == [i \in 1 .. n |-> 0]

DigitsOf(s) == SelectSeq(s, LAMBDA c : c # T!Pad)

(* The digits say the bits of the bytes, and fewer zeros than make a digit. *)
Says(s, width) ==
    \E n \in 0 .. width - 1 :
        BitsOf(DigitsOf(s), width) = BitsOf(test.bytes, 8) \o Zeros(n)

(* A text of each base says the bits of the bytes and is read back as      *)
(* them; a multiple of 4 or 8 characters where it is padded.               *)
BytesRoundTrip ==
    subject = "encodings" /\ test.text = <<>> =>
        /\ \E b64 \in {T!EncodeBase64(test.bytes)} :
              Says(b64, 6) /\ T!DecodeBase64(b64) = T!Decoded(test.bytes)
        /\ \E b32 \in {T!EncodeBase32(test.bytes, TRUE)} :
              /\ Says(b32, 5) /\ T!DecodeBase32(b32) = T!Decoded(test.bytes)
              /\ T!EncodeBase32(test.bytes, FALSE) = DigitsOf(b32)
        /\ \E hex \in {T!HexStr(test.bytes)} :
              Says(hex, 4) /\ T!TryParseHex(hex) = T!Decoded(test.bytes)

(* No two texts of base 32 or 64 stand for the same bytes: padding in the  *)
(* wrong place or number, and bits set behind the last byte, are refused.  *)
OneText ==
    subject = "encodings" =>
        /\ \E d \in {T!DecodeBase64(test.text)} :
              d.ok => T!EncodeBase64(d.bytes) = test.text
        /\ \E d \in {T!DecodeBase32(test.text)} :
              d.ok => T!EncodeBase32(d.bytes, TRUE) = test.text

(* White space aside, TryParseHex takes what IsHex takes and the empty     *)
(* text, and white space only between bytes.                               *)
ReadsHex ==
    subject = "encodings" =>
        LET d == T!TryParseHex(test.text)
            hex == SelectSeq(test.text, LAMBDA c : c # T!Space)
        IN  /\ d.ok => T!HexStr(d.bytes) = hex /\ (T!IsHex(hex) \/ hex = <<>>)
            /\ hex = test.text => (d.ok <=> T!IsHex(hex) \/ hex = <<>>)
-----------------------------------------------------------------------------
(* The number a text denotes, read from the grammar: its parts by          *)
(* position. *)
IndexOf(text, c) ==
    IF c \in ToSet(text) THEN SelectInSeq(text, LAMBDA x : x = c)
    ELSE Len(text) + 1

CutAt(text, first, dot, e, sign) ==
    [negative |-> first = 2,
     whole |-> SubSeq(text, first, dot - 1),
     hasFrac |-> dot < e,
     frac |-> SubSeq(text, dot + 1, e - 1),
     hasExp |-> e <= Len(text),
     expNegative |-> sign = T!Minus,
     exp |-> SubSeq(text, IF sign \in {T!Plus, T!Minus} THEN e + 2 ELSE e + 1,
                    Len(text))]

Behind(text, dot, e) ==
    CutAt(text, IF text # <<>> /\ text[1] = T!Minus THEN 2 ELSE 1,
          IF dot < e THEN dot ELSE e, e,
          IF e < Len(text) THEN text[e + 1] ELSE T!Other)

Parts(text) == Behind(text, IndexOf(text, T!Point), IndexOf(text, T!Exponent))

AllDigits(s) == s # <<>> /\ ToSet(s) \subseteq T!Digit

Grammatical(p) ==
    /\ AllDigits(p.whole) /\ (p.whole[1] = 0 => Len(p.whole) = 1)
    /\ p.hasFrac => AllDigits(p.frac)
    /\ p.hasExp => AllDigits(p.exp)

Value(s) == FoldLeft(LAMBDA n, d : n * 3 + d, 0, s)

(* The power of ten of the units that the last digit of the mantissa is. *)
UnitsOf(p, decimals) ==
    decimals - Len(p.frac) + IF p.expNegative THEN -Value(p.exp) ELSE Value(p.exp)

(* n within 0 .. most, where more makes no difference. *)
Upto(n, most) == IF n < 0 THEN 0 ELSE IF n > most THEN most ELSE n

AmountIs(r, p, amount, fits) ==
    /\ r.ok => fits /\ r.amount = IF p.negative THEN -amount ELSE amount
    /\ fits /\ amount > 0 => r.ok

(* r is what the parts p say: mantissa * up / down, if it fits. *)
IsParsed(r, p, mantissa, up, down) ==
    AmountIs(r, p, (mantissa \div down) * up,
             /\ Grammatical(p) /\ mantissa % down = 0
             /\ (mantissa \div down) * up <= T!UPPER_BOUND)

(* The parser takes the texts of the JSON grammar whose value is a number  *)
(* of units within the bound, and gives just that number: no digit, zero   *)
(* or exponent is lost, and nothing past 64 bits is computed. Only zero    *)
(* may be refused, for the exponent it is written with.                    *)
ParsesAmounts ==
    subject = "amounts" =>
        \E p \in {Parts(test.text)} : \A decimals \in 0 .. 2 :
            \E n \in {UnitsOf(p, decimals)} :
                IsParsed(T!ParseFixedPoint(test.text, decimals), p,
                         Value(p.whole \o p.frac), 3 ^ Upto(n, 4), 3 ^ Upto(-n, 10))

Bracketed(s) == <<T!Open>> \o s \o <<T!Close>>

(* The number that begins at k, if one does. *)
PortAt(text, k) == T!ToIntegral(SubSeq(text, k, Len(text)))

IsSplit(text, r, hosts) ==
    IF r.port = T!Untouched THEN text \in hosts
    ELSE \E h \in hosts, k \in 1 .. Len(text) :
             /\ text = h \o <<T!Colon>> \o SubSeq(text, k, Len(text))
             /\ PortAt(text, k) = {r.port}
             /\ T!Colons(h) = {} \/ h = Bracketed(r.host)

(* Before the colon is h, behind it the port, if h is in brackets. *)
PortKept(r, h, port) ==
    T!Unbracketed(h) # h /\ port # {} =>
        r.host = T!Unbracketed(h) /\ port = {r.port}

(* Nothing of an address is lost: it is the host, in brackets or not, and  *)
(* behind a colon the port, if one was read. A host without brackets that  *)
(* has colons of its own is never cut, whatever its last part looks like,  *)
(* and an address in brackets keeps a port behind them. A port is refused  *)
(* exactly when it is not a number the type holds, or is zero.             *)
SplitsAddresses ==
    subject = "addresses" =>
        \E r \in {T!SplitHostPort(test.text)} :
            /\ IsSplit(test.text, r, {r.host, Bracketed(r.host)})
            /\ r.valid => r.port # 0
            /\ ~r.valid =>
                  r.port = 0 \/ PortAt(test.text, T!LastColon(test.text) + 1) = {}
            /\ \A k \in 2 .. Len(test.text) :
                  test.text[k] = T!Colon =>
                      PortKept(r, SubSeq(test.text, 1, k - 1),
                               PortAt(test.text, k + 1))
-----------------------------------------------------------------------------
(* vectors: two, and what passes between them.  vector: one of values that *)
(* differ, with more room in it.                                           *)
One == INSTANCE Prevector WITH
        Objects <- {a}, Values <- {0, 1}, Gone <- None,
        N <- 2, MaxLen <- 3, MaxArg <- 2,
        vec <- r1, heap <- r2, call <- r3

ASSUME PrevectorAssumption /\ One!PrevectorAssumption

OneVectorInit == One!VectorInit /\ Unused4
OneVectorNext == One!VectorNext /\ UNCHANGED <<r4, r5, r6, r7, r8, r9>>

(* No property tells one object from another. *)
Symmetry == Permutations({a, b})
-----------------------------------------------------------------------------
(* hashes: one hash object in a caller's hands, and the constructions over *)
(* hashes: HMAC, the nonces, the sponge.                                   *)
H == INSTANCE HashStream WITH
        Block <- 4, LengthLen <- 2, DigestLen <- 3, MaxBytes <- 10,
        direct <- r1, h <- r2, open <- r3, digest <- r4

ASSUME H!BlockHashAssumption

HashInit == H!Init /\ Unused5
HashNext == H!Next /\ UNCHANGED <<r5, r6, r7, r8, r9>>

(* However a message is cut into writes, the digest, single or double, is  *)
(* that of the whole padded message and of nothing else: no stale byte of  *)
(* the buffer, and nothing of an earlier message, is ever absorbed: the    *)
(* object implements Hasher.  One vector implements Vector.                *)
KeepsPromise ==
    /\ subject = "hash" => H!Promise!Init
    /\ subject = "vector" => One!StdVector!Init
    /\ [][/\ subject = "hash" => H!KeepsPromise
          /\ subject = "vector" =>
                [One!StdVector!Next]_<<One!Contents, r3>>]_vars

(* A finalized object has absorbed whole blocks: nothing is left in the    *)
(* buffer that the digest should have covered, and the number of blocks is *)
(* the least that holds the message, the one and the length.               *)
NothingLeft == subject = "hash" => H!NothingLeft

M == INSTANCE Hmac WITH
        Block <- 4, LengthLen <- 2, DigestLen <- 3, MaxKey <- 9, MaxBytes <- 9,
        Unit <- 2, Order <- 3,
        direct <- r1, keylen <- r2, inner <- r3, outer <- r4, written <- r5,
        digest <- r6

HmacInit == M!Init /\ Unused7
HmacNext == M!Next /\ UNCHANGED <<r7, r8, r9>>

(* Whatever the key's length and however the message is cut into writes,   *)
(* the digest is the HMAC of the standard: the in-place masks come out     *)
(* right, keys of more than a block are hashed, and both objects absorb    *)
(* what belongs to them.                                                   *)
IsHmac == subject = "hmac" => M!IsHmac

(* The two masked keys fill a block each, for ever: what is written later  *)
(* neither changes nor shares a block with the key.                        *)
KeysApart == subject = "hmac" => M!KeysApart

ASSUME M!NonceAssumption

(* The nonces of a signature, at the first attempt and at a second one. *)
NoncesInit == test \in [args : M!Argument, count : {0}] /\ Unused1

TryAgain == test.count < 1 /\ test' = [test EXCEPT !.count = @ + 1]

(* No two signatures share a nonce unless they are one signature: of equal *)
(* keys, of messages equal modulo the order, with equal data and algorithm *)
(* or equally without, and at the same attempt.                            *)
NoncesFresh == subject = "nonces" => M!NoncesFresh(test.args, test.count, 1)

K == INSTANCE Keccak WITH
        R <- 3, Suffix <- {{0}, {1, 2}, {0, 7}}, MaxIn <- 10, MaxOut <- 7,
        pc <- r1, inLen <- r2, sfx <- r3, outLen <- r4, b <- r5, taken <- r6,
        perm <- r7, s <- r8, out <- r9

ASSUME K!KeccakAssumption

(* Every input is absorbed as FIPS 202 pads it: also one that fills its    *)
(* blocks, one that leaves a single byte, where suffix and last bit meet,  *)
(* and the empty one.  The output is the stream the sponge gives, read     *)
(* without a permutation too many or too few.                              *)
IsSponge == subject = "sponge" => K!IsSponge
-----------------------------------------------------------------------------
(* numbers: every string of bytes up to a length, and numbers from zero on *)
(* and around the limits of the forms and of the types, whole behind the   *)
(* tag of 8 bytes too.  Types have 1, 2, 4 and 8 bytes of two bits.        *)
W == 4

S == INSTANCE Serialize WITH
        MaxSize <- 33, Element <- {}, Fresh <- 0, Batch <- 1, MaxClaim <- 0,
        MaxStream <- 0, how <- r1, claimed <- r2, stream <- r3, got <- r4,
        room <- r5, v <- r6, state <- r7

ASSUME S!ByteAssumption

NumbersInit == test = [string |-> <<>>, number |-> 0] /\ Unused1

GrowString ==
    /\ test.number = 0 /\ Len(test.string) < 7
    /\ \E x \in 0 .. W - 1 : test' = [test EXCEPT !.string = Append(@, x)]

(* To the next number, or to one around a limit. *)
Count ==
    /\ test.string = <<>> /\ test.number <= 1000
    /\ \E n \in {test.number + 1} \cup
           {limit + d : limit \in {W ^ 4, (W ^ 8) \div 2, (W ^ 8) - 2},
                        d \in -1 .. 1} :
           test' = [test EXCEPT !.number = n]

Sizes == {1, 2, 4, 8}

Maxima(k) == {(W ^ k) - 1, ((W ^ k) \div 2) - 1}    \* unsigned and signed

(* The array tmp of WriteVarInt, for a type of k bytes of two bits. *)
TmpLen(k) == (k * 2 + 2 - 2) \div (2 - 1)

(* A number is read back from what was written, all of it and no byte      *)
(* more, and the sizes the computer adds up are those of the bytes; a type *)
(* too small for a number, and a range check it does not pass, refuse it.  *)
(* The buffer VarInt digits are collected in is long enough for its type.  *)
NumberRoundTrip ==
    subject = "numbers" /\ test.string = <<>> =>
        LET n == test.number
            size == S!WriteCompactSize(n)
            var == S!WriteVarInt(n)
        IN  /\ Len(size) = S!GetSizeOfCompactSize(n)
            /\ Len(var) = S!GetSizeOfVarInt(n)
            /\ S!ReadCompactSize(size \o <<0>>, FALSE) = S!Read(n, Len(size))
            /\ S!ReadCompactSize(size, TRUE).ok <=> n <= 33
            /\ \A k \in Sizes : \A max \in Maxima(k) :
                  /\ S!ReadCompactSizeInto(size, FALSE, max).ok <=> n <= max
                  /\ S!ReadVarInt(var \o <<0>>, max) =
                        IF n <= max THEN S!Read(n, Len(var)) ELSE S!Failure
                  /\ n <= max => Len(var) <= TmpLen(k)
            /\ \A k \in 1 .. 8, big \in BOOLEAN :
                  S!UintFits(n, k) <=>
                     S!ReadUint(S!WriteUint(n, k, big), k, big) = S!Read(n, k)

(* A string that is read is the one that is written for its number: every  *)
(* number has one encoding in each form, also those at the largest value   *)
(* of a type, where the sum of the digits must not wrap.                   *)
OneForm ==
    subject = "numbers" =>
        \A s \in {test.string, <<W - 1>> \o S!LittleEndian(test.number, 8)} :
            LET size == S!ReadCompactSize(s, FALSE)
            IN  /\ size.ok =>
                      S!WriteCompactSize(size.value) = SubSeq(s, 1, size.used)
                /\ \A k \in Sizes : \A max \in Maxima(k) :
                      LET var == S!ReadVarInt(s, max)
                      IN  var.ok =>
                            /\ var.value <= max
                            /\ S!WriteVarInt(var.value) = SubSeq(s, 1, var.used)
-----------------------------------------------------------------------------
(* containers: one read from a stream that may end anywhere.               *)
V == INSTANCE Serialize WITH
        MaxSize <- 5, Element <- {1, 2}, Fresh <- 0, Batch <- 2, MaxClaim <- 6,
        MaxStream <- 6, how <- r1, claimed <- r2, stream <- r3, got <- r4,
        room <- r5, v <- r6, state <- r7

ContainersInit == V!Init /\ Unused8
ContainersNext == V!Next /\ UNCHANGED <<r8, r9>>

(* What a stream claims costs no more than a batch beyond what it gave:    *)
(* there is never room for more than that, whatever count it starts with.  *)
(* Only a string is given all the room at once, up to MAX_SIZE.            *)
Bounded == subject = "containers" => V!Bounded

(* A reader that returns has the elements the stream claimed and no other, *)
(* and nothing of what the container held before; one that throws was told *)
(* too much, or its stream ended inside.                                   *)
ReadsTheClaim == subject = "containers" => V!ReadsTheClaim
-----------------------------------------------------------------------------
(* What is checked, of the parts above, with KeepsPromise, and OneOwner    *)
(* and IsVector of Prevector.                                              *)

(* A text that is written is read back as what it was written for, and a   *)
(* text that is accepted is the one that would be written: in bases 58,    *)
(* 64, 32 and 16, of extended keys, amounts and addresses, with no carry,  *)
(* digit or bit lost at the edge of a buffer or a type.                    *)
TextsRoundTrip ==
    /\ Base58RoundTrip /\ Canonical /\ CarriesFit /\ Checked
    /\ ReadsWhatIsWritten /\ ShortDecidesNothing
    /\ BytesRoundTrip /\ OneText /\ ReadsHex /\ ParsesAmounts /\ SplitsAddresses

(* What is hashed is the whole message and nothing else, as the standards  *)
(* pad, key and absorb it, however it is cut into writes; nonces differ    *)
(* where signatures do.                                                    *)
HashesHold == NothingLeft /\ IsHmac /\ KeysApart /\ NoncesFresh /\ IsSponge

(* Numbers and containers are read as they are written, in one form each,  *)
(* and what a stream claims costs no more than a batch beyond what it      *)
(* gave.                                                                   *)
WireHolds == NumberRoundTrip /\ OneForm /\ Bounded /\ ReadsTheClaim
-----------------------------------------------------------------------------
Init ==
    /\ subject \in Subjects /\ VectorInit
    /\ \/ subject \in {"base58", "encodings", "amounts", "addresses"} /\ EmptyTest
       \/ subject = "payloads" /\ X!Init /\ Unused1
       \/ subject = "numbers" /\ NumbersInit
       \/ subject = "nonces" /\ NoncesInit
       \/ /\ test = None
          /\ \/ subject = "hash" /\ HashInit
             \/ subject = "hmac" /\ HmacInit
             \/ subject = "sponge" /\ K!Init
             \/ subject = "containers" /\ ContainersInit
             \/ subject = "vector" /\ OneVectorInit
             \/ subject = "vectors" /\ Unused1

(* A step of a subject whose state is test, and of one with registers. *)
TestNext ==
    \/ subject = "base58" /\ Base58Next
    \/ subject = "encodings" /\ EncodingsNext
    \/ subject = "amounts" /\ AmountsNext
    \/ subject = "addresses" /\ AddressesNext
    \/ subject = "payloads" /\ X!Next
    \/ subject = "numbers" /\ (GrowString \/ Count)
    \/ subject = "nonces" /\ TryAgain

RegisterNext ==
    \/ subject = "hash" /\ HashNext
    \/ subject = "hmac" /\ HmacNext
    \/ subject = "sponge" /\ K!Next
    \/ subject = "containers" /\ ContainersNext
    \/ subject = "vector" /\ OneVectorNext

Next ==
    /\ UNCHANGED subject
    /\ \/ TestNext /\ UNCHANGED <<registers, vectors>>
       \/ RegisterNext /\ UNCHANGED <<test, vectors>>
       \/ subject = "vectors" /\ VectorNext /\ UNCHANGED <<test, registers>>

Spec == Init /\ [][Next]_vars
=============================================================================
