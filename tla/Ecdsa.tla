-------------------------------- MODULE Ecdsa -------------------------------
(***************************************************************************)
(* Signatures: ecdsa_impl.h, the calls of secp256k1.c that make and take   *)
(* them, and modules/recovery.  Signing is a process that asks the nonce   *)
(* function until a signature comes out or the function gives up.  The     *)
(* DER form is read and written for bytes of a smaller base and scalars of *)
(* fewer of them.                                                          *)
(***************************************************************************)
EXTENDS Keys

CONSTANTS
    Inputs,         \* the secret keys and messages of 32 bytes that are tried
    Base,           \* 256, a power of two: the values of a byte
    ScalarLen,      \* 32 bytes are a scalar,
    SizeLen,        \* and so many a size_t
    Sequence, Integer       \* 0x30 and 0x02

ASSUME DerAssumption ==
    /\ Base % 2 = 0 /\ Order < Base ^ ScalarLen
    /\ 6 + 2 * (ScalarLen + 1) < Base \div 2        \* as for 256 and 32
    /\ Sequence < Base /\ Integer < Base

Scalars == 0 .. Order - 1

ScalarInverse == [k \in Scalars \ {0} |-> CHOOSE i \in Scalars : (i * k) % Order = 1]

(* The order is a prime, and no coordinate is twice as large. *)
ASSUME ScalarsAssumption ==
    /\ \A k \in Scalars \ {0} : \E i \in Scalars : (i * k) % Order = 1
    /\ FieldPrime < 2 * Order

IsHigh(s) == 2 * s > Order

Signature(r, s) == [r |-> r, s |-> s]
NoSignature == Signature(0, 0)

ParseCompact(r, s) ==
    IF Overflows(r) \/ Overflows(s) THEN Failed ELSE Done(Signature(r, s))

SignatureNormalize(sig) == [sig EXCEPT !.s = IF IsHigh(@) THEN Minus(@) ELSE @]
-----------------------------------------------------------------------------
(* r may be the x coordinate, or that less the order. *)
SigVerify(sig, k, m) ==
    /\ sig.r # 0 /\ sig.s # 0
    /\ LET sn == ScalarInverse[sig.s]
           pr == (sn * m + sn * sig.r * k) % Order
       IN  /\ pr # 0
           /\ X(pr) = sig.r \/ (sig.r < FieldPrime - Order /\ X(pr) = sig.r + Order)

EcdsaVerify(sig, msghash, k) == ~IsHigh(sig.s) /\ SigVerify(sig, k, Reduced(msghash))

(* The public key under which a signature with an identifier is valid: one *)
(* at most.                                                                *)
SigRecover(sig, m, recid) ==
    LET x == sig.r + (IF recid >= 2 THEN Order ELSE 0)
        rn == ScalarInverse[sig.r]
        Q(p) == (Minus(rn * m) + rn * sig.s * p) % Order
    IN  IF sig.r = 0 \/ sig.s = 0 \/ (recid >= 2 /\ sig.r >= FieldPrime - Order) THEN {}
        ELSE {Q(p) : p \in SetXo(x, recid % 2 = 1)} \ {0}
-----------------------------------------------------------------------------
\* Broken variant: the identifier does not follow when s is negated.
SigSign_KeptId(sec, m, nonce) ==
    LET r == X(nonce) % Order
        s == (ScalarInverse[nonce] * (m + r * sec)) % Order
    IN  [ok |-> r # 0 /\ s # 0, sig |-> SignatureNormalize(Signature(r, s)),
         recid |-> 2 * (X(nonce) \div Order) + (Y(nonce) % 2)]

(* The identifier tells which point had the x coordinate: whether it       *)
(* overflowed, and its y, which is the other one if s is negated.          *)
SigSign(sec, m, nonce) ==
    LET r == X(nonce) % Order
        s == (ScalarInverse[nonce] * (m + r * sec)) % Order
        odd == (Y(nonce) + (IF IsHigh(s) THEN 1 ELSE 0)) % 2
    IN  [ok |-> r # 0 /\ s # 0, sig |-> SignatureNormalize(Signature(r, s)),
         recid |-> 2 * (X(nonce) \div Order) + odd]

ASSUME InputsAssumption == Inputs \subseteq Bytes32

VARIABLE call

NoCall == <<>>      \* before any

SignInner ==
    \E seckey, msg32 \in Inputs :
        call = [seckey |-> seckey, msg32 |-> msg32, done |-> FALSE, ret |-> FALSE,
                sig |-> NoSignature, recid |-> 0]

(* A nonce that is no scalar, or makes no signature, leads to another one. *)
(* An invalid key counts as one until the end: then the call fails.        *)
TryNonce(nonce) ==
    LET ret == ValidSeckey(call.seckey)
        key == IF ret THEN call.seckey ELSE 1
        Tried(a) ==
            [call EXCEPT !.done = a.ok, !.ret = a.ok /\ ret,
                         !.sig = IF a.ok /\ ~ret THEN NoSignature ELSE a.sig,
                         !.recid = IF a.ok /\ ~ret THEN 0 ELSE a.recid]
    IN  /\ ~call.done /\ ValidSeckey(nonce)
        /\ call' = Tried(SigSign(key, Reduced(call.msg32), nonce))

InvalidNonce(nonce) == ~call.done /\ ~ValidSeckey(nonce) /\ UNCHANGED call

NoNonce ==
    ~call.done /\ call' = [call EXCEPT !.done = TRUE, !.sig = NoSignature, !.recid = 0]

SignNext == NoNonce \/ \E nonce \in Bytes32 : TryNonce(nonce) \/ InvalidNonce(nonce)

SignSpec == SignInner /\ [][SignNext]_call
-----------------------------------------------------------------------------
(* A signature that comes out is valid for the key, its identifier leads   *)
(* back to the key, and a call that fails leaves nothing.                  *)
SignsOrFails ==
    call # NoCall /\ call.done =>
        IF call.ret
        THEN /\ EcdsaVerify(call.sig, call.msg32, call.seckey)
             /\ SigRecover(call.sig, Reduced(call.msg32), call.recid) = {call.seckey}
        ELSE call.sig = NoSignature /\ call.recid = 0

(* Of a signature and the one with the opposite s, both of which the       *)
(* equation allows, exactly one is accepted: the normalized one.           *)
OneOfTwo ==
    call # NoCall /\ ~call.done => \A r, s \in Scalars :
        LET sig == Signature(r, s)
            other == Signature(r, Minus(s))
        IN  ValidSeckey(call.seckey) /\ SigVerify(sig, call.seckey, Reduced(call.msg32)) =>
                /\ SignatureNormalize(sig) = SignatureNormalize(other)
                /\ {t \in {sig, other} : EcdsaVerify(t, call.msg32, call.seckey)} =
                        {SignatureNormalize(sig)}

(* Verification finds what the definition says: r is the x coordinate of   *)
(* the point modulo the order.                                             *)
VerifiesAsDefined ==
    call # NoCall /\ ~call.done => \A r, s \in Scalars \ {0} :
        LET k == Reduced(call.seckey)
            w == ScalarInverse[s]
            p == (w * Reduced(call.msg32) + w * r * k) % Order
        IN  k # 0 => (SigVerify(Signature(r, s), k, Reduced(call.msg32))
                        <=> (p # 0 /\ X(p) % Order = r))

(* The four identifiers lead to exactly the keys that verify, to each by   *)
(* one of them only.                                                       *)
RecoversAll ==
    call # NoCall /\ ~call.done =>
        \A r, s \in Scalars :
            LET k == Reduced(call.seckey)
                m == Reduced(call.msg32)
                ids == {j \in 0 .. 3 : k \in SigRecover(Signature(r, s), m, j)}
            IN  Cardinality(ids) = IF k # 0 /\ SigVerify(Signature(r, s), k, m) THEN 1 ELSE 0

(* A signature that comes out is the only one of its form that is valid,   *)
(* and what is accepted, or recovered, is what the definition says.        *)
EcdsaHolds == SignsOrFails /\ OneOfTwo /\ VerifiesAsDefined /\ RecoversAll
-----------------------------------------------------------------------------
(* A position in an encoding is that of the next byte; every result says   *)
(* whether a byte past the end was read.                                   *)
High == Base \div 2

BigEndian(bytes) == FoldLeft(LAMBDA n, b : Base * n + b, 0, bytes)

Result(ok, pos, n, over) == [ok |-> ok, pos |-> pos, n |-> n, over |-> over]
Rejected(over) == Result(FALSE, 0, 0, over)

Has(in, pos) == pos <= Len(in)
At(in, pos) == IF Has(in, pos) THEN in[pos] ELSE 0
-----------------------------------------------------------------------------
(* A length in its shortest form, that fits the rest of the input.  A long *)
(* form is looked at only if its bytes are there.                          *)
ReadLen(in, pos) ==
    IF ~Has(in, pos) \/ in[pos] \in {Base - 1, High} THEN Rejected(FALSE)
    ELSE IF in[pos] < High THEN Result(TRUE, pos + 1, in[pos], FALSE)
    ELSE LET size == in[pos] - High
             end == pos + 1 + size
             n == BigEndian(SubSeq(in, pos + 1, end - 1))
         IN  IF end > Len(in) + 1 THEN Rejected(FALSE)
             ELSE IF in[pos + 1] = 0 \/ size > SizeLen \/ n > Len(in) + 1 - end \/ n < High
             THEN Rejected(~Has(in, pos + 1)) ELSE Result(TRUE, end, n, FALSE)

(* The first byte is a superfluous one. *)
PaddedWith(in, pos, len, pad, high) ==
    At(in, pos) = pad /\ len > 1 /\ (At(in, pos + 1) >= High) = high

(* A number that is negative, too long or not a scalar counts as zero. *)
ScalarOf(first, digits) ==
    IF first >= High \/ Len(digits) > ScalarLen \/ BigEndian(digits) >= Order
    THEN 0 ELSE BigEndian(digits)

NumberAt(in, first, end) ==
    LET zeros == IF At(in, first) = 0 THEN 1 ELSE 0
    IN  Result(TRUE, end, ScalarOf(At(in, first), SubSeq(in, first + zeros, end - 1)),
               end > Len(in) + 1)

IntegerOf(in, len) ==
    IF ~len.ok THEN len
    ELSE IF len.n = 0 \/ len.n > Len(in) + 1 - len.pos
            \/ PaddedWith(in, len.pos, len.n, 0, FALSE)
            \/ PaddedWith(in, len.pos, len.n, Base - 1, TRUE) THEN Rejected(FALSE)
    ELSE NumberAt(in, len.pos, len.pos + len.n)

ParseInteger(in, pos) ==
    IF ~Has(in, pos) THEN Rejected(FALSE)
    ELSE IF in[pos] # Integer THEN Rejected(FALSE)
    ELSE IntegerOf(in, ReadLen(in, pos + 1))

NotParsed(over) == [ok |-> FALSE, r |-> 0, s |-> 0, over |-> over]

BothParsed(in, r, s) ==
    IF ~s.ok \/ s.pos # Len(in) + 1 THEN NotParsed(r.over \/ s.over)
    ELSE [ok |-> TRUE, r |-> r.n, s |-> s.n, over |-> r.over \/ s.over]

ParseAfter(in, r) ==
    IF ~r.ok THEN NotParsed(r.over) ELSE BothParsed(in, r, ParseInteger(in, r.pos))

ParseBody(in, len) ==
    IF ~len.ok \/ len.n # Len(in) + 1 - len.pos THEN NotParsed(len.over)
    ELSE ParseAfter(in, ParseInteger(in, len.pos))

SigParse(in) ==
    IF ~Has(in, 1) THEN NotParsed(FALSE)
    ELSE IF in[1] # Sequence THEN NotParsed(FALSE)
    ELSE ParseBody(in, ReadLen(in, 2))
-----------------------------------------------------------------------------
BytesOf(n) == [i \in 1 .. ScalarLen + 1 |-> (n \div Base ^ (ScalarLen + 1 - i)) % Base]

(* Without the leading zeros, but for one before a high byte. *)
Minimal(n) ==
    LET d == BytesOf(n)
        Superfluous(i) == i < Len(d) /\ d[i] = 0 /\ d[i + 1] < High
    IN  SubSeq(d, CHOOSE i \in 1 .. Len(d) :
                    ~Superfluous(i) /\ \A j \in 1 .. i - 1 : Superfluous(j), Len(d))

(* What is written, and the size that is reported either way. *)
EncodedIn(size, need, rp, sp) ==
    [ok |-> size >= need, size |-> need,
     sig |-> IF size < need THEN <<>>
             ELSE <<Sequence, 4 + Len(sp) + Len(rp), Integer, Len(rp)>> \o rp
                  \o <<Integer, Len(sp)>> \o sp]

SerializeIn(size, rp, sp) == EncodedIn(size, 6 + Len(sp) + Len(rp), rp, sp)

SigSerialize(r, s, size) == SerializeIn(size, Minimal(r), Minimal(s))
=============================================================================
