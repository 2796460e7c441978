-------------------------------- MODULE Keys --------------------------------
(***************************************************************************)
(* The keys of secp256k1.c and eckey_impl.h, the x-only keys and key pairs *)
(* of modules/extrakeys and the encodings of modules/ellswift, on a small  *)
(* curve with its coordinates.  A public key is the number its point is a  *)
(* multiple by, Null the zeroed object that a failed call leaves; 32 bytes *)
(* are a number.  A call that is given such an object calls the illegal    *)
(* callback, which aborts.  Last, the multiples of the generator that keys *)
(* and nonces are turned into points by.                                   *)
(***************************************************************************)
EXTENDS Group

CONSTANT Top        \* the largest number that 32 bytes hold

ASSUME KeysAssumption == Order < FieldPrime /\ FieldPrime < Top

Bytes32 == 0 .. Top

Null == 0

X(k) == Multiple[k][1]
Y(k) == Multiple[k][2]
OddY(k) == Y(k) % 2 = 1

(* Two points have one x coordinate if they are equal or opposite, and of  *)
(* opposite ones one y coordinate is odd.                                  *)
ASSUME OppositesAssumption ==
    /\ Order \in Nat \ {0, 1} /\ Top \in Nat
    /\ \A k, l \in 1 .. Order - 1 :
          /\ Multiple[k] \in Residue \X Residue
          /\ X(k) = X(l) <=> l \in {k, Order - k}
          /\ OddY(Order - k) <=> ~OddY(k)

Minus(n) == (-n) % Order

(* secp256k1_scalar_set_b32: the number, and whether it overflowed. *)
Reduced(n) == n % Order
Overflows(n) == n >= Order

ValidSeckey(n) == 0 < n /\ ~Overflows(n)
-----------------------------------------------------------------------------
(* The points with an x coordinate: none, or two that are opposite. *)
SetXo(x, odd) == {k \in 1 .. Order - 1 : X(k) = x /\ OddY(k) = odd}

Compressed(tag, x) == [tag |-> tag, x |-> x, y |-> -1]
Uncompressed(tag, x, y) == [tag |-> tag, x |-> x, y |-> y]

(* The point that 33 or 65 bytes stand for, at most one. *)
ParsePubkey(bytes) ==
    IF bytes.y = -1 THEN IF bytes.tag \in {2, 3} THEN SetXo(bytes.x, bytes.tag = 3) ELSE {}
    ELSE {k \in 1 .. Order - 1 :
            /\ bytes.tag \in {4, 6, 7}
            /\ bytes.tag # 4 => OddY(k) = (bytes.tag = 7)
            /\ Multiple[k] = <<bytes.x, bytes.y>>}

SerializePubkey(k, compressed) ==
    IF compressed THEN Compressed(IF OddY(k) THEN 3 ELSE 2, X(k))
    ELSE Uncompressed(4, X(k), Y(k))
-----------------------------------------------------------------------------
(* Results: [ok, key], with what a failed call leaves in its output. *)
Done(key) == [ok |-> TRUE, key |-> key]
Failed == [ok |-> FALSE, key |-> Null]
When(ok, key) == IF ok THEN Done(key) ELSE Failed

PubkeyCreate(seckey) == When(ValidSeckey(seckey), seckey)

SeckeyNegate(seckey) == When(ValidSeckey(seckey), Minus(seckey))
PubkeyNegate(k) == Done(Minus(k))

TweakAdded(n, tweak) == When(~Overflows(tweak) /\ (n + tweak) % Order # 0, (n + tweak) % Order)

SeckeyTweakAdd(seckey, tweak) ==
    IF ValidSeckey(seckey) THEN TweakAdded(seckey, tweak) ELSE Failed
PubkeyTweakAdd(k, tweak) == TweakAdded(k, tweak)

TweakMultiplied(n, tweak) == When(~Overflows(tweak) /\ tweak # 0, (n * tweak) % Order)

SeckeyTweakMul(seckey, tweak) ==
    IF ValidSeckey(seckey) THEN TweakMultiplied(seckey, tweak) ELSE Failed
PubkeyTweakMul(k, tweak) == TweakMultiplied(k, tweak)

PubkeyCombine(ks) ==
    LET sum[i \in 0 .. Len(ks)] == IF i = 0 THEN 0 ELSE (sum[i - 1] + ks[i]) % Order
    IN  When(sum[Len(ks)] # 0, sum[Len(ks)])
-----------------------------------------------------------------------------
(* extrakeys: an x-only key is the point with the even y. *)
EvenY(k) == IF OddY(k) THEN Minus(k) ELSE k

XonlyParse(n) == SetXo(n, FALSE)

XonlyTweakAdd(k, tweak) == TweakAdded(k, tweak)

XonlyTweakAddCheck(tweaked, odd, internal, tweak) ==
    LET r == TweakAdded(internal, tweak)
    IN  r.ok /\ X(r.key) = tweaked /\ OddY(r.key) = odd

KeypairNull == [sk |-> 0, pk |-> Null]

(* A failing call zeroes the pair; a valid pair has both parts. *)
KeypairCreate(seckey) ==
    IF ValidSeckey(seckey) THEN [sk |-> seckey, pk |-> seckey] ELSE KeypairNull

\* Broken variant: the secret key is taken as it is.
KeypairXonlyTweakAdd_AsIs(pair, tweak) ==
    LET sk == TweakAdded(pair.sk, tweak)
        pk == TweakAdded(EvenY(pair.pk), tweak)
    IN  IF sk.ok /\ pk.ok THEN [sk |-> sk.key, pk |-> pk.key] ELSE KeypairNull

KeypairXonlyTweakAdd(pair, tweak) ==
    LET sk == TweakAdded(IF OddY(pair.pk) THEN Minus(pair.sk) ELSE pair.sk, tweak)
        pk == TweakAdded(EvenY(pair.pk), tweak)
    IN  IF sk.ok /\ pk.ok THEN [sk |-> sk.key, pk |-> pk.key] ELSE KeypairNull
-----------------------------------------------------------------------------
(* What ecdh hashes.  An invalid scalar is replaced by one, and the call   *)
(* fails after it has written the output.                                  *)
Ecdh(k, scalar) ==
    LET s == IF ValidSeckey(scalar) THEN scalar ELSE 1
    IN  [ok |-> ValidSeckey(scalar), output |-> SerializePubkey((k * s) % Order, TRUE)]
-----------------------------------------------------------------------------
(* A caller who makes every change to a secret key and to its public key,  *)
(* or tweaks a key pair as the owner and its x-only key as everybody else  *)
(* does.  Null for the secret key: there is none.                          *)
VARIABLE owned

KeysOf(seckey, pair) ==
    [seckey |-> PubkeyCreate(seckey).key, pubkey |-> PubkeyCreate(seckey).key,
     pair |-> KeypairCreate(pair), internal |-> Null, tweaked |-> Null, check |-> TRUE]

KeysInit == \E n, m \in Bytes32 : owned = KeysOf(n, m)

(* Both are still valid: the next call on a zeroed one aborts. *)
StillValid == owned.pubkey # Null /\ ValidSeckey(owned.seckey)

Change(s, p) == StillValid /\ owned' = [owned EXCEPT !.seckey = s.key, !.pubkey = p.key]

NegateBoth == Change(SeckeyNegate(owned.seckey), PubkeyNegate(owned.pubkey))
AddBoth(t) == Change(SeckeyTweakAdd(owned.seckey, t), PubkeyTweakAdd(owned.pubkey, t))
MulBoth(t) == Change(SeckeyTweakMul(owned.seckey, t), PubkeyTweakMul(owned.pubkey, t))

(* The public key of t is added to a public key, and t to the secret one. *)
Combine(t) ==
    /\ PubkeyCreate(t).ok
    /\ Change(SeckeyTweakAdd(owned.seckey, t),
              PubkeyCombine(<<owned.pubkey, PubkeyCreate(t).key>>))

PairTweak(t) ==
    LET internal == EvenY(owned.pair.pk)
        tweaked == XonlyTweakAdd(internal, t).key
    IN  /\ owned.pair # KeypairNull
        /\ owned' = [owned EXCEPT
                       !.pair = KeypairXonlyTweakAdd(@, t), !.internal = internal,
                       !.tweaked = tweaked,
                       !.check = tweaked # Null =>
                           XonlyTweakAddCheck(X(tweaked), OddY(tweaked), internal, t)]

KeysNext ==
    NegateBoth \/ \E t \in Bytes32 : AddBoth(t) \/ MulBoth(t) \/ Combine(t) \/ PairTweak(t)

KeysSpec == KeysInit /\ [][KeysNext]_owned

(* The public key stays that of the secret key, and no change fails for    *)
(* one of them only.                                                       *)
PubkeyInStep ==
    IF owned.seckey = Null THEN owned.pubkey = Null
    ELSE PubkeyCreate(owned.seckey) = Done(owned.pubkey)

(* The owner of a key pair and those who know the x-only key only arrive   *)
(* at the same key, and everybody can check that.                          *)
PairInStep ==
    /\ owned.pair = KeypairCreate(owned.pair.sk)
    /\ owned.internal # Null => owned.tweaked = owned.pair.pk
    /\ owned.check

Encodings == [tag : {0, 2, 3, 4, 6, 7}, x : Bytes32, y : {-1} \cup Bytes32]

(* A point has three encodings, and only those parse to it. *)
OneEncoding ==
    owned.pubkey # Null =>
        LET k == owned.pubkey
            full == SerializePubkey(k, FALSE)
        IN  {b \in Encodings : k \in ParsePubkey(b)} =
            {SerializePubkey(k, TRUE), full, [full EXCEPT !.tag = IF OddY(k) THEN 7 ELSE 6]}

(* Two parties agree on a secret, and a scalar that is no secret key makes *)
(* the call fail.                                                          *)
Agreement ==
    owned.pubkey # Null =>
        \A other \in Bytes32 :
            /\ Ecdh(owned.pubkey, other).ok = PubkeyCreate(other).ok
            /\ PubkeyCreate(other).ok =>
                  Ecdh(owned.pubkey, other) = Ecdh(PubkeyCreate(other).key, owned.seckey)

(* A public key stays that of its secret key through every change of both, *)
(* has one encoding of each form, and agrees with its peer on a secret.    *)
KeysInStep == PubkeyInStep /\ PairInStep /\ OneEncoding /\ Agreement
-----------------------------------------------------------------------------
(* The sort of hsort_impl.h, and with it secp256k1_ec_pubkey_sort.  An     *)
(* array counts from zero, as in the code.  A key is what                  *)
(* secp256k1_ec_pubkey_cmp compares, its compressed bytes as a number; an  *)
(* invalid key has none and compares as all zeros.                         *)
Child1(i) == 2 * i + 1
Child2(i) == Child1(i) + 1

Swap(arr, i, j) == [arr EXCEPT ![i] = arr[j], ![j] = arr[i]]

Cmp(a, b) == a.key - b.key

HasChildren(i, size) == i < size \div 2

(* One step down: the larger child, of equal ones the second, takes its    *)
(* parent's place if it is larger than the parent.                         *)
StepDown(h, size) ==
    LET i == h.i
        second == Child2(i) < size /\ Cmp(h.arr[Child2(i)], h.arr[Child1(i)]) >= 0
        child == IF second THEN Child2(i) ELSE Child1(i)
    IN  IF h.done \/ ~HasChildren(i, size) THEN [h EXCEPT !.done = TRUE]
        ELSE IF Cmp(h.arr[child], h.arr[i]) > 0
             THEN [h EXCEPT !.arr = Swap(h.arr, i, child), !.i = child]
             ELSE [h EXCEPT !.done = TRUE]

(* size steps are more than a heap is deep. *)
HeapDown(arr, i, size) ==
    FoldLeft(LAMBDA h, step : StepDown(h, size), [arr |-> arr, i |-> i, done |-> FALSE],
             [step \in 1 .. size |-> step]).arr

HSort(arr, count) ==
    LET heap == FoldLeft(LAMBDA a, k : HeapDown(a, count \div 2 - k, count), arr,
                         [k \in 1 .. count \div 2 |-> k])
        Extract(a, k) == HeapDown(Swap(a, 0, count - k), 0, count - k)
    IN  FoldLeft(Extract, heap, [k \in 1 .. count - 1 |-> k])
-----------------------------------------------------------------------------
(* modules/ellswift: a public key as two field elements u and t that look  *)
(* like random bytes.  Decoding takes any two; encoding draws u and one of *)
(* eight branches until there is a t.  Field elements are those of Field.  *)
(* The two cube roots of one, and their opposites. *)
C2 == SetInt(Beta)
C1 == SetInt((Beta * Beta) % FieldPrime)
C3 == SetInt((-C1.v) % FieldPrime)
C4 == SetInt((-C2.v) % FieldPrime)

(* secp256k1_fe_set_b32_mod, of any 32 bytes. *)
FromBytes(n) == Fe(n, 1)
-----------------------------------------------------------------------------
(* The first of three fractions that is an x coordinate: the last one is   *)
(* if the others are not.                                                  *)
XSwiftEcFrac(u, t) ==
    LET u1 == IF NormalizesToZero(u) THEN SetInt(1) ELSE u
        s1 == IF NormalizesToZero(t) THEN SetInt(1) ELSE Sqr(t)
        First(n3, d, n2, p) ==
            IF XFracOnCurveVar(n3, d) THEN <<n3, d>>
            ELSE IF XFracOnCurveVar(n2, p) THEN <<n2, p>>
            ELSE <<Negate(Add(n2, Mul(p, u1)), 2), p>>
        Of(d, p, n2) == First(Add(Mul(d, u1), Negate(Sqr(p), 1)), d, n2, p)
        FromS(g, s) ==
            Of(MulInt(Mul(s, Sqr(u1)), 3), Add(g, s), Mul(Add(Mul(C2, g), Mul(C1, s)), u1))
        FromG(g) ==
            FromS(g, IF NormalizesToZero(Add(g, s1)) THEN MulInt(s1, 4) ELSE s1)
    IN  FromG(AddInt(Mul(Sqr(u1), u1), CurveB))

Quotient(f) == Mul(f[1], Inv(f[2]))

XSwiftEc(u, t) == Quotient(XSwiftEcFrac(u, t))

SwiftEc(u, t) == SetXo(Normalize(XSwiftEc(u, t)).v, IsOdd(t))

(* Always one key. *)
EllswiftDecode(ell) == SwiftEc(FromBytes(ell[1]), Normalize(FromBytes(ell[2])))
-----------------------------------------------------------------------------
NoT == Broken

BitSet(c, w) == (c \div w) % 2 = 1

\* Broken variant: the third fraction is not known to come first.
SwiftRoot_AnyOrder(x, u) ==
    LET sum == Negate(Add(x, u), 2)
        den == Add(Negate(Sqr(sum), 1), Mul(u, x))
        g == AddInt(Mul(Sqr(u), u), CurveB)
    IN  IF ~IsSquare(Mul(den, g)) THEN NoT ELSE Mul(Inv(den), g)

(* The square that t must be the root of for the first two fractions: the  *)
(* third comes first if it is an x coordinate.                             *)
SwiftRoot(x, u) ==
    LET sum == Negate(Add(x, u), 2)
        den == Add(Negate(Sqr(sum), 1), Mul(u, x))
        g == AddInt(Mul(Sqr(u), u), CurveB)
    IN  IF XOnCurveVar(sum) \/ ~IsSquare(Mul(den, g)) THEN NoT ELSE Mul(Inv(den), g)

(* For the third: s is x - u, and the root of q tells its two solutions.   *)
ThirdQ(x, u, s) ==
    LET g4 == AddInt(MulInt(Mul(Sqr(u), u), 4), 4 * CurveB)
    IN  Negate(Mul(Add(MulInt(Mul(s, Sqr(u)), 3), g4), s), 1)

(* The t of branch c, if there is one. *)
XSwiftEcInv(xIn, uIn, c) ==
    LET x == NormalizeWeak(xIn)
        u == NormalizeWeak(uIn)
        Signed(w) == IF BitSet(c, 1) = BitSet(c, 4) THEN Negate(w, 1) ELSE w
        T(s, v) == Mul(Signed(Sqrt(s)), Add(Mul(u, IF BitSet(c, 1) THEN C4 ELSE C3), v))
        ByThird(s, q, r) ==
            IF \/ ~IsSquare(s) \/ ~IsSquare(q)
               \/ (BitSet(c, 1) /\ NormalizesToZero(r)) \/ NormalizesToZero(s)
            THEN NoT ELSE T(s, Half(Add(Mul(Inv(s), r), Negate(u, 1))))
        WithQ(s, q) == ByThird(s, q, Sqrt(q))
        Third(s) == WithQ(s, ThirdQ(x, u, s))
        Other(s) == IF s = NoT THEN NoT ELSE T(s, x)
    IN  IF BitSet(c, 2) THEN Third(Add(Negate(u, 1), x)) ELSE Other(SwiftRoot(x, u))

(* t, or its opposite, of the parity of the key's y. *)
Oriented(t, k) ==
    LET n == Normalize(t)
    IN  IF IsOdd(n) # OddY(k) THEN Normalize(Negate(n, 1)) ELSE n
-----------------------------------------------------------------------------
(* An encoding under way: of a public key, or of that of a secret key,     *)
(* which is one while it is invalid.                                       *)
VARIABLE search

EncodeStart ==
    \E k \in 1 .. Order - 1 : search = [key |-> k, valid |-> TRUE, done |-> FALSE, ell |-> <<0, 0>>]

CreateStart ==
    \E n \in Bytes32 :
        search = [key |-> IF ValidSeckey(n) THEN n ELSE 1, valid |-> ValidSeckey(n),
                  done |-> FALSE, ell |-> <<0, 0>>]

(* The hash never answers zero for u. *)
DrawU(u32, c) ==
    LET u == FromBytes(u32)
        After(t) ==
            IF t = NoT THEN search
            ELSE [search EXCEPT
                    !.done = TRUE,
                    !.ell = IF search.valid THEN <<u32, Oriented(t, search.key).v>> ELSE <<0, 0>>]
    IN  /\ ~search.done /\ ~NormalizesToZero(u)
        /\ search' = After(XSwiftEcInv(Fe(X(search.key), 1), u, c))

EncodeInit == EncodeStart \/ CreateStart

EncodeNext == \E u32 \in Bytes32, c \in 0 .. 7 : DrawU(u32, c)
-----------------------------------------------------------------------------
(* The shared x coordinate, from the other's encoding; the secret key is   *)
(* one if it counts as invalid.                                            *)
Xdh(ellA, ellB, seckey, party) ==
    LET theirs == IF party THEN ellA ELSE ellB
        s == IF Reduced(seckey) = 0 THEN 1 ELSE Reduced(seckey)
        XTimes(x) == CHOOSE k \in 1 .. Order - 1 : X(k) = x
        k == XTimes(Normalize(XSwiftEc(FromBytes(theirs[1]), FromBytes(theirs[2]))).v)
    IN  [ok |-> Reduced(seckey) # 0, x |-> X((s * k) % Order), a |-> ellA, b |-> ellB]
-----------------------------------------------------------------------------
(* Multiples of the generator in constant time (ecmult_gen_impl.h): a comb *)
(* over the bits of a blinded scalar, and the context that holds the       *)
(* blinding.  What the DRBG yields from a seed is any pair of values.      *)
CONSTANTS
    CombRange, CombBlocks, CombTeeth,   \* COMB_RANGE, COMB_BLOCKS, COMB_TEETH
    Factors                             \* the field elements a seed may yield

VARIABLE ctx        \* secp256k1_ecmult_gen_context

ASSUME CombAssumption ==
    /\ CombBlocks >= 1 /\ CombTeeth >= 1
    /\ 2 ^ (CombRange - 1) <= Order /\ Order < 2 ^ CombRange
    /\ Factors \subseteq Residue

CombSpacing ==
    (CombRange + CombBlocks * CombTeeth - 1) \div (CombBlocks * CombTeeth)
CombBits == CombBlocks * CombTeeth * CombSpacing
CombPoints == 2 ^ (CombTeeth - 1)

Scalar == 0 .. Order - 1
Bit(d, i) == (d \div (2 ^ i)) % 2
OneHalf == (Order + 1) \div 2           \* secp256k1_scalar_half of one

Times(n, Op(_, _), start) == FoldLeft(Op, start, [i \in 1 .. n |-> i - 1])
-----------------------------------------------------------------------------
(* The table, from half the generator on: per block the sum of its teeth,  *)
(* each with either sign, the last one negative.                           *)
AddGIf(bit, d) == IF bit = 1 THEN GejAddGeVar(d, Point(1, 1, 1)).p ELSE d

HalfGenerator ==
    Times(CombRange,
          LAMBDA u, i : AddGIf(Bit(OneHalf, CombRange - 1 - i), GejDoubleVar(u).p), GejInfinity)

Doubled(u, n) == Times(n, LAMBDA p, i : GejDoubleVar(p).p, u)

(* One tooth of a block: t.u is its power, double the next one.  Between   *)
(* teeth the power moves on, but not after the last one of all.            *)
AddTooth(t, double, last) ==
    [sum |-> GejAddVar(t.sum, t.u).p, ds |-> Append(t.ds, double),
     u |-> IF last THEN double ELSE Doubled(double, CombSpacing - 1)]

Widen(vs, d) == vs \o [i \in DOMAIN vs |-> GejAddVar(vs[i], d).p]

BlockOf(vs, teeth) ==
    [u |-> teeth.u,
     vs |-> vs \o Times(CombTeeth - 1, LAMBDA block, tooth : Widen(block, teeth.ds[tooth + 1]),
                        <<GejNeg(teeth.sum)>>)]

(* One block: acc.u is the power it starts from. *)
TableBlock(acc, block) ==
    BlockOf(acc.vs,
            Times(CombTeeth,
                  LAMBDA t, tooth :
                      AddTooth(t, GejDoubleVar(t.u).p,
                               block + tooth = CombBlocks + CombTeeth - 2),
                  [sum |-> GejInfinity, ds |-> <<>>, u |-> acc.u]))

PrecTable ==
    SetAllGejVar(Times(CombBlocks, TableBlock, [u |-> HalfGenerator, vs |-> <<>>]).vs)

(* The storage of a table has no room for infinity. *)
ASSUME TableAssumption == \A i \in DOMAIN PrecTable : ~PrecTable[i].inf
-----------------------------------------------------------------------------
ScalarDiff == (2 ^ (CombBits - 1) - OneHalf) % Order

(* The bits of d under one block's mask, packed. *)
Gathered(d, block, off) ==
    Times(CombTeeth,
          LAMBDA bits, tooth :
              bits + 2 ^ tooth * Bit(d, (block * CombTeeth + tooth) * CombSpacing + off),
          0)

(* An upper half of the table is the lower one read backwards, negated. *)
Entry(bits) ==
    IF bits < CombPoints THEN bits ELSE 2 * CombPoints - 1 - bits

NegateIf(y, flag) == Cmov(y, Negate(y, 1), flag)

ReadEntry(p, upper) == SetXy(Normalize(p.x), NegateIf(Normalize(p.y), upper))

Lookup(block, bits) ==
    ReadEntry(PrecTable[block * CombPoints + Entry(bits) + 1], bits >= CombPoints)

(* The first entry of all starts the sum, rescaled for the blinding. *)
AddEntry(r, add, first, proj_blind) ==
    IF first THEN Rescale(GejSetGe(add), proj_blind) ELSE GejAddGe(r, add)

AddRow(r, c, d, off) ==
    Times(CombBlocks,
          LAMBDA p, block :
              AddEntry(p, Lookup(block, Gathered(d, block, off)),
                       off = CombSpacing - 1 /\ block = 0, c.proj_blind),
          r)

DoubleUnless(last, p) == IF last THEN p ELSE GejDouble(p)

\* d is read beyond its bits, where it is zero.
GenOf(c, d) ==
    GejAddGe(Times(CombSpacing,
                   LAMBDA r, i :
                       DoubleUnless(i = CombSpacing - 1, AddRow(r, c, d, CombSpacing - 1 - i)),
                   GejInfinity),
             c.ge_offset)

(* gn times the generator. *)
Gen(c, gn) == GenOf(c, (c.scalar_offset + gn) % Order)
-----------------------------------------------------------------------------
(* The values without a seed: a blinding of minus one. *)
Unblinded(c) ==
    [c EXCEPT !.ge_offset = GeNeg(Point(1, 1, 1)),
              !.scalar_offset = (1 + ScalarDiff) % Order,
              !.proj_blind = SetInt(1)]

OrOne(v) == IF v = 0 THEN 1 ELSE v

(* A new blinding b, multiplied under the old one. *)
Reblinded(c, f, b) ==
    [c EXCEPT !.proj_blind = f, !.scalar_offset = (ScalarDiff - b) % Order,
              !.ge_offset = SetGej(Gen([c EXCEPT !.proj_blind = f], b)).r]

(* A factor of zero is replaced by one, and so is a blinding of zero. *)
Factor(v) == Cmov(Fe(v, 1), SetInt(1), NormalizesToZero(Fe(v, 1)))
-----------------------------------------------------------------------------
Cleared ==
    [built |-> FALSE, scalar_offset |-> 0, ge_offset |-> SetXy(SetInt(0), SetInt(0)),
     proj_blind |-> SetInt(0)]

ContextInit == ctx = Cleared

ContextBuild == ctx' = [Unblinded(ctx) EXCEPT !.built = TRUE]

ContextClear == ctx' = Cleared

(* secp256k1_ecmult_gen_blind, of a context that is built. *)
BlindReset == ctx.built /\ ctx' = Unblinded(ctx)

Blind ==
    /\ ctx.built
    /\ \E v \in Factors, n \in Scalar : ctx' = Reblinded(ctx, Factor(v), OrOne(n))

ContextNext == ContextBuild \/ ContextClear \/ BlindReset \/ Blind
=============================================================================
