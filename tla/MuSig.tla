------------------------------- MODULE MuSig --------------------------------
(***************************************************************************)
(* modules/schnorrsig: signatures for the x-only keys of Keys.  A message  *)
(* is a number, and Hash stands for the tagged hashes: a number of 32      *)
(* bytes for a tag and what is written.                                    *)
(*                                                                         *)
(* modules/musig: several signers, one such signature.  A signer's         *)
(* objects, the secret nonce and the buffer of random bytes it comes from  *)
(* among them, change under its calls; what is public is common to all.    *)
(* An object a call zeroed or never wrote is Nil: the next call on it      *)
(* fails.                                                                  *)
(***************************************************************************)
EXTENDS Keys

CONSTANTS Hash(_, _), Messages

Challenge(r, msg, pk) == Reduced(Hash("challenge", <<r, pk, msg>>))

NoAux == 0      \* no auxiliary bytes are 32 zeros: their hash is precomputed

Aux(data) == IF data = {} THEN NoAux ELSE CHOOSE a \in data : TRUE

(* The key goes in under the mask of the hashed auxiliary bytes. *)
NonceBip340(msg, key, pk, data) ==
    Hash("nonce", <<Hash("aux", <<Aux(data)>>), key, pk, msg>>)

Sig(r, s) == [r |-> r, s |-> s]
ZeroSig == Sig(0, 0)

(* The secret key of the x-only key of a pair. *)
SecretFor(pair) == IF OddY(pair.pk) THEN Minus(pair.sk) ELSE pair.sk

(* For a pair and what the nonce function answers.  Key and nonce are      *)
(* those of points with an even y; without a nonce all is done with one,   *)
(* and then zeroed.                                                        *)
SignInternal(pair, msg, buf, given) ==
    LET sk == SecretFor(pair)
        ret == given /\ Reduced(buf) # 0
        k0 == IF ret THEN Reduced(buf) ELSE 1
        k == IF OddY(k0) THEN Minus(k0) ELSE k0
        e == Challenge(X(k0), msg, X(pair.pk))
    IN  [ok |-> ret, sig |-> IF ret THEN Sig(X(k0), (e * sk + k) % Order) ELSE ZeroSig]

\* Broken variant: s may say more than the order.
SchnorrVerify_Reduced(sig, msg, k) ==
    LET r == (sig.s - Challenge(sig.r, msg, X(k)) * k) % Order
    IN  sig.r < FieldPrime /\ r # 0 /\ ~OddY(r) /\ X(r) = sig.r

(* k is that of the x-only key. *)
SchnorrVerify(sig, msg, k) ==
    LET r == (sig.s - Challenge(sig.r, msg, X(k)) * k) % Order
    IN  sig.r < FieldPrime /\ ~Overflows(sig.s) /\ r # 0 /\ ~OddY(r) /\ X(r) = sig.r

(* What comes out is valid for the x-only key k, or all zero.              *)
ValidOrZero(answer, msg, k) ==
    IF answer.ok THEN SchnorrVerify(answer.sig, msg, k) ELSE answer.sig = ZeroSig

(* An x coordinate has exactly one s, of all that 32 bytes can say.        *)
HasOneS(r, msg, k) ==
    Cardinality({s \in Bytes32 : SchnorrVerify(Sig(r, s), msg, k)}) = Cardinality(XonlyParse(r))
-----------------------------------------------------------------------------
(* A signer with any pair, message and nonce, who signs once: with the     *)
(* nonce function of BIP 340, or with the caller's own.                    *)
CONSTANT AuxBytes       \* what may be given as auxiliary bytes

VARIABLE schnorr

NoSchnorr == <<>>       \* before any call

SchnorrInit ==
    \E n \in Bytes32, msg \in Messages :
        /\ KeypairCreate(n) # KeypairNull
        /\ schnorr = [pair |-> KeypairCreate(n), msg |-> msg, signed |-> FALSE,
                      answer |-> [ok |-> FALSE, sig |-> ZeroSig]]

SignWith(buf, given) ==
    /\ ~schnorr.signed
    /\ schnorr' = [schnorr EXCEPT !.signed = TRUE,
                                  !.answer = SignInternal(schnorr.pair, schnorr.msg, buf, given)]

SignBip340(data) ==
    SignWith(NonceBip340(schnorr.msg, SecretFor(schnorr.pair), X(schnorr.pair.pk), data), TRUE)

SchnorrNext ==
    \/ SignBip340({}) \/ \E aux \in AuxBytes : SignBip340({aux})
    \/ \E buf \in Bytes32, given \in BOOLEAN : SignWith(buf, given)

SchnorrSpec == SchnorrInit /\ [][SchnorrNext]_schnorr

(* No point has an x coordinate of zero. *)
ASSUME ZeroAssumption == XonlyParse(0) = {}

ASSUME NonceAssumption ==
    \A a \in AuxBytes \cup {NoAux} :
        /\ Hash("aux", <<a>>) \in Bytes32
        /\ \A msg \in Messages, sk \in 1 .. Order - 1, pk \in Residue :
              Hash("nonce", <<Hash("aux", <<a>>), sk, pk, msg>>) \in Bytes32

(* What comes out is valid for the x-only key, or all zero, which is not.  *)
SignsForXonly ==
    schnorr # NoSchnorr /\ schnorr.signed =>
        LET k == EvenY(schnorr.pair.pk)
        IN  /\ ValidOrZero(schnorr.answer, schnorr.msg, k)
            /\ ~SchnorrVerify(ZeroSig, schnorr.msg, k)

(* Nobody makes another signature of it: an x coordinate has one s.        *)
OneSPerNonce ==
    schnorr # NoSchnorr /\ ~schnorr.signed =>
        \A r \in Bytes32 : HasOneS(r, schnorr.msg, EvenY(schnorr.pair.pk))

(* A Schnorr signature that comes out is valid for the x-only key and the  *)
(* only one of its nonce.                                                  *)
SchnorrHolds == SignsForXonly /\ OneSPerNonce
-----------------------------------------------------------------------------
CONSTANTS
    NumSigners,     \* n_pubkeys, n_pubnonces and n_sigs
    KeyRings,       \* what their keys may be
    Seckeys,        \* what may be given as one
    Draws,          \* the random bytes a buffer may be filled with, in turn
    Tweaks,
    Received,       \* what may come in place of a partial signature
    MaxTweaks       \* how often the key is tweaked

Signers == 1 .. NumSigners      \* in the order of the aggregated keys

VARIABLES
    keys,           \* the secret keys
    cache,          \* the key aggregation cache, the same for all
    tweaks,         \* those that went into it
    secrand,        \* each signer's buffer, 0 when zeroed
    drawn,          \* how many were drawn
    secnonce, pubnonce, partial,
    session,
    made            \* a history: which secret nonces signed what

musig == <<keys, cache, tweaks, secrand, drawn, secnonce, pubnonce, partial, session>>

Nil == <<>>
NoPartial == -1
-----------------------------------------------------------------------------
(* Sums of points and of scalars. *)
Total(f) ==
    LET sum[i \in 0 .. NumSigners] ==
            IF i = 0 THEN 0 ELSE (sum[i - 1] + f[i]) % Order
    IN  sum[NumSigners]

Pubkeys == [i \in Signers |-> PubkeyCreate(keys[i]).key]

(* The first key that is not the first key: its coefficient is one. *)
Second(pks) ==
    LET others == {i \in Signers : pks[i] # pks[1]}
    IN  IF others = {} THEN Null ELSE pks[CHOOSE i \in others : \A j \in others : i <= j]

PksHash(pks) == Hash("list", [i \in Signers |-> pks[i]])

KeyAggCoef(second, hash, pk) ==
    IF second # Null /\ pk = second THEN 1 ELSE Reduced(Hash("coefficient", <<hash, pk>>))

CoefIn(c, pk) == KeyAggCoef(c.second, c.hash, pk)

PubkeyAgg(pks) ==
    LET second == Second(pks)
        hash == PksHash(pks)
    IN  [pk |-> Total([i \in Signers |-> (KeyAggCoef(second, hash, pks[i]) * pks[i]) % Order]),
         second |-> second, hash |-> hash, parity |-> FALSE, tweak |-> 0]

(* The cache after a tweak; a tweak that fails leaves it as it was. *)
TweakAdd(c, t, xonly) ==
    LET flip == xonly /\ OddY(c.pk)
        r == TweakAdded(IF flip THEN Minus(c.pk) ELSE c.pk, t)
    IN  IF r.ok THEN [c EXCEPT !.pk = r.key, !.parity = (@ # flip),
                               !.tweak = ((IF flip THEN Minus(@) ELSE @) + t) % Order]
        ELSE c

(* The key that signs is negated for the key it is part of. *)
Negated(c) == OddY(c.pk) # c.parity

SignFor(negate, n) == IF negate THEN Minus(n) ELSE n
-----------------------------------------------------------------------------
(* Two nonces from the random bytes and all that is known. *)
NoncesFor(rand, seckey, pk, x) ==
    [j \in 1 .. 2 |-> Reduced(Hash("nonce", <<rand, seckey, pk, x, j>>))]

Nonces(rand, seckey, pk) == NoncesFor(rand, seckey, pk, X(cache.pk))

Effective(nonce, b) == (nonce[1] + b * nonce[2]) % Order

(* An aggregated nonce that is infinity is replaced by the generator. *)
SessionOf(nonces, msg, c) ==
    LET agg == [j \in 1 .. 2 |-> Total([i \in Signers |-> nonces[i][j]])]
        b == Reduced(Hash("noncecoef", <<agg[1], agg[2], X(c.pk), msg>>))
        r == IF Effective(agg, b) = 0 THEN 1 ELSE Effective(agg, b)
        e == Challenge(X(r), msg, X(c.pk))
    IN  [parity |-> OddY(r), nonce |-> X(r), b |-> b, e |-> e,
         part |-> SignFor(OddY(c.pk), (e * c.tweak) % Order),
         nonces |-> nonces, msg |-> msg, infinite |-> Effective(agg, b) = 0]

\* Broken variant: the parity of the aggregated key alone decides.
PartialSign_NoAcc(sk, k, c, ses) ==
    LET d == SignFor(OddY(c.pk), sk)
        kk == [j \in 1 .. 2 |-> SignFor(ses.parity, k[j])]
    IN  (ses.e * CoefIn(c, PubkeyCreate(sk).key) * d + Effective(kk, ses.b)) % Order

PartialSign(sk, k, c, ses) ==
    LET d == SignFor(Negated(c), sk)
        kk == [j \in 1 .. 2 |-> SignFor(ses.parity, k[j])]
    IN  (ses.e * CoefIn(c, PubkeyCreate(sk).key) * d + Effective(kk, ses.b)) % Order

PartialSigVerify(s, pubnonces, pk, c, ses) ==
    LET e == SignFor(Negated(c), ses.e * CoefIn(c, pk))
    IN  (e * pk + SignFor(ses.parity, Effective(pubnonces, ses.b)) - s) % Order = 0

PartialSigAgg(ses, partials) == Sig(ses.nonce, (ses.part + Total(partials)) % Order)
-----------------------------------------------------------------------------
ASSUME MuSigAssumption ==
    /\ NumSigners \in Nat \ {0}
    /\ KeyRings \subseteq [Signers -> 1 .. Order - 1]
    /\ Received \subseteq Bytes32 /\ Tweaks \subseteq Bytes32 /\ Seckeys \subseteq Bytes32

ASSUME HashAssumption ==
    /\ \A pks \in [Signers -> 1 .. Order - 1] : Hash("list", pks) \in Bytes32
    /\ \A hash \in Bytes32, pk \in 1 .. Order - 1 : Hash("coefficient", <<hash, pk>>) \in Bytes32
    /\ \A c \in DOMAIN Draws, sk \in 1 .. Order, pk \in 1 .. Order - 1, x \in Residue, j \in 1 .. 2 :
          Hash("nonce", <<Draws[c], sk, pk, x, j>>) \in Bytes32
    /\ \A r1, r2 \in 0 .. Order - 1, x \in Residue, msg \in Messages :
          Hash("noncecoef", <<r1, r2, x, msg>>) \in Bytes32
    /\ \A r, pk \in Residue, msg \in Messages : Hash("challenge", <<r, pk, msg>>) \in Bytes32

(* Random bytes come only once, as the caller has to see to, and the hash  *)
(* makes different nonces of them.                                         *)
ASSUME DrawsAssumption ==
    /\ Draws \in Seq(Bytes32 \ {0})
    /\ \A c, d \in DOMAIN Draws : Draws[c] = Draws[d] => c = d
    /\ \A ring \in KeyRings, x \in Residue, i, j \in Signers, c, d \in DOMAIN Draws :
          NoncesFor(Draws[c], ring[i], ring[i], x) = NoncesFor(Draws[d], ring[j], ring[j], x)
             => c = d
-----------------------------------------------------------------------------
MuSigInit ==
    /\ keys \in KeyRings
    /\ cache = PubkeyAgg(Pubkeys) /\ cache.pk # 0       \* of negligible probability
    /\ tweaks = <<>>
    /\ secrand = [i \in Signers |-> 0] /\ drawn = 0
    /\ secnonce = [i \in Signers |-> Nil] /\ pubnonce = [i \in Signers |-> Nil]
    /\ partial = [i \in Signers |-> NoPartial]
    /\ session = Nil

(* Tweaks come before the session. *)
PubkeyTweakAddCall(t, xonly) ==
    /\ session = Nil /\ drawn = 0 /\ Len(tweaks) < MaxTweaks
    /\ cache' = TweakAdd(cache, t, xonly)
    /\ tweaks' = Append(tweaks, <<t, xonly>>)
    /\ UNCHANGED <<keys, secrand, drawn, secnonce, pubnonce, partial, session>>

(* A bound: one draw less with a tweaked key. *)
DrawsLeft == Len(Draws) - (IF tweaks = <<>> THEN 0 ELSE 1)

Draw(i) ==
    /\ drawn < DrawsLeft /\ drawn' = drawn + 1
    /\ secrand' = [secrand EXCEPT ![i] = Draws[drawn']]
    /\ UNCHANGED <<keys, cache, tweaks, secnonce, pubnonce, partial, session>>

\* Broken variant: the buffer keeps the random bytes.
NonceGen_Kept(i) ==
    /\ IF secrand[i] = 0
       THEN secnonce' = [secnonce EXCEPT ![i] = Nil] /\ UNCHANGED pubnonce
       ELSE LET k == Nonces(secrand[i], keys[i], Pubkeys[i])
            IN  /\ 0 \notin Range(k)
                /\ secnonce' = [secnonce EXCEPT ![i] = [k |-> k, pk |-> Pubkeys[i]]]
                /\ pubnonce' = [pubnonce EXCEPT ![i] = k]
    /\ UNCHANGED <<keys, cache, tweaks, secrand, drawn, partial, session>>

(* The bytes are used once.  A call that finds them zeroed leaves no       *)
(* secret nonce, and the public one as it was.                             *)
NonceGen(i) ==
    /\ IF secrand[i] = 0
       THEN secnonce' = [secnonce EXCEPT ![i] = Nil] /\ UNCHANGED <<pubnonce, secrand>>
       ELSE LET k == Nonces(secrand[i], keys[i], Pubkeys[i])
            IN  /\ 0 \notin Range(k)                    \* of negligible probability
                /\ secnonce' = [secnonce EXCEPT ![i] = [k |-> k, pk |-> Pubkeys[i]]]
                /\ pubnonce' = [pubnonce EXCEPT ![i] = k]
                /\ secrand' = [secrand EXCEPT ![i] = 0]
    /\ UNCHANGED <<keys, cache, tweaks, drawn, partial, session>>

(* A key that is no secret key makes the call fail at the end: the secret  *)
(* nonce is zeroed, the public one is there, and the bytes stay.           *)
NonceGenInvalidKey(i) ==
    /\ secrand[i] # 0
    /\ secnonce' = [secnonce EXCEPT ![i] = Nil]
    /\ pubnonce' = [pubnonce EXCEPT ![i] = Nonces(secrand[i], Order, Pubkeys[i])]
    /\ 0 \notin Range(pubnonce'[i])
    /\ UNCHANGED <<keys, cache, tweaks, secrand, drawn, partial, session>>

(* nonce_agg and nonce_process with the nonces as they are announced. *)
NonceProcess(msg) ==
    /\ \A i \in Signers : pubnonce[i] # Nil
    /\ session' = SessionOf(pubnonce, msg, cache)
    /\ partial' = [i \in Signers |-> NoPartial]
    /\ UNCHANGED <<keys, cache, tweaks, secrand, drawn, secnonce, pubnonce>>

(* The secret nonce is gone whether the call succeeds or, given another    *)
(* key, fails.                                                             *)
PartialSignCall(i, sk) ==
    /\ session # Nil /\ secnonce[i] # Nil
    /\ secnonce' = [secnonce EXCEPT ![i] = Nil]
    /\ partial' = IF PubkeyCreate(sk).key # secnonce[i].pk THEN partial
                  ELSE [partial EXCEPT ![i] = PartialSign(sk, secnonce[i].k, cache, session)]
    /\ UNCHANGED <<keys, cache, tweaks, secrand, drawn, pubnonce, session>>

(* Somebody's partial signature as it was received. *)
PartialSigParse(i, n) ==
    /\ session # Nil /\ partial[i] = NoPartial
    /\ partial' = IF Overflows(n) THEN partial ELSE [partial EXCEPT ![i] = n]
    /\ UNCHANGED <<keys, cache, tweaks, secrand, drawn, secnonce, pubnonce, session>>

MuSigNext ==
    \/ \E t \in Tweaks, xonly \in BOOLEAN : PubkeyTweakAddCall(t, xonly)
    \/ \E i \in Signers : Draw(i) \/ NonceGen(i) \/ NonceGenInvalidKey(i)
    \/ \E msg \in Messages : NonceProcess(msg)
    \/ \E i \in Signers, sk \in Seckeys : PartialSignCall(i, sk)
    \/ \E i \in Signers, n \in Received : PartialSigParse(i, n)

HasSigned(i) == secnonce[i] # Nil /\ secnonce'[i] = Nil /\ partial'[i] # partial[i]

MuSigStep ==
    /\ MuSigNext
    /\ made' = made \cup {[k |-> secnonce[i].k, e |-> session.e, b |-> session.b] :
                            i \in {j \in Signers : HasSigned(j)}}

MuSigSpec == MuSigInit /\ made = {} /\ [][MuSigStep]_<<musig, made>>
-----------------------------------------------------------------------------
(* No call, successful or not, in whatever order, makes a secret nonce     *)
(* sign twice.                                                             *)
NonceOnce == \A m, n \in made : m.k = n.k => m = n

(* Tweaks plain and x-only add up to one tweak of one of two keys, which   *)
(* is what signing knows of them.                                          *)
TweaksInStep ==
    cache # Nil =>
        cache.pk = (SignFor(cache.parity, PubkeyAgg(Pubkeys).pk) + cache.tweak) % Order

Verifies(i) == PartialSigVerify(partial[i], session.nonces[i], Pubkeys[i], cache, session)

(* A signer who signs with the nonce the session knows is never blamed.    *)
HonestVerifies ==
    [][cache # Nil => \A i \in Signers :
          HasSigned(i) /\ secnonce[i].k = session.nonces[i] => Verifies(i)']_<<musig, made>>

(* Partial signatures that verify make a signature of the tweaked key, and *)
(* one that does not verify makes none: the signer to blame is found.      *)
(* Nonces that cancel are nobody's honest ones.                            *)
Aggregates ==
    session # Nil /\ (\A i \in Signers : partial[i] # NoPartial) =>
        LET wrong == Cardinality({i \in Signers : ~Verifies(i)})
            valid == SchnorrVerify(PartialSigAgg(session, partial), session.msg, EvenY(cache.pk))
        IN  /\ wrong = 0 /\ ~session.infinite => valid
            /\ wrong = 1 /\ ~session.infinite => ~valid

(* Of several signers, no secret nonce signs twice, and partial signatures *)
(* add up under every tweak of the key, unless one is to blame.            *)
MuSigHolds == NonceOnce /\ TweaksInStep /\ Aggregates
=============================================================================
