--------------------------- MODULE WalletPromise ---------------------------
(***************************************************************************)
(* What the wallet promises its callers: every call ends, at one instant,  *)
(* with the answer that BIP32 derivation with private keys alone gives.    *)
(* There are no nodes, no cached public keys, no context and no public     *)
(* derivation here: the key an extended public key leads to is promised to *)
(* be the public key of the private derivation.                            *)
(***************************************************************************)
EXTENDS WalletApi

CONSTANT Thread

VARIABLES
    busy,       \* the threads inside a call
    request,    \* the last call of each thread
    answer,     \* what it ended with
    issued      \* the extended keys handed out

promiseVars == <<busy, request, answer, issued>>
-----------------------------------------------------------------------------
(* A secret: a private key and its chain code, if the derivation got there. *)
Master(seed) ==
    [ok |-> TRUE, k |-> MasterHmac[seed][1], c |-> MasterHmac[seed][2]]

Public(k) == IF 2 * k < Order THEN <<2, k>> ELSE <<3, Order - k>>

(* The choice of the one child is for TLC, which evaluates a bound x once. *)
Child(parent, i) ==
    LET ChildOf(x) ==
            LET h == ChildHmac[<<x.c, IF IsHardened(i) THEN <<0, x.k>>
                                      ELSE Public(x.k % Order), i>>]
                k == (x.k + h[1]) % Order
            IN  [ok |-> x.ok /\ x.k \in Point /\ h[1] \in Point /\ k # 0,
                 k |-> k, c |-> h[2]]
    IN  CHOOSE y \in {ChildOf(x) : x \in {parent}} : TRUE

(* From x, one child after the other. *)
Descendant(x, indices) ==
    LET reached[n \in 0 .. Len(indices)] ==
            IF n = 0 THEN x ELSE Child(reached[n - 1], indices[n])
    IN  reached[Len(indices)]

CoinNode(seed, c) ==
    Descendant(Master(seed), <<Harden(Purpose), Harden(c)>>)

(* The secret behind an extended key, which for a public one its holder    *)
(* does not know.                                                          *)
SecretOf(e) ==
    [ok |-> \/ e.version = "xprv" /\ e.key[1] = 0
            \/ e.version = "xpub" /\ PubkeyParseOK(e.key),
     k |-> IF e.version = "xprv" THEN e.key[2] ELSE PubkeyParse(e.key),
     c |-> e.chain_code]

Secret(r) ==
    IF r.call \in ExtendedCalls
    THEN Descendant(SecretOf(r.extended), <<change(r.path), address(r.path)>>)
    ELSE IF r.call \in AccountCalls
    THEN Child(CoinNode(r.seed, r.coin), AccountIndex(r.account))
    ELSE Descendant(Master(r.seed), DerivationIndices(r.path))

(* Which kind of extended key a call takes, and that a public one leads to *)
(* no hardened child.                                                      *)
Admissible(r) ==
    /\ r.call \in PrvExtendedCalls => r.extended.version = "xprv"
    /\ r.call \in PubExtendedCalls =>
          /\ r.extended.version = "xpub"
          /\ ~IsHardened(change(r.path)) /\ ~IsHardened(address(r.path))

PromisedKey(r, k) ==
    IF r.call \in PrivateKeyCalls THEN PrivateKey(k)
    ELSE IF r.call \in PublicKeyCalls THEN Public(k)
    ELSE <<65, Keccak256[k]>>

PromisedExtended(r, x) ==
    [version |-> IF r.call = "getPublicExtended" THEN "xpub" ELSE "xprv",
     depth |-> AccountDepth,
     fingerprint |-> Hash160[Public(CoinNode(r.seed, r.coin).k)],
     child_num |-> AccountIndex(r.account), chain_code |-> x.c,
     key |-> IF r.call = "getPublicExtended" THEN Public(x.k)
             ELSE PrivateKey(x.k)]

(* The master key is handed out unchecked; a public key needs a valid one. *)
Promised(r) ==
    LET x == Secret(r)
    IN  IF ~x.ok \/ ~Admissible(r) THEN Thrown
        ELSE IF r.call \in AccountCalls
        THEN ReturnedExtended(PromisedExtended(r, x))
        ELSE IF r.call \notin PrivateKeyCalls /\ x.k \notin Point THEN Thrown
        ELSE ReturnedKey(PromisedKey(r, x.k))
-----------------------------------------------------------------------------
Init ==
    /\ busy = {}
    /\ request = [t \in Thread |-> NoRequest]
    /\ answer = [t \in Thread |-> NoAnswer]
    /\ issued = {}

(* Any call at all.  A wallet is made of the bytes of the caller's array,  *)
(* of all of them when there are enough.                                   *)
Begin(t) ==
    /\ t \notin busy
    /\ request' \in [Thread -> Request]
    /\ \A u \in Thread \ {t} : request'[u] = request[u]
    /\ request'[t].call \notin ExtendedCalls =>
          request'[t].seed \in CopySeed(request'[t].vector)
    /\ answer' = [answer EXCEPT ![t] = NoAnswer]
    /\ busy' = busy \cup {t}
    /\ UNCHANGED issued

End(t) ==
    LET r == request[t]
        a == Promised(r)
    IN  /\ t \in busy
        /\ answer' = [answer EXCEPT ![t] = a]
        /\ issued' = issued \cup
              (IF r.call \in AccountCalls /\ a.status = "returned"
               THEN {IssueOf(r, a.extended)} ELSE {})
        /\ busy' = busy \ {t}
        /\ UNCHANGED request

Next == \E t \in Thread : Begin(t) \/ End(t)

Spec == Init /\ [][Next]_promiseVars
=============================================================================
