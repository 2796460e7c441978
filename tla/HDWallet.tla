------------------------------ MODULE HDWallet ------------------------------
(***************************************************************************)
(* The wallet of hd_wallet.cpp under the calls the JNI library composes:   *)
(* threads make calls at any moment and each call runs through its steps,  *)
(* one child derivation at a time, over locals of its own.  What threads   *)
(* share is the secp256k1 context, built by the first that needs it, and   *)
(* the extended keys, which any caller may pass back, in whatever order.   *)
(* A C++ exception ends the call that threw it, and no other.              *)
(***************************************************************************)
EXTENDS WalletApi, FiniteSets

CONSTANTS
    Thread,
    MaxCalls        \* bound: how many calls are made in a behaviour

VARIABLES
    guard, builders, contexts,  \* the static of curve.cpp
    pc,             \* where each thread is in its call
    request,        \* its call
    node,           \* the local HDNode
    todo,           \* the indices the call has yet to derive
    fingerprint,    \* fingerprintValue of an account call
    answer,         \* what its last call ended with
    issued,         \* the extended keys callers hold
    calls           \* how many calls were made

Ctx == INSTANCE Curve

ctxVars == <<guard, builders, contexts>>
callVars == <<pc, request, node, todo, fingerprint, answer>>
vars == <<ctxVars, callVars, issued, calls>>
-----------------------------------------------------------------------------
Init ==
    /\ Ctx!Init
    /\ pc = [t \in Thread |-> "idle"]
    /\ request = [t \in Thread |-> NoRequest]
    /\ node = [t \in Thread |-> ZeroNode]
    /\ todo = [t \in Thread |-> <<>>]
    /\ fingerprint = [t \in Thread |-> Hash160[Zero33]]
    /\ answer = [t \in Thread |-> NoAnswer]
    /\ issued = {}
    /\ calls = 0

CallOf(t) == request[t].call
FromPublic(t) == CallOf(t) \in PubExtendedCalls

(* The call of t ends with answer a and its locals go out of scope. *)
Leave(t, a) ==
    /\ pc' = [pc EXCEPT ![t] = "idle"]
    /\ answer' = [answer EXCEPT ![t] = a]
    /\ node' = [node EXCEPT ![t] = ZeroNode]
    /\ todo' = [todo EXCEPT ![t] = <<>>]
    /\ fingerprint' = [fingerprint EXCEPT ![t] = Hash160[Zero33]]
    /\ UNCHANGED request

Return(t, a) ==
    /\ Leave(t, a)
    /\ UNCHANGED <<issued, calls, ctxVars>>

(* An exception unwinds the call. *)
Throw(t) == Return(t, Thrown)

(* The step t is at asks for the context: every one that touches the curve.*)
(* publicCkd refuses a hardened index before it does; a private key, and a *)
(* public key that is already in the node, are handed out without it.      *)
NeedsContext(t) ==
    \/ pc[t] = "derive" /\ ~(FromPublic(t) /\ IsHardened(Head(todo[t])))
    \/ pc[t] \in {"fingerprint", "account"}
    \/ /\ pc[t] = "finish"
       /\ CallOf(t) \notin PrivateKeyCalls
       /\ CallOf(t) \notin {"getPrivateExtended", "getPublicKeyFromExtended"}

HasContext(t) == NeedsContext(t) => Ctx!Ready

EnterInitialiser(t) ==
    /\ NeedsContext(t)
    /\ Ctx!EnterInitialiser(t)
    /\ UNCHANGED <<callVars, issued, calls>>

LeaveInitialiser(t) ==
    /\ Ctx!LeaveInitialiser(t)
    /\ UNCHANGED <<callVars, issued, calls>>
-----------------------------------------------------------------------------
(* A caller calls; the wallet is constructed with its copy of the seed. *)
Begin(t) ==
    /\ pc[t] = "idle"
    /\ calls < MaxCalls
    /\ \E r \in Requests({i.extended : i \in issued}) :
          /\ request' = [request EXCEPT ![t] = r]
          /\ pc' = [pc EXCEPT ![t] = IF r.call \in ExtendedCalls
                                     THEN "deserialize" ELSE "root"]
    /\ answer' = [answer EXCEPT ![t] = NoAnswer]
    /\ calls' = calls + 1
    /\ UNCHANGED <<node, todo, fingerprint, issued, ctxVars>>

(* The part of the path a call derives before its last step. *)
SeedIndices(r) ==
    IF r.call \in AccountCalls THEN <<Harden(Purpose), Harden(r.coin)>>
    ELSE DerivationIndices(r.path)

(* get_root_node, and the start of the loop of get_node. *)
Root(t) ==
    LET indices == SeedIndices(request[t])
    IN  /\ pc[t] = "root"
        /\ node' = [node EXCEPT ![t] = fromSeed(request[t].seed)]
        /\ todo' = [todo EXCEPT ![t] = indices]
        /\ pc' = [pc EXCEPT ![t] = IF indices = <<>> THEN "finish"
                                   ELSE "derive"]
        /\ UNCHANGED <<request, fingerprint, answer, issued, calls,
                       ctxVars>>

\* Broken variant: the two components in the wrong order.
Deserialize_Swapped(t) ==
    LET r == request[t]
    IN  /\ pc[t] = "deserialize"
        /\ IF NodeDeserializeOK(r.extended)
           THEN /\ node' = [node EXCEPT ![t] = NodeDeserialize(r.extended)]
                /\ todo' = [todo EXCEPT ![t] =
                               <<address(r.path), change(r.path)>>]
                /\ pc' = [pc EXCEPT ![t] = "derive"]
                /\ UNCHANGED <<request, fingerprint, answer, issued, calls,
                               ctxVars>>
           ELSE Throw(t)

(* node_deserialize, and the two components of the path a call on an       *)
(* extended key takes: their values, without the hardened marks.           *)
Deserialize(t) ==
    LET r == request[t]
    IN  /\ pc[t] = "deserialize"
        /\ IF NodeDeserializeOK(r.extended)
           THEN /\ node' = [node EXCEPT ![t] = NodeDeserialize(r.extended)]
                /\ todo' = [todo EXCEPT ![t] =
                               <<change(r.path), address(r.path)>>]
                /\ pc' = [pc EXCEPT ![t] = "derive"]
                /\ UNCHANGED <<request, fingerprint, answer, issued, calls,
                               ctxVars>>
           ELSE Throw(t)

ckdOK(t, i) ==
    IF FromPublic(t) THEN publicCkdOK(node[t], i) ELSE privateCkdOK(node[t], i)
ckd(t, i) ==
    IF FromPublic(t) THEN publicCkd(node[t], i) ELSE privateCkd(node[t], i)

(* node = node.privateCkd(i), or publicCkd: one turn of the loop. *)
Derive(t) ==
    LET i == Head(todo[t])
        rest == Tail(todo[t])
    IN  /\ pc[t] = "derive"
        /\ HasContext(t)
        /\ IF ckdOK(t, i)
           THEN /\ node' = [node EXCEPT ![t] = ckd(t, i)]
                /\ todo' = [todo EXCEPT ![t] = rest]
                /\ pc' = [pc EXCEPT ![t] =
                             IF rest # <<>> THEN "derive"
                             ELSE IF CallOf(t) \in AccountCalls
                                  THEN "fingerprint" ELSE "finish"]
                /\ UNCHANGED <<request, fingerprint, answer, issued, calls,
                               ctxVars>>
           ELSE Throw(t)
-----------------------------------------------------------------------------
(* node_fingerprint of the coin node, which fills in its public key. *)
FingerprintParent(t) ==
    /\ pc[t] = "fingerprint"
    /\ HasContext(t)
    /\ IF fillPublicKeyOK(node[t])
       THEN /\ node' = [node EXCEPT ![t] = fillPublicKey(node[t])]
            /\ fingerprint' =
                  [fingerprint EXCEPT ![t] = NodeFingerprint(node[t])]
            /\ pc' = [pc EXCEPT ![t] = "account"]
            /\ UNCHANGED <<request, todo, answer, issued, calls, ctxVars>>
       ELSE Throw(t)

DeriveAccount(t) ==
    LET i == AccountIndex(request[t].account)
    IN  /\ pc[t] = "account"
        /\ HasContext(t)
        /\ IF privateCkdOK(node[t], i)
           THEN /\ node' = [node EXCEPT ![t] = privateCkd(node[t], i)]
                /\ pc' = [pc EXCEPT ![t] = "finish"]
                /\ UNCHANGED <<request, todo, fingerprint, answer,
                               issued, calls, ctxVars>>
           ELSE Throw(t)

(* The string of an account node, and a caller holds it. *)
Issues(t, e) ==
    /\ Leave(t, ReturnedExtended(e))
    /\ issued' = issued \cup {IssueOf(request[t], e)}
    /\ UNCHANGED <<calls, ctxVars>>

FinishPrivateExtended(t) ==
    /\ pc[t] = "finish" /\ CallOf(t) = "getPrivateExtended"
    /\ Issues(t, NodeSerialize(node[t], fingerprint[t], FALSE))

FinishPublicExtended(t) ==
    /\ pc[t] = "finish" /\ CallOf(t) = "getPublicExtended"
    /\ HasContext(t)
    /\ IF fillPublicKeyOK(node[t])
       THEN Issues(t, NodeSerialize(fillPublicKey(node[t]),
                                    fingerprint[t], TRUE))
       ELSE Throw(t)
-----------------------------------------------------------------------------
FinishPrivateKey(t) ==
    /\ pc[t] = "finish" /\ CallOf(t) \in PrivateKeyCalls
    /\ Return(t, ReturnedKey(PrivateKey(node[t].private_key_data)))

(* The public key of what was derived: PrivateKey::getPublicKey, or the    *)
(* node's own when the call started from an extended public key.           *)
PublicKeyOK(t) ==
    IF FromPublic(t) THEN fillPublicKeyOK(node[t])
    ELSE PubkeyCreateOK(node[t].private_key_data)
PublicKeyOf(t) ==
    IF FromPublic(t) THEN fillPublicKey(node[t]).public_key_data
    ELSE PubkeySerialize(PubkeyCreate(node[t].private_key_data))

FinishPublicKey(t) ==
    /\ pc[t] = "finish" /\ CallOf(t) \in PublicKeyCalls
    /\ HasContext(t)
    /\ IF PublicKeyOK(t) THEN Return(t, ReturnedKey(PublicKeyOf(t)))
       ELSE Throw(t)

(* TronAddress::derive_from_public_key, which parses the key once more. *)
FinishAddress(t) ==
    /\ pc[t] = "finish"
    /\ CallOf(t) \notin AccountCalls \cup PrivateKeyCalls \cup PublicKeyCalls
    /\ HasContext(t)
    /\ IF PublicKeyOK(t) /\ PubkeyParseOK(PublicKeyOf(t))
       THEN Return(t, ReturnedKey(TronAddress(PublicKeyOf(t))))
       ELSE Throw(t)

Finish(t) ==
    \/ FinishPrivateExtended(t) \/ FinishPublicExtended(t)
    \/ FinishPrivateKey(t) \/ FinishPublicKey(t) \/ FinishAddress(t)

(* What a thread does once it is in a call. *)
Step(t) ==
    \/ EnterInitialiser(t) \/ LeaveInitialiser(t)
    \/ Root(t) \/ Deserialize(t) \/ Derive(t)
    \/ FingerprintParent(t) \/ DeriveAccount(t) \/ Finish(t)

Next == \E t \in Thread : Begin(t) \/ Step(t)

(* The scheduler runs every thread that is in a call; nothing makes a      *)
(* caller call.                                                            *)
Fairness == \A t \in Thread : WF_vars(Step(t))

Spec == Init /\ [][Next]_vars
FairSpec == Spec /\ Fairness
-----------------------------------------------------------------------------
TypeOK ==
    /\ guard \in {"none", "pending", "complete"}
    /\ builders \subseteq Thread
    /\ contexts \in Nat
    /\ pc \in [Thread -> {"idle", "root", "deserialize", "derive",
                          "fingerprint", "account", "finish"}]
    /\ request \in [Thread -> Request]
    /\ node \in [Thread -> HDNode]
    /\ todo \in [Thread -> Seq(Index)]
    /\ \A t \in Thread : pc[t] = "derive" => todo[t] # <<>>
    /\ fingerprint \in [Thread -> Fingerprint]
    /\ answer \in [Thread -> Answer]
    /\ issued \subseteq Issue
    /\ calls \in Nat

(* A node with a cached public key is either watch-only, reached from an   *)
(* extended public key and with no private key at all, or it holds the     *)
(* public key of its own private key: no derivation leaves the parent's    *)
(* public key in a child, where fillPublicKey would trust it.              *)
WatchOnly(t) ==
    CallOf(t) \in ExtendedCalls /\ request[t].extended.version = "xpub"

NodeConsistent ==
    \A t \in Thread :
        IF WatchOnly(t) THEN node[t].private_key_data = 0
        ELSE Coherent(node[t])

(* No call on an extended public key returns a private key, or an address  *)
(* it computed from one: the zeros where the private key would be are      *)
(* never tweaked into a key.                                               *)
NoKeyFromWatchOnly ==
    \A t \in Thread :
        pc[t] = "idle" /\ WatchOnly(t) /\ CallOf(t) \in PrvExtendedCalls =>
            answer[t].status = "thrown"

Returned(t) == pc[t] = "idle" /\ answer[t].status = "returned"
Ended(t) == pc[t] = "idle" /\ answer[t].status # "none"

(* The keys a call on a seed, or on an extended key that was issued here,  *)
(* is about: a seed, and the indices from its master key.                  *)
Origins(t) ==
    LET r == request[t]
    IN  IF r.call \in ExtendedCalls
        THEN {[seed |-> i.seed,
               indices |-> <<Harden(Purpose), Harden(i.coin),
                             AccountIndex(i.account),
                             change(r.path), address(r.path)>>] :
                i \in {j \in issued : j.extended = r.extended}}
        ELSE IF r.call \in AccountCalls THEN {}
        ELSE {[seed |-> r.seed, indices |-> DerivationIndices(r.path)]}

SameOrigin(t, u) == Origins(t) \cap Origins(u) # {}

AsPublic(k) == IF k[1] = 0 THEN PubkeySerialize(PubkeyCreate(k[2])) ELSE k
AsAddress(k) == IF k[1] = 65 THEN k ELSE TronAddress(AsPublic(k))

SameKey(k, l) ==
    IF k[1] = 65 \/ l[1] = 65 THEN AsAddress(k) = AsAddress(l)
    ELSE IF k[1] = 0 /\ l[1] = 0 THEN k = l
    ELSE AsPublic(k) = AsPublic(l)

(* The three ways to a key agree: from the seed along the whole path, from *)
(* the account's extended private key, from its extended public key, as    *)
(* private key, public key or address, however the calls interleave.  It   *)
(* is what examples/cpp/main.cpp prints side by side.                      *)
RoutesAgree ==
    \A t, u \in Thread :
        Returned(t) /\ Returned(u) /\ SameOrigin(t, u) =>
            SameKey(answer[t].key, answer[u].key)

(* And they fail together: where a derivation along one way throws, along  *)
(* another it does not quietly yield a key.  The exceptions are the calls  *)
(* given the wrong kind of extended key, an extended public key asked for  *)
(* a hardened child, and the master key itself.                            *)
Proper(t) ==
    LET r == request[t]
    IN  /\ r.call \in PrvExtendedCalls => r.extended.version = "xprv"
        /\ r.call \in PubExtendedCalls =>
              /\ r.extended.version = "xpub"
              /\ ~IsHardened(change(r.path)) /\ ~IsHardened(address(r.path))
        /\ r.call \notin ExtendedCalls => r.path # <<>>

FailureParity ==
    \A t, u \in Thread :
        Ended(t) /\ Ended(u) /\ SameOrigin(t, u) /\ Proper(t) /\ Proper(u) =>
            answer[t].status = answer[u].status

(* The two extended keys of an account are halves of one: they differ in   *)
(* the version and the key alone, and the public one's key is that of the  *)
(* private one's.                                                          *)
ExportsPair ==
    \A i, j \in issued :
        /\ i.seed = j.seed /\ i.coin = j.coin /\ i.account = j.account
        /\ i.extended.version = "xpub" /\ j.extended.version = "xprv"
        => i.extended = [j.extended EXCEPT
               !.version = "xpub",
               !.key = PubkeySerialize(PubkeyCreate(j.extended.key[2]))]

(* A private key that is handed out is one the curve accepts, but for the  *)
(* master key, which is handed out unchecked.                              *)
KeysValid ==
    \A t \in Thread :
        Returned(t) /\ CallOf(t) \in PrivateKeyCalls
        /\ (CallOf(t) \in ExtendedCalls \/ request[t].path # <<>>)
        => SeckeyVerify(answer[t].key[2])

(* One context is built, by one thread, and nobody is past a step that     *)
(* needs it before it is.                                                  *)
ContextOnce ==
    /\ contexts <= 1
    /\ Cardinality(builders) <= 1
    /\ \A t \in Thread :
          \/ pc[t] \in {"fingerprint", "account"}
          \/ pc[t] = "finish" /\ request[t].path # <<>>
          => Ctx!Ready

(* Every call ends, with a result or an exception. *)
CallsReturn == \A t \in Thread : pc[t] # "idle" ~> pc[t] = "idle"

(* The calls, however their steps interleave, do what they would do at one *)
(* instant, with the answers private derivation gives.                     *)
Promise == INSTANCE WalletPromise WITH
    busy <- {t \in Thread : pc[t] # "idle"}

KeepsPromise == Promise!Spec
-----------------------------------------------------------------------------
(* What comments of the code say and the code does not do.                 *)

(* A derivation path leads to the same private key whether it is walked    *)
(* from the seed or, its last two components, from the account's extended  *)
(* private key.  The path's hardened marks are dropped on the second way.  *)
PathLeadsToOneKey ==
    \A t, u \in Thread :
        LET p == request[t].path
        IN  /\ Returned(t) /\ CallOf(t) = "getPrivateKey" /\ Len(p) = 5
            /\ Returned(u) /\ CallOf(u) = "getPrivateKeyFromExtended"
            /\ request[u].path = p
            /\ \E i \in issued :
                  /\ i.extended = request[u].extended
                  /\ i.seed = request[t].seed
                  /\ DerivationIndices(p)[2] = Harden(i.coin)
                  /\ DerivationIndices(p)[3] = AccountIndex(i.account)
            => answer[t].key = answer[u].key

(* The account component of a BIP44 path is hardened.  The addition that   *)
(* sets the bit wraps when the account has it already.                     *)
AccountsHardened ==
    \A i \in issued : IsHardened(i.extended.child_num)

(* The wallet is deterministic: one call on one seed has one answer.  A    *)
(* seed shorter than 64 bytes is completed with what memory holds.         *)
Deterministic ==
    \A t, u \in Thread :
        /\ Ended(t) /\ Ended(u)
        /\ request[t] = [request[u] EXCEPT !.seed = request[t].seed]
        => answer[t] = answer[u]
=============================================================================
