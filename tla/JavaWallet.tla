---------------------------- MODULE JavaWallet ----------------------------
(***************************************************************************)
(* HDWallet.java and jni_hd_wallet.cpp: Java threads that call the native  *)
(* methods.  The class is initialised, and the library loaded, by the      *)
(* first thread that uses it; a wallet is a reference to the caller's seed *)
(* array, which is copied anew by every call, while others may write it;   *)
(* no native method catches, so an exception of one call is the end of the *)
(* process and of all the calls in flight.  The wallet itself is its       *)
(* abstract specification, WalletPromise, which HDWallet implements.       *)
(***************************************************************************)
EXTENDS WalletApi, FiniteSets

CONSTANTS
    Thread,
    Array,          \* the byte arrays wallets refer to
    SharedArray,    \* those that callers hold and may write
    NullArray,
    InitialHeap,    \* what the arrays hold at first
    PathText,       \* the strings passed as paths, see below
    Offered(_),     \* bound: the arguments that calls are made with
    MaxCalls, MaxWrites     \* bounds: the calls and the writes

(* A string that is no path, and null, which jstringToStdString makes an   *)
(* empty string of: the root path to the parser.  As an extended key null  *)
(* is not decodable, that is, NoExtended.                                  *)
Malformed == [text |-> "malformed", path |-> <<>>]
NullText == [text |-> "null", path |-> <<>>]

ASSUME JavaAssumption ==
    /\ SharedArray \subseteq Array /\ NullArray \notin Array
    /\ InitialHeap \in [Array -> SeedVector]
    /\ \A v \in SeedVector : [1 .. Len(v) -> Block] \subseteq SeedVector
    /\ PathText \subseteq
         {Malformed, NullText} \cup [text : {"path"}, path : Path]
    /\ MaxCalls \in Nat /\ MaxWrites \in Nat

VARIABLES
    class,          \* "loaded" once the native methods can be called
    process,        \* "running" or "dead"
    heap,           \* what the arrays hold
    pc, args, copied, result,       \* of each thread's call
    undisturbed,    \* threads whose array nobody wrote since the call began
    shortage,       \* an allocation has failed
    calls, writes,
    busy, request, answer, issued   \* of WalletPromise

vars == <<class, process, heap, pc, args, copied, result, undisturbed,
          shortage, calls, writes, busy, request, answer, issued>>

walletVars == <<busy, request, answer, issued>>

Wallet == INSTANCE WalletPromise

(* What a call is made with; arguments that the method does not take have  *)
(* a default.  A null CoinType is one without an id.  Callers may pass the *)
(* extended keys they know.                                                *)
OnWallet(c, a, x, co, ac, n) ==
    [call |-> c, array |-> a, text |-> x, coin |-> co, noCoin |-> n,
     account |-> ac, extended |-> NoExtended]

OnText(c, e, x) ==
    [call |-> c, array |-> NullArray, text |-> x, coin |-> 0,
     noCoin |-> FALSE, account |-> 0, extended |-> e]

Arguments(known) ==
    {OnWallet(c, a, x, co, ac, n) :
        c \in SeedKeyCalls \cup AccountCalls, a \in Array \cup {NullArray},
        x \in PathText, co \in Coin, ac \in Account, n \in BOOLEAN}
    \cup {OnText(c, e, x) :
        c \in ExtendedCalls, x \in PathText,
        e \in Foreign \cup known \cup {NoExtended}}

Error == [NoAnswer EXCEPT !.status = "error"]
-----------------------------------------------------------------------------
Init ==
    /\ class = "new" /\ process = "running" /\ heap = InitialHeap
    /\ pc = [t \in Thread |-> "idle"]
    /\ args = [t \in Thread |-> OnWallet("getPrivateKey", NullArray, NullText,
                                         0, 0, FALSE)]
    /\ copied = [t \in Thread |-> <<>>]
    /\ result = [t \in Thread |-> NoAnswer]
    /\ undisturbed = {} /\ shortage = FALSE /\ calls = 0 /\ writes = 0
    /\ Wallet!Init

Go(t, where) == pc' = [pc EXCEPT ![t] = where]

Return(t, r) == Go(t, "idle") /\ result' = [result EXCEPT ![t] = r]

(* The process ends, whatever other threads are doing. *)
Die == process' = "dead" /\ UNCHANGED <<pc, result>>

(* What a call's own steps leave alone. *)
Others == UNCHANGED <<heap, args, undisturbed, calls, writes>>

Known == {i.extended : i \in issued}

(* A wallet is made of the array, and one of its methods called. *)
Invoke(t) ==
    /\ process = "running" /\ pc[t] = "idle" /\ calls < MaxCalls
    /\ \E a \in Arguments(Known) \cap Offered(Known) :
          args' = [args EXCEPT ![t] = a]
    /\ Go(t, "class")
    /\ result' = [result EXCEPT ![t] = NoAnswer]
    /\ copied' = [copied EXCEPT ![t] = <<>>]
    /\ undisturbed' = undisturbed \cup {t}
    /\ calls' = calls + 1
    /\ UNCHANGED <<class, process, heap, shortage, writes>>
    /\ UNCHANGED walletVars

(* A caller writes one element of an array it made a wallet of. *)
Write(a) ==
    /\ process = "running" /\ writes < MaxWrites
    /\ \E i \in DOMAIN heap[a], b \in Block : heap' = [heap EXCEPT ![a][i] = b]
    /\ undisturbed' = {t \in undisturbed : args[t].array # a}
    /\ writes' = writes + 1
    /\ UNCHANGED <<class, process, pc, args, copied, result, shortage, calls>>
    /\ UNCHANGED walletVars

(* The static initialiser: one thread runs it, the others wait, and if it  *)
(* fails the class is barred to all.                                       *)
Initialise(t) ==
    /\ process = "running" /\ pc[t] = "class" /\ class = "new"
    /\ class' = "loading" /\ Go(t, "load")
    /\ UNCHANGED <<process, copied, result, shortage>> /\ UNCHANGED walletVars
    /\ Others

\* Broken variant: a failure leaves the class as it was while loading.
Load_FailureUnseen(t) ==
    /\ process = "running" /\ pc[t] = "load"
    /\ \/ class' = "loaded" /\ Go(t, "class") /\ UNCHANGED result
       \/ class' = "loading" /\ Return(t, Error)
    /\ UNCHANGED <<process, copied, shortage>> /\ UNCHANGED walletVars
    /\ Others

Load(t) ==
    /\ process = "running" /\ pc[t] = "load"
    /\ \/ class' = "loaded" /\ Go(t, "class") /\ UNCHANGED result
       \/ class' = "barred" /\ Return(t, Error)
    /\ UNCHANGED <<process, copied, shortage>> /\ UNCHANGED walletVars
    /\ Others

(* A null CoinType is a Java exception. *)
Enter(t) ==
    /\ process = "running" /\ pc[t] = "class" /\ class \in {"loaded", "barred"}
    /\ IF class = "barred" \/ args[t].noCoin THEN Return(t, Error)
       ELSE /\ Go(t, IF args[t].call \in ExtendedCalls THEN "text" ELSE "copy")
            /\ UNCHANGED result
    /\ UNCHANGED <<class, process, copied, shortage>> /\ UNCHANGED walletVars
    /\ Others

(* javaByteArrayToStdVec copies the elements, in no order one may rely on. *)
CopyUnit(t) ==
    LET a == args[t].array
    IN  /\ process = "running" /\ pc[t] = "copy" /\ a # NullArray
        /\ \E i \in DOMAIN heap[a] \ DOMAIN copied[t] :
              copied' = [copied EXCEPT ![t] =
                  [j \in {i} \cup DOMAIN @ |-> IF j = i THEN heap[a][i] ELSE @[j]]]
        /\ UNCHANGED <<class, process, pc, result, shortage>>
        /\ UNCHANGED walletVars /\ Others

\* Broken variant: the copy may stop before the last element.
Copied_Unfinished(t) ==
    /\ process = "running" /\ pc[t] = "copy"
    /\ IF args[t].array = NullArray THEN Die
       ELSE Go(t, "text") /\ UNCHANGED <<process, result>>
    /\ copied' = [copied EXCEPT ![t] =
            IF args[t].array = NullArray THEN @
            ELSE [i \in DOMAIN heap[args[t].array] |->
                    IF i \in DOMAIN @ THEN @[i] ELSE 0]]
    /\ UNCHANGED <<class, shortage>> /\ UNCHANGED walletVars /\ Others

(* The length of a null array cannot be asked for. *)
Copied(t) ==
    LET a == args[t].array
    IN  /\ process = "running" /\ pc[t] = "copy"
        /\ IF a = NullArray THEN Die
           ELSE /\ DOMAIN copied[t] = DOMAIN heap[a]
                /\ Go(t, "text") /\ UNCHANGED <<process, result>>
        /\ UNCHANGED <<class, copied, shortage>>
        /\ UNCHANGED walletVars /\ Others
-----------------------------------------------------------------------------
(* The requests of the wallet that a call's arguments make, when the seed  *)
(* array holds v: several, when it is too short.                           *)
RequestsOf(a, v) ==
    IF a.call \in ExtendedCalls
    THEN {OnExtended(a.call, a.extended, a.text.path)}
    ELSE OnSeed(a.call, v, a.text.path, a.coin, a.account)

\* Broken variant: null is no string.
IsPath_NotNull(x) == x.text = "path"

(* Whether the constructor of DerivationPath takes the string. *)
IsPath(x) == x.text # "malformed"

(* The strings are copied and the path is parsed. *)
CallWallet(t) ==
    /\ process = "running" /\ pc[t] = "text"
    /\ IF IsPath(args[t].text)
       THEN /\ \E r \in RequestsOf(args[t], copied[t]) :
                  request' = [request EXCEPT ![t] = r]
            /\ answer' = [answer EXCEPT ![t] = NoAnswer]
            /\ busy' = busy \cup {t}
            /\ Go(t, "wallet") /\ UNCHANGED <<process, issued, result>>
       ELSE Die /\ UNCHANGED walletVars
    /\ UNCHANGED <<class, copied, shortage>> /\ Others

(* The wallet's answer is a Java value, or an exception that nobody        *)
(* catches.                                                                *)
WalletReturns(t) ==
    /\ process = "running" /\ pc[t] = "wallet"
    /\ Wallet!End(t)
    /\ IF answer'[t].status = "thrown" THEN Die
       ELSE Go(t, "back") /\ UNCHANGED <<process, result>>
    /\ UNCHANGED <<class, copied, shortage>> /\ Others

ConvertResult(t) ==
    /\ process = "running" /\ pc[t] = "back"
    /\ Return(t, answer[t])
    /\ UNCHANGED <<class, process, copied, shortage>> /\ UNCHANGED walletVars
    /\ Others

(* Memory is short: for the characters of a string that is not null, which *)
(* is a C++ exception; for a byte array, which is written all the same; or *)
(* for a string to return, which is a Java exception.                      *)
RunOutOfMemory(t) ==
    /\ process = "running" /\ pc[t] \in {"text", "back"}
    /\ shortage' = TRUE
    /\ IF \/ /\ pc[t] = "back"
             /\ args[t].call \in PrivateKeyCalls \cup PublicKeyCalls
          \/ /\ pc[t] = "text"
             /\ args[t].text # NullText \/ args[t].call \in ExtendedCalls
       THEN Die
       ELSE pc[t] = "back" /\ Return(t, Error) /\ UNCHANGED process
    /\ UNCHANGED <<class, copied>> /\ UNCHANGED walletVars /\ Others

Step(t) ==
    \/ Initialise(t) \/ Load(t) \/ Enter(t) \/ CopyUnit(t) \/ Copied(t)
    \/ CallWallet(t) \/ WalletReturns(t) \/ ConvertResult(t)

Next ==
    \/ \E t \in Thread : Step(t) \/ Invoke(t) \/ RunOutOfMemory(t)
    \/ \E a \in SharedArray : Write(a)

Spec == Init /\ [][Next]_vars

(* A thread that can run does, and threads that wait for the class are     *)
(* woken when it is initialised. *)
FairSpec == Spec /\ \A t \in Thread : WF_vars(Step(t))
-----------------------------------------------------------------------------
(* What the arguments of t's call promise, by what its array holds now. *)
Promises(t) ==
    {Wallet!Promised(r) :
        r \in RequestsOf(args[t], IF args[t].array = NullArray THEN <<>>
                                  ELSE heap[args[t].array])}

TypeOK ==
    /\ class \in {"new", "loading", "loaded", "barred"}
    /\ process \in {"running", "dead"}
    /\ heap \in [Array -> SeedVector]
    /\ DOMAIN pc = Thread /\ undisturbed \subseteq Thread
    /\ \A t \in Thread :
          /\ pc[t] \in {"idle", "class", "load", "copy", "text", "wallet", "back"}
          /\ pc[t] \in {"text", "wallet"} /\ args[t].call \notin ExtendedCalls
                => copied[t] \in SeedVector
          /\ pc[t] # "idle" => args[t] \in Arguments(Known)
          /\ t \in busy => pc[t] = "wallet"
          /\ pc[t] = "wallet" /\ process = "running" => t \in busy

(* A call that returned, to whatever thread and after whatever other       *)
(* calls, returned what derivation from the bytes of its own wallet's      *)
(* array gives, if nobody wrote that array meanwhile: the copies of calls  *)
(* in flight are not mixed up and none is kept.                            *)
AnswersOfItsArray ==
    \A t \in undisturbed :
        result[t].status = "returned" => result[t] \in Promises(t)

(* The process does not end as long as memory is not short and no call in  *)
(* flight is a bad one: one on a null array, with a malformed path, with   *)
(* arguments that promise an exception, or on an array that is written     *)
(* during the call.  A null path and a null coin are not bad.              *)
GoodCallsSurvive ==
    process = "dead" /\ ~shortage =>
        \E t \in Thread :
            /\ pc[t] # "idle"
            /\ \/ args[t].array = NullArray /\ args[t].call \notin ExtendedCalls
               \/ args[t].text = Malformed
               \/ t \notin undisturbed
               \/ Thrown \in Promises(t)

(* Every call ends, with a value or a Java exception, unless the process   *)
(* does: neither the wait for the class nor a failure to load blocks one.  *)
CallsAnswered ==
    \A t \in Thread : pc[t] # "idle" ~> pc[t] = "idle" \/ process = "dead"
=============================================================================
