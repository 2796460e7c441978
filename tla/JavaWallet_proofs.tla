-------------------------- MODULE JavaWallet_proofs --------------------------
(***************************************************************************)
(* Safety of the Java front end, for any number of threads, arrays, calls  *)
(* and writes, and every wallet that keeps its promise.                    *)
(*                                                                         *)
(* Behind it, the loader of the native library: safety of load(), for any  *)
(* contents and any number of resources.                                   *)
(***************************************************************************)
EXTENDS JavaWallet, NativeLibraryLoader, TLAPS

(* A call on a wallet, and so on a seed array.                             *)
OnSeedCall(t) == args[t].call \notin ExtendedCalls

(* What the array of a call holds; a null one has nothing. *)
ArrayOf(t) == IF args[t].array = NullArray THEN <<>> ELSE heap[args[t].array]

(* Arguments of a call, whatever extended keys there are. *)
Proper(a) ==
    /\ a.array \in Array \cup {NullArray} /\ a.text \in PathText
    /\ a.call \in ExtendedCalls => a.array = NullArray

(* Where a thread is, and what it then has in hand. *)
Shape(t) ==
    /\ pc[t] \in {"idle", "class", "load", "copy", "text", "wallet", "back"}
    /\ pc[t] # "idle" => Proper(args[t]) /\ result[t] = NoAnswer
    /\ copied[t] = [i \in DOMAIN copied[t] |-> copied[t][i]]
    /\ pc[t] \in {"class", "load"} => copied[t] = <<>>
    /\ pc[t] = "copy" => OnSeedCall(t)
    /\ pc[t] = "text" /\ OnSeedCall(t) => args[t].array # NullArray

(* How far an undisturbed call is on the way to what it is promised. *)
Course(t) ==
    /\ pc[t] = "copy" /\ args[t].array # NullArray =>
          \A i \in DOMAIN copied[t] :
              i \in DOMAIN ArrayOf(t) /\ copied[t][i] = ArrayOf(t)[i]
    /\ pc[t] = "text" /\ OnSeedCall(t) => copied[t] = ArrayOf(t)
    /\ pc[t] = "wallet" => request[t] \in RequestsOf(args[t], ArrayOf(t))
    /\ pc[t] = "back" => answer[t] \in Promises(t)
    /\ pc[t] = "idle" /\ result[t].status = "returned" =>
          result[t] \in Promises(t)

(* Something of every thread.                                              *)
OfThreads(f) == f = [t \in Thread |-> f[t]]

(* The variables that hold something of every thread do. *)
Typed ==
    /\ process \in {"running", "dead"}
    /\ heap \in [Array -> Seq(Block)] /\ undisturbed \subseteq Thread
    /\ OfThreads(pc) /\ OfThreads(args) /\ OfThreads(copied)
    /\ OfThreads(result) /\ OfThreads(request) /\ OfThreads(answer)

(* The inductive invariant: an undisturbed call is on the way to what its  *)
(* array promises, wherever it is.                                         *)
JInv ==
    /\ Typed
    /\ \A t \in Thread : Shape(t)
    /\ \A t \in undisturbed : Course(t)
    /\ GoodCallsSurvive
-----------------------------------------------------------------------------
(* What another thread of the same state holds of it still. *)
Same(u) ==
    /\ pc'[u] = pc[u] /\ args'[u] = args[u] /\ copied'[u] = copied[u]
    /\ result'[u] = result[u] /\ request'[u] = request[u]
    /\ answer'[u] = answer[u]

(* A thread that is left alone stays on its course while its array is not  *)
(* written.                                                                *)
LEMMA SameThread ==
    ASSUME NEW u \in Thread, Same(u), Shape(u)
    PROVE  /\ Shape(u)'
           /\ ArrayOf(u)' = ArrayOf(u) /\ Course(u) => Course(u)'
           /\ ArrayOf(u)' = ArrayOf(u) => Promises(u)' = Promises(u)
<1>1. Shape(u)'
    BY DEF Same, Shape, OnSeedCall
<1>2. ASSUME ArrayOf(u)' = ArrayOf(u)
      PROVE  Promises(u)' = Promises(u)
    BY <1>2 DEF Same, Promises, ArrayOf
<1>3. ASSUME ArrayOf(u)' = ArrayOf(u), Course(u)
      PROVE  Course(u)'
    BY <1>2, <1>3 DEF Same, Course, OnSeedCall
<1> QED
    BY <1>1, <1>2, <1>3

(* A step of t alone, which writes no array. *)
Alone(t) ==
    /\ UNCHANGED heap
    /\ \A u \in Thread \ {t} : Same(u)
    /\ undisturbed' \subseteq undisturbed \cup {t}

(* A step of one thread keeps the invariant if it does so for that thread. *)
LEMMA AloneJInv ==
    ASSUME JInv, NEW t \in Thread, Alone(t), Typed', Shape(t)',
           t \in undisturbed' => Course(t)', GoodCallsSurvive'
    PROVE  JInv'
<1>1. ASSUME NEW u \in Thread \ {t}
      PROVE  Shape(u)' /\ (u \in undisturbed' => Course(u)')
    <2>1. Same(u) /\ Shape(u)
        BY DEF Alone, JInv
    <2>2. ArrayOf(u)' = ArrayOf(u)
        BY <2>1 DEF ArrayOf, Same, Alone
    <2>3. u \in undisturbed' => Course(u)
        BY DEF Alone, JInv
    <2> QED
        BY <2>1, <2>2, <2>3, SameThread
<1>2. undisturbed' \subseteq Thread
    BY DEF Typed
<1> QED
    BY <1>1, <1>2 DEF JInv
-----------------------------------------------------------------------------
(* At first no call has begun.                                             *)
LEMMA InitJInv == Init => JInv
<1> SUFFICES ASSUME Init PROVE JInv
    OBVIOUS
<1>1. heap \in [Array -> Seq(Block)]
    BY JavaAssumption, ApiAssumption DEF Init
<1>2. Typed
    BY <1>1 DEF Init, Typed, OfThreads, Wallet!Init
<1>3. ASSUME NEW t \in Thread PROVE Shape(t)
    BY DEF Init, Shape
<1> QED
    BY <1>2, <1>3 DEF Init, JInv, GoodCallsSurvive

(* A call begins with nothing copied, and undisturbed.                     *)
LEMMA InvokeJInv ==
    ASSUME JInv, NEW t \in Thread, Invoke(t)
    PROVE  JInv'
<1>1. PICK a \in Arguments(Known) : args' = [args EXCEPT ![t] = a]
    BY DEF Invoke
<1>2. Proper(a)
    BY DEF Arguments, Proper, OnWallet, OnText, SeedKeyCalls, AccountCalls,
           ExtendedCalls, PrvExtendedCalls, PubExtendedCalls
<1>3. /\ pc' = [pc EXCEPT ![t] = "class"] /\ result' = [result EXCEPT ![t] = NoAnswer]
      /\ copied' = [copied EXCEPT ![t] = <<>>] /\ undisturbed' = undisturbed \cup {t}
      /\ UNCHANGED <<process, heap, request, answer>> /\ process = "running"
    BY DEF Invoke, Go, walletVars
<1>4. Typed' /\ Alone(t)
    BY <1>1, <1>3 DEF JInv, Typed, OfThreads, Alone, Same
<1>5. /\ pc'[t] = "class" /\ args'[t] = a /\ copied'[t] = <<>>
      /\ result'[t] = NoAnswer
    BY <1>1, <1>3 DEF JInv, Typed, OfThreads
<1>6. Shape(t)'
    BY <1>2, <1>5 DEF Shape, Proper
<1>7. Course(t)'
    BY <1>5 DEF Course
<1> QED
    BY <1>3, <1>4, <1>6, <1>7, AloneJInv DEF GoodCallsSurvive

(* A write disturbs the calls on that array and no other.                  *)
LEMMA WriteJInv ==
    ASSUME JInv, NEW a \in SharedArray, Write(a)
    PROVE  JInv'
<1>1. PICK i \in DOMAIN heap[a], b \in Block : heap' = [heap EXCEPT ![a][i] = b]
    BY DEF Write
<1>2. /\ undisturbed' = {t \in undisturbed : args[t].array # a}
      /\ UNCHANGED <<process, pc, args, copied, result, request, answer>>
      /\ process = "running"
    BY DEF Write, walletVars
<1>3. a \in Array /\ NullArray \notin Array
    BY JavaAssumption
<1>4. heap' \in [Array -> Seq(Block)]
    <2>1. heap[a] \in Seq(Block)
        BY <1>3 DEF JInv, Typed
    <2>2. [heap[a] EXCEPT ![i] = b] \in Seq(Block)
        BY <2>1
    <2> QED
        BY <1>1, <1>3, <2>2 DEF JInv, Typed
<1>5. Typed'
    BY <1>2, <1>4 DEF JInv, Typed, OfThreads
<1>6. ASSUME NEW t \in Thread
      PROVE  Shape(t)' /\ (t \in undisturbed' => Course(t)')
    <2>1. Same(t) /\ Shape(t)
        BY <1>2 DEF Same, JInv
    <2>2. ASSUME t \in undisturbed'
          PROVE  ArrayOf(t)' = ArrayOf(t) /\ Course(t)
        BY <1>1, <1>2, <1>3, <2>2 DEF ArrayOf, JInv, Typed
    <2> QED
        BY <2>1, <2>2, SameThread
<1> QED
    BY <1>2, <1>5, <1>6 DEF JInv, Typed, GoodCallsSurvive

(* A step of t inside its call that goes to where, while the wallet does   *)
(* not move.                                                               *)
Goes(t, where, r, c) ==
    /\ process = "running" /\ Others /\ UNCHANGED <<process, request, answer>>
    /\ pc' = [pc EXCEPT ![t] = where] /\ result' = [result EXCEPT ![t] = r]
    /\ copied' = [copied EXCEPT ![t] = c]

(* What such a step changes and leaves alone.                              *)
LEMMA GoesAlone ==
    ASSUME Typed, NEW t \in Thread, NEW where, NEW r, NEW c, Goes(t, where, r, c)
    PROVE  /\ Typed' /\ Alone(t) /\ GoodCallsSurvive'
           /\ pc'[t] = where /\ result'[t] = r /\ copied'[t] = c
           /\ args'[t] = args[t] /\ ArrayOf(t)' = ArrayOf(t)
           /\ undisturbed' = undisturbed
BY DEF Goes, Typed, OfThreads, Alone, Same, Others, ArrayOf, GoodCallsSurvive

(* A thread may be given what it has.                                      *)
LEMMA Kept ==
    ASSUME NEW f, OfThreads(f), NEW t \in Thread
    PROVE  f = [f EXCEPT ![t] = f[t]]
BY DEF OfThreads

(* The thread that initialises the class has copied nothing.               *)
LEMMA InitialiseJInv ==
    ASSUME JInv, NEW t \in Thread, Initialise(t)
    PROVE  JInv'
<1>1. Typed /\ Shape(t) /\ pc[t] = "class"
    BY DEF JInv, Initialise
<1>2. Goes(t, "load", result[t], copied[t])
    BY <1>1, Kept DEF Initialise, Goes, Go, Typed, walletVars
<1>3. Shape(t)' /\ Course(t)'
    BY <1>1, <1>2, GoesAlone DEF Shape, Course
<1> QED
    BY <1>1, <1>2, <1>3, GoesAlone, AloneJInv

(* A load that fails is an error of the call, no answer.                   *)
LEMMA LoadJInv ==
    ASSUME JInv, NEW t \in Thread, Load(t)
    PROVE  JInv'
<1>1. Typed /\ Shape(t) /\ pc[t] = "load"
    BY DEF JInv, Load
<1>2. \/ Goes(t, "class", result[t], copied[t])
      \/ Goes(t, "idle", Error, copied[t])
    BY <1>1, Kept DEF Load, Goes, Go, Return, Typed, walletVars
<1>3. Shape(t)' /\ Course(t)'
    BY <1>1, <1>2, GoesAlone DEF Shape, Course, Error, NoAnswer
<1> QED
    BY <1>1, <1>2, <1>3, GoesAlone, AloneJInv

(* A native method that takes a seed starts its copy from nothing.         *)
LEMMA EnterJInv ==
    ASSUME JInv, NEW t \in Thread, Enter(t)
    PROVE  JInv'
<1>1. Typed /\ Shape(t) /\ pc[t] = "class"
    BY DEF JInv, Enter
<1>2. \/ Goes(t, "idle", Error, copied[t])
      \/ Goes(t, "text", result[t], copied[t]) /\ ~OnSeedCall(t)
      \/ Goes(t, "copy", result[t], copied[t]) /\ OnSeedCall(t)
    BY <1>1, Kept DEF Enter, Goes, Go, Return, Typed, OnSeedCall, walletVars
<1>3. OnSeedCall(t)' <=> OnSeedCall(t)
    BY <1>1, <1>2, GoesAlone DEF OnSeedCall
<1>4. Shape(t)' /\ Course(t)'
    BY <1>1, <1>2, <1>3, GoesAlone DEF Shape, Course, Error, NoAnswer
<1> QED
    BY <1>1, <1>2, <1>4, GoesAlone, AloneJInv

(* An element is copied as the undisturbed array has it.                   *)
LEMMA CopyUnitJInv ==
    ASSUME JInv, NEW t \in Thread, CopyUnit(t)
    PROVE  JInv'
<1> DEFINE a == args[t].array
<1>1. Typed /\ Shape(t) /\ pc[t] = "copy" /\ a # NullArray
    BY DEF JInv, CopyUnit
<1>2. PICK i \in DOMAIN heap[a] \ DOMAIN copied[t] :
         copied' = [copied EXCEPT ![t] =
            [j \in {i} \cup DOMAIN @ |-> IF j = i THEN heap[a][i] ELSE @[j]]]
    BY DEF CopyUnit
<1> DEFINE c == [j \in {i} \cup DOMAIN copied[t] |->
                    IF j = i THEN heap[a][i] ELSE copied[t][j]]
<1>3. copied' = [copied EXCEPT ![t] = c]
    BY <1>1, <1>2 DEF Typed, OfThreads
<1>4. c = [j \in DOMAIN c |-> c[j]]
    OBVIOUS
<1>5. ASSUME t \in undisturbed, NEW j \in DOMAIN c
      PROVE  j \in DOMAIN ArrayOf(t) /\ c[j] = ArrayOf(t)[j]
    BY <1>1, <1>2, <1>5 DEF ArrayOf, JInv, Course
<1> HIDE DEF c
<1>6. Goes(t, "copy", result[t], c)
    <2>1. /\ pc' = [pc EXCEPT ![t] = "copy"]
          /\ result' = [result EXCEPT ![t] = result[t]]
        BY <1>1, Kept DEF CopyUnit, Typed
    <2> QED
        BY <1>3, <2>1 DEF CopyUnit, Goes, walletVars
<1>7. Shape(t)'
    BY <1>1, <1>4, <1>6, GoesAlone DEF Shape, OnSeedCall
<1>8. t \in undisturbed => Course(t)'
    BY <1>1, <1>5, <1>6, GoesAlone DEF Course
<1> QED
    BY <1>1, <1>6, <1>7, <1>8, GoesAlone, AloneJInv

(* What excuses the end of the process. *)
Bad(t) ==
    /\ pc[t] # "idle"
    /\ \/ args[t].array = NullArray /\ args[t].call \notin ExtendedCalls
       \/ args[t].text = Malformed
       \/ t \notin undisturbed
       \/ Thrown \in Promises(t)

(* The process ends in a step of t, or goes on: the wallet may have        *)
(* answered t's call.                                                      *)
Dies(t) ==
    /\ process' = "dead" /\ Others /\ UNCHANGED <<pc, result, copied, request>>
    /\ answer' = [answer EXCEPT ![t] = answer'[t]]
    /\ pc[t] = "wallet" \/ answer'[t] = answer[t]

(* The process may end in a step of a bad call, or when memory is short.   *)
LEMMA DiesJInv ==
    ASSUME JInv, NEW t \in Thread, Dies(t), shortage' \/ Bad(t)
    PROVE  JInv'
<1>1. Typed /\ Shape(t)
    BY DEF JInv
<1>2. Typed' /\ Alone(t)
    BY <1>1 DEF Dies, Others, Typed, OfThreads, Alone, Same
<1>3. ArrayOf(t)' = ArrayOf(t) /\ Promises(t)' = Promises(t)
    BY DEF Dies, Others, ArrayOf, Promises
<1>4. Shape(t)'
    BY <1>1 DEF Dies, Others, Shape, OnSeedCall
<1>5. t \in undisturbed' => Course(t)'
    BY <1>3 DEF JInv, Dies, Others, Course, OnSeedCall
<1>6. GoodCallsSurvive'
    BY <1>3 DEF Dies, Others, Bad, GoodCallsSurvive
<1> QED
    BY <1>2, <1>4, <1>5, <1>6, AloneJInv

(* The complete copy is the undisturbed array; a null array is bad.        *)
LEMMA CopiedJInv ==
    ASSUME JInv, NEW t \in Thread, Copied(t)
    PROVE  JInv'
<1> DEFINE a == args[t].array
<1>1. Typed /\ Shape(t) /\ pc[t] = "copy" /\ OnSeedCall(t)
    BY DEF JInv, Copied, Shape
<1>2. CASE a = NullArray
    <2>1. Dies(t)
        BY <1>1, <1>2, Kept DEF Copied, Die, Dies, Typed, walletVars
    <2>2. Bad(t)
        BY <1>1, <1>2 DEF Bad, OnSeedCall
    <2> QED
        BY <2>1, <2>2, DiesJInv
<1>3. CASE a # NullArray
    <2>1. DOMAIN copied[t] = DOMAIN heap[a]
        BY <1>3 DEF Copied
    <2>2. Goes(t, "text", result[t], copied[t])
        BY <1>1, <1>3, Kept DEF Copied, Goes, Go, Typed, walletVars
    <2>3. Shape(t)'
        BY <1>1, <1>3, <2>2, GoesAlone DEF Shape, OnSeedCall
    <2>4. ASSUME t \in undisturbed PROVE copied[t] = ArrayOf(t)
        <3>1. ArrayOf(t) = heap[a] /\ heap[a] \in Seq(Block)
            BY <1>1, <1>3 DEF ArrayOf, Typed, Shape, Proper
        <3>2. heap[a] = [i \in DOMAIN heap[a] |-> heap[a][i]]
            BY <3>1
        <3>3. copied[t] = [i \in DOMAIN copied[t] |-> copied[t][i]]
            BY <1>1 DEF Shape
        <3>4. \A i \in DOMAIN copied[t] : copied[t][i] = heap[a][i]
            BY <1>1, <1>3, <2>4, <3>1 DEF JInv, Course
        <3> QED
            BY <2>1, <3>1, <3>2, <3>3, <3>4
    <2>5. t \in undisturbed => Course(t)'
        BY <1>1, <2>2, <2>4, GoesAlone DEF Course
    <2> QED
        BY <1>1, <2>2, <2>3, <2>5, GoesAlone, AloneJInv
<1> QED
    BY <1>2, <1>3

(* The wallet is asked about the undisturbed array; a malformed path is    *)
(* bad.                                                                    *)
LEMMA CallWalletJInv ==
    ASSUME JInv, NEW t \in Thread, CallWallet(t)
    PROVE  JInv'
<1>1. Typed /\ Shape(t) /\ pc[t] = "text" /\ process = "running"
    BY DEF JInv, CallWallet
<1>2. CASE ~IsPath(args[t].text)
    <2>1. Dies(t)
        BY <1>1, <1>2, Kept DEF CallWallet, Die, Dies, Typed, walletVars
    <2>2. args[t].text = Malformed
        BY <1>1, <1>2, JavaAssumption DEF Shape, Proper, IsPath, Malformed, NullText
    <2> QED
        BY <1>1, <2>1, <2>2, DiesJInv DEF Bad
<1>3. CASE IsPath(args[t].text)
    <2>1. PICK r \in RequestsOf(args[t], copied[t]) :
             request' = [request EXCEPT ![t] = r]
        BY <1>3 DEF CallWallet
    <2>2. /\ pc' = [pc EXCEPT ![t] = "wallet"] /\ answer' = [answer EXCEPT ![t] = NoAnswer]
          /\ UNCHANGED <<process, result, copied>> /\ Others
        BY <1>3 DEF CallWallet, Go
    <2>3. Typed' /\ Alone(t)
        BY <1>1, <2>1, <2>2 DEF Others, Typed, OfThreads, Alone, Same
    <2>4. /\ pc'[t] = "wallet" /\ request'[t] = r /\ args'[t] = args[t]
          /\ ArrayOf(t)' = ArrayOf(t) /\ undisturbed' = undisturbed
        BY <1>1, <2>1, <2>2 DEF Others, Typed, OfThreads, ArrayOf
    <2>5. Shape(t)'
        BY <1>1, <2>2, <2>4 DEF Shape
    <2>6. ASSUME t \in undisturbed
          PROVE  r \in RequestsOf(args[t], ArrayOf(t))
        <3>1. CASE OnSeedCall(t)
            BY <1>1, <2>1, <2>6, <3>1 DEF JInv, Course
        <3>2. CASE ~OnSeedCall(t)
            BY <2>1, <3>2 DEF OnSeedCall, RequestsOf
        <3> QED
            BY <3>1, <3>2
    <2>7. t \in undisturbed => Course(t)'
        BY <2>4, <2>6 DEF Course
    <2> QED
        BY <1>1, <2>2, <2>3, <2>4, <2>5, <2>7, AloneJInv DEF GoodCallsSurvive
<1> QED
    BY <1>2, <1>3

(* An exception of the wallet is the one answer of its kind. *)
LEMMA ThrownIs ==
    ASSUME NEW r, Wallet!Promised(r).status = "thrown"
    PROVE  Wallet!Promised(r) = Thrown
<1>1. Wallet!Thrown = Thrown
    BY DEF Wallet!Thrown, Thrown, Wallet!NoAnswer, NoAnswer, Wallet!NoExtended,
           NoExtended, Wallet!Zero33, Zero33
<1>2. /\ \A k : Wallet!ReturnedKey(k).status = "returned"
      /\ \A e : Wallet!ReturnedExtended(e).status = "returned"
    BY DEF Wallet!ReturnedKey, Wallet!ReturnedExtended, Wallet!NoAnswer
<1> QED
    BY <1>1, <1>2 DEF Wallet!Promised

(* What the wallet returns is promised to the array; an exception is one   *)
(* that it was promised.                                                   *)
LEMMA WalletReturnsJInv ==
    ASSUME JInv, NEW t \in Thread, WalletReturns(t)
    PROVE  JInv'
<1>1. Typed /\ Shape(t) /\ pc[t] = "wallet" /\ process = "running"
    BY DEF JInv, WalletReturns
<1>2. /\ answer' = [answer EXCEPT ![t] = Wallet!Promised(request[t])]
      /\ UNCHANGED <<request, copied>> /\ Others
    BY DEF WalletReturns, Wallet!End
<1>3. answer'[t] = Wallet!Promised(request[t])
    BY <1>1, <1>2 DEF Typed, OfThreads
<1>4. t \in undisturbed => answer'[t] \in Promises(t)
    BY <1>1, <1>3 DEF JInv, Course, Promises, ArrayOf
<1>5. CASE answer'[t].status = "thrown"
    <2>1. Dies(t)
        BY <1>1, <1>2, <1>3, <1>5 DEF WalletReturns, Die, Dies
    <2>2. Bad(t)
        BY <1>1, <1>3, <1>4, <1>5, ThrownIs DEF Bad
    <2> QED
        BY <2>1, <2>2, DiesJInv
<1>6. CASE answer'[t].status # "thrown"
    <2>1. pc' = [pc EXCEPT ![t] = "back"] /\ UNCHANGED <<process, result>>
        BY <1>6 DEF WalletReturns, Go
    <2>2. Typed' /\ Alone(t)
        BY <1>1, <1>2, <2>1 DEF Others, Typed, OfThreads, Alone, Same
    <2>3. pc'[t] = "back" /\ args'[t] = args[t] /\ undisturbed' = undisturbed
        BY <1>1, <1>2, <2>1 DEF Others, Typed, OfThreads
    <2>4. Promises(t)' = Promises(t)
        BY <1>2, <2>3 DEF Others, Promises
    <2>5. Shape(t)' /\ (t \in undisturbed' => Course(t)')
        BY <1>1, <1>2, <1>4, <2>1, <2>3, <2>4 DEF Shape, Course
    <2> QED
        BY <1>1, <2>1, <2>2, <2>5, AloneJInv DEF GoodCallsSurvive
<1> QED
    BY <1>5, <1>6

(* The answer is handed over as it is.                                     *)
LEMMA ConvertResultJInv ==
    ASSUME JInv, NEW t \in Thread, ConvertResult(t)
    PROVE  JInv'
<1>1. Typed /\ Shape(t) /\ pc[t] = "back"
    BY DEF JInv, ConvertResult
<1>2. Goes(t, "idle", answer[t], copied[t])
    BY <1>1, Kept DEF ConvertResult, Goes, Go, Return, Typed, walletVars
<1>3. Promises(t)' = Promises(t)
    BY <1>1, <1>2, GoesAlone DEF Goes, Others, Promises
<1>4. Shape(t)' /\ (t \in undisturbed' => Course(t)')
    BY <1>1, <1>2, <1>3, GoesAlone DEF JInv, Shape, Course
<1> QED
    BY <1>1, <1>2, <1>4, GoesAlone, AloneJInv

(* Short memory ends the process, or is an error of the call.              *)
LEMMA RunOutOfMemoryJInv ==
    ASSUME JInv, NEW t \in Thread, RunOutOfMemory(t)
    PROVE  JInv'
<1>1. Typed /\ Shape(t) /\ shortage' /\ pc[t] \in {"text", "back"}
    BY DEF JInv, RunOutOfMemory
<1>2. Dies(t) \/ (pc[t] = "back" /\ Goes(t, "idle", Error, copied[t]))
    BY <1>1, Kept DEF RunOutOfMemory, Die, Dies, Goes, Go, Return, Typed, walletVars
<1>3. CASE Dies(t)
    BY <1>1, <1>3, DiesJInv
<1>4. CASE pc[t] = "back" /\ Goes(t, "idle", Error, copied[t])
    <2>1. Shape(t)' /\ Course(t)'
        BY <1>1, <1>4, GoesAlone DEF Shape, Course, Error, NoAnswer
    <2> QED
        BY <1>1, <1>4, <2>1, GoesAlone, AloneJInv
<1> QED
    BY <1>2, <1>3, <1>4

(* Every step keeps the invariant.                                         *)
LEMMA NextJInv == JInv /\ [Next]_vars => JInv'
<1> SUFFICES ASSUME JInv, [Next]_vars PROVE JInv'
    OBVIOUS
<1>1. CASE UNCHANGED vars
    <2>1. ASSUME NEW t \in Thread
          PROVE  Shape(t)' /\ (t \in undisturbed' => Course(t)')
        BY <1>1, SameThread DEF vars, JInv, Same, ArrayOf
    <2>2. Typed'
        BY <1>1 DEF vars, JInv, Typed, OfThreads
    <2>3. GoodCallsSurvive'
        BY <1>1 DEF vars, JInv, GoodCallsSurvive, Promises
    <2> QED
        BY <2>1, <2>2, <2>3 DEF JInv, Typed
<1>2. ASSUME NEW t \in Thread, Step(t) \/ Invoke(t) \/ RunOutOfMemory(t)
      PROVE  JInv'
    BY <1>2, InitialiseJInv, LoadJInv, EnterJInv, CopyUnitJInv, CopiedJInv,
       CallWalletJInv, WalletReturnsJInv, ConvertResultJInv, InvokeJInv,
       RunOutOfMemoryJInv DEF Step
<1> QED
    BY <1>1, <1>2, WriteJInv DEF Next

(* Every call whose array nobody writes is, at each of its steps in the    *)
(* JNI library, on the way to what the array promises, whatever other      *)
(* threads do.                                                             *)
THEOREM JInvariant == Spec => []JInv
BY InitJInv, NextJInv, PTL DEF Spec

(* A native method that returns gives what derivation from the bytes of    *)
(* its own wallet's array gives, if nobody wrote the array meanwhile: no   *)
(* copy of a seed is kept in HDWallet.java or jni_hd_wallet.cpp and none   *)
(* is taken for another.                                                   *)
THEOREM AnswersNotMixed == Spec => []AnswersOfItsArray
<1>1. JInv => AnswersOfItsArray
    <2> SUFFICES ASSUME JInv, NEW t \in undisturbed, result[t].status = "returned"
                 PROVE  result[t] \in Promises(t)
        BY DEF AnswersOfItsArray
    <2>1. t \in Thread /\ Shape(t) /\ Course(t)
        BY DEF JInv, Typed
    <2>2. pc[t] = "idle"
        BY <2>1 DEF Shape, NoAnswer
    <2> QED
        BY <2>1, <2>2 DEF Course
<1> QED
    BY <1>1, JInvariant, PTL

(* The process does not end in jni_hd_wallet.cpp, which catches nothing,   *)
(* unless memory is short or some call in flight was given a null array, a *)
(* malformed path, arguments without a key, or an array that is being      *)
(* written.                                                                *)
THEOREM OnlyBadCallsKill == Spec => []GoodCallsSurvive
<1>1. JInv => GoodCallsSurvive
    BY DEF JInv
<1> QED
    BY <1>1, JInvariant, PTL
-----------------------------------------------------------------------------
(* The words of the wallet's promise are those of its callers. *)
LEMMA WalletWords ==
    /\ Wallet!Point = Point /\ Wallet!Index = Index /\ Wallet!Bytes33 = Bytes33
    /\ \A i : (Wallet!IsHardened(i) <=> IsHardened(i)) /\ Wallet!Harden(i) = Harden(i)
    /\ \A a : Wallet!AccountIndex(a) = AccountIndex(a)
    /\ Wallet!Request = Request /\ Wallet!NoRequest = NoRequest
    /\ Wallet!ExtendedCalls = ExtendedCalls /\ Wallet!AccountCalls = AccountCalls
    /\ \A v : Wallet!CopySeed(v) = CopySeed(v)
    /\ Wallet!NoAnswer = NoAnswer
    /\ \A r, e : Wallet!IssueOf(r, e) = IssueOf(r, e)
BY DEF Wallet!Point, Point, Wallet!Index, Index, Wallet!Word, Word, Wallet!Bytes33,
       Bytes33, Wallet!Bytes32, Bytes32, Wallet!IsHardened, IsHardened,
       Wallet!Harden, Harden, Wallet!AccountIndex, AccountIndex,
       Wallet!Request, Request, Wallet!Call, Call, Wallet!SeedKeyCalls,
       SeedKeyCalls, Wallet!AccountCalls, AccountCalls, Wallet!ExtendedCalls,
       ExtendedCalls, Wallet!PrvExtendedCalls, PrvExtendedCalls,
       Wallet!PubExtendedCalls, PubExtendedCalls, Wallet!Extended, Extended,
       Wallet!Version, Version, Wallet!NoRequest, NoRequest, Wallet!OnExtended,
       OnExtended, Wallet!NoExtended, NoExtended, Wallet!Zero33, Zero33,
       Wallet!CopySeed, CopySeed, Wallet!NoAnswer, NoAnswer, Wallet!IssueOf, IssueOf

(* A child that is there is a valid key, and so is its parent; it has a    *)
(* chain code if the parent has.                                           *)
LEMMA ChildTyped ==
    ASSUME NEW x, NEW i \in Index, Wallet!Child(x, i).ok
    PROVE  LET y == Wallet!Child(x, i)
           IN  /\ x.ok /\ x.k \in Point /\ y.k \in Point
               /\ x.c \in ChainCode => y.c \in ChainCode
<1> DEFINE d == IF IsHardened(i) THEN <<0, x.k>> ELSE Wallet!Public(x.k % Order)
           h == ChildHmac[<<x.c, d, i>>]
           k == (x.k + h[1]) % Order
           good == x.ok /\ x.k \in Point /\ h[1] \in Point /\ k # 0
           y == Wallet!Child(x, i)
<1>1. \A z : (CHOOSE w \in {z} : TRUE) = z
    OBVIOUS
<1>2. y = [ok |-> good, k |-> k, c |-> h[2]]
    BY <1>1, WalletWords DEF Wallet!Child
<1> HIDE DEF y, h, k
<1>3. y.ok = good /\ y.k = k /\ y.c = h[2]
    <2>1. /\ [ok |-> good, k |-> k, c |-> h[2]].ok = good
          /\ [ok |-> good, k |-> k, c |-> h[2]].k = k
          /\ [ok |-> good, k |-> k, c |-> h[2]].c = h[2]
        OBVIOUS
    <2> QED
        BY <1>2, <2>1
<1>4. good
    BY <1>3 DEF y
<1>5. d \in Bytes33
    BY <1>4, CurveAssumption DEF Point, Bytes33, Bytes32, Wallet!Public
<1>6. x.c \in ChainCode => h[2] \in ChainCode
    BY <1>5, HmacAssumption DEF h
<1>7. k \in Point
    BY <1>4, CurveAssumption DEF Point, k
<1> QED
    BY <1>3, <1>4, <1>6, <1>7 DEF y

(* The coin's key is two children below the master key. *)
LEMMA CoinNodeIs ==
    ASSUME NEW s, NEW c
    PROVE  Wallet!CoinNode(s, c) =
              Wallet!Child(Wallet!Child(Wallet!Master(s), Harden(Purpose)), Harden(c))
<1> DEFINE x == Wallet!Master(s)
           y == Wallet!Child(x, Harden(Purpose))
           z == Wallet!Child(y, Harden(c))
           two == <<Harden(Purpose), Harden(c)>>
           Descent(f) == f = [n \in 0 .. 2 |-> IF n = 0 THEN x
                                              ELSE Wallet!Child(f[n - 1], two[n])]
           w == CHOOSE f : Descent(f)
           g == [n \in 0 .. 2 |-> IF n = 0 THEN x ELSE IF n = 1 THEN y ELSE z]
<1>1. 0 .. 2 = {0, 1, 2} /\ two[1] = Harden(Purpose) /\ two[2] = Harden(c) /\ Len(two) = 2
    OBVIOUS
<1>2. g[0] = x /\ g[1] = y /\ g[2] = z
    BY <1>1
<1>3. Wallet!Descendant(x, two) = w[2]
    BY <1>1 DEF Wallet!Descendant
<1> HIDE DEF x, y, z, two
<1>4. Descent(g)
    BY <1>1, <1>2 DEF y, z
<1>5. Descent(w)
    BY <1>4
<1> HIDE DEF w
<1>6. w[0] = x /\ w[1] = Wallet!Child(w[0], two[1]) /\ w[2] = Wallet!Child(w[1], two[2])
    BY <1>1, <1>5
<1>7. w[2] = z
    BY <1>1, <1>6 DEF y, z
<1> QED
    BY <1>3, <1>7, WalletWords DEF Wallet!CoinNode, x, y, z, two

(* An extended key that was promised is one. *)
LEMMA PromisedIssue ==
    ASSUME NEW r \in Request, r.call \in AccountCalls,
           Wallet!Promised(r).status = "returned"
    PROVE  IssueOf(r, Wallet!Promised(r).extended) \in Issue
<1> DEFINE m == Wallet!Master(r.seed)
           y == Wallet!Child(m, Harden(Purpose))
           z == Wallet!Child(y, Harden(r.coin))
           x == Wallet!Child(z, AccountIndex(r.account))
           e == Wallet!PromisedExtended(r, x)
<1>1. /\ Harden(Purpose) \in Index /\ Harden(r.coin) \in Index
      /\ AccountIndex(r.account) \in Index
    <2>1. \A i \in Index : Harden(i) \in Index /\ AccountIndex(i) \in Index
        <3>1. ASSUME NEW i \in Index PROVE Harden(i) \in Index
            BY HardenedBitAssumption DEF Index, Word, Harden, IsHardened
        <3>2. ASSUME NEW i \in Index PROVE AccountIndex(i) \in Index
            <4>1. i + HardenedBit \in Int /\ Word \in Nat \ {0}
                BY HardenedBitAssumption DEF Index, Word
            <4> QED
                BY <4>1 DEF AccountIndex, Index
        <3> QED
            BY <3>1, <3>2
    <2> QED
        BY <2>1, ApiAssumption DEF Request
<1>2. r.call \notin ExtendedCalls
    BY DEF AccountCalls, ExtendedCalls, PrvExtendedCalls, PubExtendedCalls
<1>3. Wallet!Secret(r) = x
    BY <1>2, CoinNodeIs, WalletWords DEF Wallet!Secret
<1>4. m.c \in ChainCode
    BY HmacAssumption DEF Wallet!Master, Request
<1>5. x.ok /\ Wallet!Promised(r) = Wallet!ReturnedExtended(e)
    <2>1. Wallet!Thrown.status = "thrown"
        BY DEF Wallet!Thrown, Wallet!NoAnswer
    <2> HIDE DEF x, e
    <2>2. Wallet!Secret(r).ok
        BY <2>1 DEF Wallet!Promised
    <2> QED
        BY <1>3, <2>1, <2>2, WalletWords DEF Wallet!Promised, e
<1> HIDE DEF x
<1>6. z.ok /\ z.k \in Point /\ x.k \in Point
    BY <1>1, <1>5, ChildTyped DEF x
<1> HIDE DEF z
<1>7. z.c \in ChainCode
    <2>1. y.ok
        BY <1>1, <1>6, ChildTyped DEF z
    <2> HIDE DEF y
    <2>2. y.c \in ChainCode
        BY <1>1, <1>4, <2>1, ChildTyped DEF y
    <2> QED
        BY <1>1, <1>6, <2>2, ChildTyped DEF z
<1>8. e \in Extended
    <2>1. Wallet!CoinNode(r.seed, r.coin) = z
        BY CoinNodeIs DEF z
    <2>2. \A k \in Point : Wallet!Public(k) \in Bytes33 /\ Wallet!PrivateKey(k) \in Bytes33
        BY CurveAssumption DEF Point, Wallet!Public, Wallet!PrivateKey, Bytes33, Bytes32
    <2>3. Hash160[Wallet!Public(z.k)] \in Fingerprint
        BY <1>6, <2>2, ApiAssumption
    <2>4. AccountIndex(r.account) \in Index /\ x.c \in ChainCode
        BY <1>1, <1>5, <1>7, ChildTyped DEF x
    <2> QED
        BY <1>6, <2>1, <2>2, <2>3, <2>4, WalletWords
           DEF Wallet!PromisedExtended, Wallet!AccountDepth, Extended, Version
<1>9. Wallet!ReturnedExtended(e).extended = e
    BY DEF Wallet!ReturnedExtended, Wallet!NoAnswer
<1> QED
    BY <1>5, <1>8, <1>9 DEF IssueOf, Issue, Request

(* The extended key that stands for none is one.                           *)
LEMMA NoExtendedTyped == NoExtended \in Extended /\ 0 \in Index
<1>1. Zero33 \in Bytes33 /\ 0 \in Index
    BY CurveAssumption, HardenedBitAssumption
       DEF Zero33, Bytes33, Bytes32, Index, Word
<1> QED
    BY <1>1, ApiAssumption, HmacAssumption DEF NoExtended, Extended, Version

(* What the native method asks of the wallet is a request, on a seed that  *)
(* is copied from the array.                                               *)
LEMMA RequestsTyped ==
    ASSUME NEW known, known \subseteq Extended, NEW a \in Arguments(known),
           IsPath(a.text), NEW v, a.call \notin ExtendedCalls => v \in SeedVector,
           NEW r \in RequestsOf(a, v)
    PROVE  /\ r \in Request
           /\ r.call \notin ExtendedCalls => r.seed \in CopySeed(r.vector)
<1>1. a.text.path \in Path \cup {<<>>}
    BY JavaAssumption
       DEF Arguments, OnWallet, OnText, IsPath, Malformed, NullText
<1>2. CASE a.call \in ExtendedCalls
    <2>1. a.extended \in Extended
        BY <1>2, ApiAssumption, NoExtendedTyped
           DEF Arguments, OnWallet, OnText
    <2>2. (CHOOSE s \in Seed : TRUE) \in Seed
        <3>1. PICK b : b \in Block
            BY ApiAssumption
        <3>2. [n \in 1 .. SeedLen |-> b] \in Seed
            BY <3>1, ApiAssumption
        <3> QED
            BY <3>2
    <2>3. r = OnExtended(a.call, a.extended, a.text.path)
        BY <1>2 DEF RequestsOf
    <2> QED
        BY <1>1, <1>2, <2>1, <2>2, <2>3, NoExtendedTyped
           DEF OnExtended, Request, Call
<1>3. CASE a.call \notin ExtendedCalls
    <2>1. a.coin \in Index /\ a.account \in Index /\ a.call \in Call
        BY <1>3, ApiAssumption DEF Arguments, OnWallet, OnText, Call
    <2>2. r \in OnSeed(a.call, v, a.text.path, a.coin, a.account)
        BY <1>3 DEF RequestsOf
    <2> QED
        BY <1>1, <1>3, <2>1, <2>2, NoExtendedTyped DEF OnSeed, CopySeed, Request
<1> QED
    BY <1>2, <1>3
-----------------------------------------------------------------------------
(* TypeOK of one thread, and of a copy that is under way. *)
InUse(t) ==
    /\ pc[t] = "copy" /\ args[t].array # NullArray =>
          \A i \in DOMAIN copied[t] :
              i \in DOMAIN heap[args[t].array] /\ copied[t][i] \in Block
    /\ pc[t] \in {"text", "wallet"} /\ OnSeedCall(t) => copied[t] \in SeedVector
    /\ pc[t] # "idle" => args[t] \in Arguments(Known)
    /\ t \in busy => pc[t] = "wallet"
    /\ pc[t] = "wallet" /\ process = "running" => t \in busy

(* The types with what they rest on.                                       *)
TInv ==
    /\ class \in {"new", "loading", "loaded", "barred"}
    /\ heap \in [Array -> SeedVector] /\ busy \subseteq Thread
    /\ request \in [Thread -> Request] /\ issued \subseteq Issue
    /\ \A t \in Thread : InUse(t)

(* A step of one thread leaves the others, and their calls of the wallet,  *)
(* alone.                                                                  *)
LEMMA StepsAlone ==
    ASSUME Typed, NEW t \in Thread, Step(t) \/ Invoke(t) \/ RunOutOfMemory(t)
    PROVE  /\ UNCHANGED heap /\ process = "running"
           /\ \A u \in Thread \ {t} : Same(u) /\ (u \in busy' <=> u \in busy)
<1> USE DEF Typed, OfThreads, Same, Others, Go, Return, Die, walletVars
<1>1. CASE Initialise(t)
    BY <1>1 DEF Initialise
<1>2. CASE Load(t)
    BY <1>2 DEF Load
<1>3. CASE Enter(t)
    BY <1>3 DEF Enter
<1>4. CASE CopyUnit(t)
    BY <1>4 DEF CopyUnit
<1>5. CASE Copied(t)
    BY <1>5 DEF Copied
<1>6. CASE CallWallet(t)
    BY <1>6 DEF CallWallet
<1>7. CASE WalletReturns(t)
    BY <1>7 DEF WalletReturns, Wallet!End
<1>8. CASE ConvertResult(t)
    BY <1>8 DEF ConvertResult
<1>9. CASE Invoke(t)
    BY <1>9 DEF Invoke
<1>10. CASE RunOutOfMemory(t)
    BY <1>10 DEF RunOutOfMemory
<1> QED
    BY <1>1, <1>2, <1>3, <1>4, <1>5, <1>6, <1>7, <1>8, <1>9, <1>10 DEF Step

(* Arguments stay possible when more extended keys are known.              *)
LEMMA KnownGrows ==
    ASSUME issued \subseteq issued'
    PROVE  Arguments(Known) \subseteq Arguments(Known)'
<1>1. Known \subseteq Known'
    BY DEF Known
<1>2. Foreign \cup Known \cup {NoExtended} \subseteq Foreign \cup Known' \cup {NoExtended}
    BY <1>1
<1> QED
    BY <1>2 DEF Arguments

(* The rest of the invariant is about the thread whose step it is. *)
LEMMA StepTInv ==
    ASSUME TInv, Typed, NEW t \in Thread,
           Step(t) \/ Invoke(t) \/ RunOutOfMemory(t),
           class' \in {"new", "loading", "loaded", "barred"},
           busy' \subseteq Thread, request' \in [Thread -> Request],
           issued \subseteq issued', issued' \subseteq Issue, InUse(t)'
    PROVE  TInv'
<1>1. /\ UNCHANGED heap /\ process = "running"
      /\ \A u \in Thread \ {t} : Same(u) /\ (u \in busy' <=> u \in busy)
    BY StepsAlone
<1>2. ASSUME NEW u \in Thread \ {t} PROVE InUse(u)'
    BY <1>1, <1>2, KnownGrows DEF TInv, InUse, Same, OnSeedCall
<1> QED
    BY <1>1, <1>2 DEF TInv

(* A step that leaves the wallet alone goes from one use to another. *)
LEMMA AsideTInv ==
    ASSUME JInv, TInv, NEW t \in Thread,
           Step(t) \/ Invoke(t) \/ RunOutOfMemory(t), UNCHANGED walletVars,
           class' \in {"new", "loading", "loaded", "barred"}, InUse(t)'
    PROVE  TInv' /\ UNCHANGED Wallet!promiseVars
<1>1. UNCHANGED <<busy, request, answer, issued>>
    BY DEF walletVars
<1>2. TInv'
    BY <1>1, StepTInv DEF JInv, TInv
<1> QED
    BY <1>1, <1>2 DEF Wallet!promiseVars

(* The class is initialised, and entered, with nothing copied.             *)
LEMMA ClassTInv ==
    ASSUME JInv, TInv, NEW t \in Thread, Initialise(t) \/ Load(t) \/ Enter(t)
    PROVE  TInv' /\ UNCHANGED Wallet!promiseVars
<1>1. /\ Typed /\ Shape(t) /\ InUse(t) /\ pc[t] \in {"class", "load"}
      /\ UNCHANGED walletVars /\ UNCHANGED <<heap, args, copied, process>>
      /\ class' \in {"new", "loading", "loaded", "barred"}
    BY DEF JInv, TInv, Initialise, Load, Enter, Others
<1>2. pc'[t] \in {"idle", "load", "class", "copy"} \/ (pc'[t] = "text" /\ ~OnSeedCall(t))
    BY <1>1 DEF Initialise, Load, Enter, Go, Return, Typed, OfThreads, OnSeedCall
<1>3. copied[t] = <<>> /\ t \notin busy
    BY <1>1 DEF Shape, InUse
<1>4. Known' = Known
    BY <1>1 DEF walletVars, Known
<1>5. InUse(t)'
    BY <1>1, <1>2, <1>3, <1>4 DEF InUse, OnSeedCall, walletVars
<1> QED
    BY <1>1, <1>5, AsideTInv DEF Step

(* A call begins with arguments that callers may give.                     *)
LEMMA InvokeTInv ==
    ASSUME JInv, TInv, NEW t \in Thread, Invoke(t)
    PROVE  TInv' /\ UNCHANGED Wallet!promiseVars
<1>1. PICK a \in Arguments(Known) : args' = [args EXCEPT ![t] = a]
    BY DEF Invoke
<1>2. /\ Typed /\ InUse(t) /\ pc[t] = "idle" /\ UNCHANGED <<class, process>>
      /\ UNCHANGED walletVars
    BY DEF JInv, TInv, Invoke
<1>3. args'[t] = a /\ pc'[t] = "class"
    BY <1>1, <1>2 DEF Invoke, Go, Typed, OfThreads
<1>4. Known' = Known /\ busy' = busy /\ t \notin busy
    BY <1>2 DEF walletVars, Known, InUse
<1>5. InUse(t)'
    BY <1>3, <1>4 DEF InUse
<1> QED
    BY <1>2, <1>5, AsideTInv DEF TInv

(* An element that is copied is one of the array.                          *)
LEMMA CopyUnitTInv ==
    ASSUME JInv, TInv, NEW t \in Thread, CopyUnit(t)
    PROVE  TInv' /\ UNCHANGED Wallet!promiseVars
<1> DEFINE a == args[t].array
<1>1. /\ Typed /\ Shape(t) /\ InUse(t) /\ pc[t] = "copy" /\ a # NullArray
      /\ UNCHANGED walletVars /\ UNCHANGED <<heap, args, pc, process, class>>
    BY DEF JInv, TInv, CopyUnit, Others
<1>2. PICK i \in DOMAIN heap[a] \ DOMAIN copied[t] :
         copied' = [copied EXCEPT ![t] =
            [j \in {i} \cup DOMAIN @ |-> IF j = i THEN heap[a][i] ELSE @[j]]]
    BY DEF CopyUnit
<1>3. copied'[t] = [j \in {i} \cup DOMAIN copied[t] |->
                      IF j = i THEN heap[a][i] ELSE copied[t][j]]
    BY <1>1, <1>2 DEF Typed, OfThreads
<1>4. heap[a] \in Seq(Block)
    BY <1>1 DEF Typed, Shape, Proper
<1>5. heap[a][i] \in Block
    BY <1>2, <1>4
<1>6. \A j \in DOMAIN copied'[t] : j \in DOMAIN heap[a] /\ copied'[t][j] \in Block
    BY <1>1, <1>2, <1>3, <1>5 DEF InUse
<1>7. Known' = Known /\ busy' = busy /\ t \notin busy
    BY <1>1 DEF walletVars, Known, InUse
<1>8. InUse(t)'
    BY <1>1, <1>6, <1>7 DEF InUse
<1> QED
    BY <1>1, <1>8, AsideTInv DEF TInv, Step

(* The complete copy is a seed array, whether or not it was written        *)
(* meanwhile.                                                              *)
LEMMA CopiedTInv ==
    ASSUME JInv, TInv, NEW t \in Thread, Copied(t)
    PROVE  TInv' /\ UNCHANGED Wallet!promiseVars
<1> DEFINE a == args[t].array
<1>1. /\ Typed /\ Shape(t) /\ InUse(t) /\ pc[t] = "copy" /\ UNCHANGED walletVars
      /\ UNCHANGED <<heap, args, copied, class>>
    BY DEF JInv, TInv, Copied, Others
<1>2. Known' = Known /\ busy' = busy /\ t \notin busy
    BY <1>1 DEF walletVars, Known, InUse
<1>3. CASE a = NullArray
    <2>1. pc' = pc
        BY <1>3 DEF Copied, Die
    <2>2. InUse(t)'
        BY <1>1, <1>2, <1>3, <2>1 DEF InUse
    <2> QED
        BY <1>1, <2>2, AsideTInv DEF TInv, Step
<1>4. CASE a # NullArray
    <2>1. /\ pc'[t] = "text" /\ DOMAIN copied[t] = DOMAIN heap[a]
        BY <1>1, <1>4 DEF Copied, Go, Typed, OfThreads
    <2>2. heap[a] \in SeedVector /\ heap[a] \in Seq(Block)
        BY <1>1, <1>4 DEF TInv, Typed, Shape, Proper
    <2>3. copied[t] \in [1 .. Len(heap[a]) -> Block]
        <3>1. \A i \in DOMAIN copied[t] : copied[t][i] \in Block
            BY <1>1, <1>4 DEF InUse
        <3>2. copied[t] = [i \in DOMAIN copied[t] |-> copied[t][i]]
            BY <1>1 DEF Shape
        <3>3. DOMAIN heap[a] = 1 .. Len(heap[a])
            BY <2>2
        <3> QED
            BY <2>1, <3>1, <3>2, <3>3
    <2>4. copied[t] \in SeedVector
        BY <2>2, <2>3, JavaAssumption
    <2>5. InUse(t)'
        BY <1>1, <1>2, <2>1, <2>4 DEF InUse
    <2> QED
        BY <1>1, <2>5, AsideTInv DEF TInv, Step
<1> QED
    BY <1>3, <1>4

(* The wallet is out of use when its answer is handed over.                *)
LEMMA ReturnTInv ==
    ASSUME JInv, TInv, NEW t \in Thread, ConvertResult(t) \/ RunOutOfMemory(t)
    PROVE  TInv' /\ UNCHANGED Wallet!promiseVars
<1>1. /\ Typed /\ InUse(t) /\ pc[t] \in {"text", "back"} /\ UNCHANGED walletVars
      /\ UNCHANGED <<heap, args, copied, class>>
    BY DEF JInv, TInv, ConvertResult, RunOutOfMemory, Others
<1>2. pc'[t] \in {pc[t], "idle"}
    BY <1>1 DEF ConvertResult, RunOutOfMemory, Return, Go, Die, Typed, OfThreads
<1>3. Known' = Known /\ busy' = busy /\ t \notin busy
    BY <1>1 DEF walletVars, Known, InUse
<1>4. InUse(t)'
    BY <1>1, <1>2, <1>3 DEF InUse, OnSeedCall
<1> QED
    BY <1>1, <1>4, AsideTInv DEF TInv, Step

(* The native method begins a call of the wallet, with arguments the       *)
(* wallet takes, and of which it has none under way.                       *)
LEMMA CallWalletTInv ==
    ASSUME JInv, TInv, NEW t \in Thread, CallWallet(t)
    PROVE  TInv' /\ (Wallet!Begin(t) \/ UNCHANGED Wallet!promiseVars)
<1>1. /\ Typed /\ InUse(t) /\ pc[t] = "text"
      /\ UNCHANGED <<heap, args, copied, class, issued>>
    BY DEF JInv, TInv, CallWallet, Others, walletVars
<1>2. Known' = Known /\ t \notin busy
    BY <1>1 DEF Known, InUse
<1>3. CASE ~IsPath(args[t].text)
    <2>1. UNCHANGED pc /\ UNCHANGED walletVars
        BY <1>3 DEF CallWallet, Die
    <2>2. InUse(t)'
        BY <1>1, <1>2, <2>1 DEF InUse, OnSeedCall, walletVars
    <2> QED
        BY <1>1, <2>1, <2>2, AsideTInv DEF TInv, Step
<1>4. CASE IsPath(args[t].text)
    <2>1. PICK r \in RequestsOf(args[t], copied[t]) :
             request' = [request EXCEPT ![t] = r]
        BY <1>4 DEF CallWallet
    <2>2. /\ pc' = [pc EXCEPT ![t] = "wallet"] /\ answer' = [answer EXCEPT ![t] = NoAnswer]
          /\ busy' = busy \cup {t}
        BY <1>4 DEF CallWallet, Go
    <2>3. Known \subseteq Extended
        BY DEF TInv, Known, Issue
    <2>4. r \in Request /\ (r.call \notin ExtendedCalls => r.seed \in CopySeed(r.vector))
        BY <1>1, <1>4, <2>1, <2>3, RequestsTyped DEF InUse, OnSeedCall
    <2>5. request' \in [Thread -> Request] /\ request'[t] = r
        BY <2>1, <2>4 DEF TInv
    <2>6. InUse(t)'
        BY <1>1, <1>2, <2>2 DEF InUse, OnSeedCall, Typed, OfThreads
    <2>7. TInv'
        BY <1>1, <2>2, <2>5, <2>6, StepTInv DEF TInv, Step
    <2>8. Wallet!Begin(t)
        <3>1. \A u \in Thread \ {t} : request'[u] = request[u]
            BY <2>1 DEF TInv
        <3> QED
            BY <1>1, <1>2, <2>2, <2>4, <2>5, <3>1, WalletWords DEF Wallet!Begin
    <2> QED
        BY <2>7, <2>8
<1> QED
    BY <1>3, <1>4

(* The wallet ends the call that was begun.                                *)
LEMMA WalletReturnsTInv ==
    ASSUME JInv, TInv, NEW t \in Thread, WalletReturns(t)
    PROVE  TInv' /\ Wallet!End(t)
<1> DEFINE r == request[t]
           a == Wallet!Promised(r)
<1>1. /\ Typed /\ InUse(t) /\ pc[t] = "wallet" /\ Wallet!End(t)
      /\ UNCHANGED <<heap, args, copied, class, request>>
    BY DEF JInv, TInv, WalletReturns, Others, Wallet!End
<1>2. r \in Request
    BY DEF TInv
<1>3. /\ issued' = issued \cup
            (IF r.call \in AccountCalls /\ a.status = "returned"
             THEN {IssueOf(r, a.extended)} ELSE {})
      /\ busy' = busy \ {t}
    BY <1>1, WalletWords DEF Wallet!End
<1>4. issued \subseteq issued' /\ issued' \subseteq Issue
    BY <1>2, <1>3, PromisedIssue DEF TInv
<1>5. pc'[t] \in {"back", "wallet"} /\ (process' = "running" => pc'[t] = "back")
    BY <1>1 DEF WalletReturns, Die, Go, Typed, OfThreads
<1>6. args[t] \in Arguments(Known)'
    BY <1>1, <1>4, KnownGrows DEF InUse
<1>7. InUse(t)'
    BY <1>1, <1>3, <1>5, <1>6 DEF InUse, OnSeedCall
<1>8. TInv'
    BY <1>1, <1>3, <1>4, <1>7, StepTInv DEF TInv, Step
<1> QED
    BY <1>1, <1>8

(* A seed array of which one element is written is a seed array.           *)
LEMMA WriteTInv ==
    ASSUME JInv, TInv, NEW a \in SharedArray, Write(a)
    PROVE  TInv' /\ UNCHANGED Wallet!promiseVars
<1>1. PICK i \in DOMAIN heap[a], b \in Block : heap' = [heap EXCEPT ![a][i] = b]
    BY DEF Write
<1>2. /\ UNCHANGED <<class, process, pc, args, copied, busy, request, answer, issued>>
      /\ a \in Array
    BY JavaAssumption DEF Write, walletVars
<1>3. heap[a] \in SeedVector /\ heap[a] \in Seq(Block)
    BY <1>2, ApiAssumption DEF TInv
<1>4. [heap[a] EXCEPT ![i] = b] \in [1 .. Len(heap[a]) -> Block]
    BY <1>3
<1>5. heap' \in [Array -> SeedVector]
    BY <1>1, <1>2, <1>3, <1>4, JavaAssumption DEF TInv
<1>6. \A c \in Array : DOMAIN heap'[c] = DOMAIN heap[c]
    BY <1>1, <1>2 DEF TInv
<1>7. Known' = Known
    BY <1>2 DEF Known
<1>8. ASSUME NEW t \in Thread PROVE InUse(t)'
    <2>1. InUse(t) /\ Shape(t)
        BY DEF JInv, TInv
    <2>2. pc[t] = "copy" /\ args[t].array # NullArray =>
            DOMAIN heap'[args[t].array] = DOMAIN heap[args[t].array]
        BY <1>6, <2>1 DEF Shape, Proper
    <2> QED
        BY <1>2, <1>7, <2>1, <2>2 DEF InUse, OnSeedCall
<1> QED
    BY <1>2, <1>5, <1>8 DEF TInv, Wallet!promiseVars

(* At first the wallet is asked nothing.                                   *)
LEMMA InitTInv == Init => TInv /\ Wallet!Init
<1> SUFFICES ASSUME Init PROVE TInv /\ Wallet!Init
    OBVIOUS
<1>1. NoRequest \in Request
    <2>1. (CHOOSE s \in Seed : TRUE) \in Seed
        <3>1. PICK b : b \in Block
            BY ApiAssumption
        <3>2. [n \in 1 .. SeedLen |-> b] \in Seed
            BY <3>1, ApiAssumption
        <3> QED
            BY <3>2
    <2> QED
        BY <2>1, NoExtendedTyped
           DEF NoRequest, OnExtended, Request, Call, ExtendedCalls, PubExtendedCalls
<1>2. request = [t \in Thread |-> NoRequest] /\ busy = {} /\ issued = {}
    BY WalletWords DEF Init, Wallet!Init
<1>3. ASSUME NEW t \in Thread PROVE InUse(t)
    BY <1>2 DEF Init, InUse
<1> QED
    BY <1>1, <1>2, <1>3, JavaAssumption DEF Init, TInv

(* Every step keeps the types, and uses the wallet as it is meant to be    *)
(* used.                                                                   *)
LEMMA NextTInv ==
    JInv /\ TInv /\ [Next]_vars => TInv' /\ [Wallet!Next]_(Wallet!promiseVars)
<1> SUFFICES ASSUME JInv, TInv, [Next]_vars
             PROVE  TInv' /\ [Wallet!Next]_(Wallet!promiseVars)
    OBVIOUS
<1>1. CASE UNCHANGED vars
    <2>1. TInv'
        BY <1>1 DEF vars, TInv, InUse, OnSeedCall, Known
    <2> QED
        BY <1>1, <2>1 DEF vars, Wallet!promiseVars
<1>2. ASSUME NEW t \in Thread, Step(t) \/ Invoke(t) \/ RunOutOfMemory(t)
      PROVE  TInv' /\ [Wallet!Next]_(Wallet!promiseVars)
    BY <1>2, ClassTInv, CopyUnitTInv, CopiedTInv, CallWalletTInv, WalletReturnsTInv,
       ReturnTInv, InvokeTInv DEF Step, Wallet!Next
<1> QED
    BY <1>1, <1>2, WriteTInv DEF Next

(* The JNI library uses the wallet as WalletPromise allows and in no other *)
(* way: a thread makes one call at a time, on a seed its array may hold,   *)
(* with arguments the wallet takes, and the answer is taken as it comes.   *)
THEOREM WalletUsedAsPromised == Spec => Wallet!Spec
<1>1. Init => JInv /\ TInv /\ Wallet!Init
    BY InitJInv, InitTInv
<1>2. JInv /\ TInv /\ [Next]_vars => TInv' /\ [Wallet!Next]_(Wallet!promiseVars)
    BY NextTInv
<1> QED
    BY <1>1, <1>2, JInvariant, PTL DEF Spec, Wallet!Spec

(* The types hold: of the copies also when their array is written while it *)
(* is copied, and no thread that waits for the wallet is forgotten.        *)
THEOREM JavaTypeCorrect == Spec => []TypeOK
<1>1. JInv /\ TInv => TypeOK
    <2> SUFFICES ASSUME JInv, TInv PROVE TypeOK
        OBVIOUS
    <2>1. DOMAIN pc = Thread
        BY DEF JInv, Typed, OfThreads
    <2> QED
        BY <2>1 DEF JInv, TInv, Typed, Shape, InUse, OnSeedCall, TypeOK
<1>2. Init => TInv
    BY InitTInv
<1>3. JInv /\ TInv /\ [Next]_vars => TInv'
    BY NextTInv
<1> QED
    BY <1>1, <1>2, <1>3, JInvariant, PTL DEF Spec
-----------------------------------------------------------------------------
(* The loader with any contents and any number of resources: what it       *)
(* leaves behind, what it loads and what its errors tell.  It runs before  *)
(* the rest, and shares no variable with it.                               *)
Found == IF named = <<>> THEN otherNamed ELSE named

(* There is no temporary file before one is created, and none after the    *)
(* finally block but one the JVM will delete.                              *)
FileInv ==
    /\ stage \in {"name", "find", "find other", "not found", "create"} =>
          tmpFile = NoFile
    /\ Ended => NoFileLeft

(* The chosen resource is one on which all of its name agree.              *)
ChoiceInv ==
    /\ url # NoUrl => \A i \in DOMAIN Found : <<Found[i]>> = url
    /\ stage \in {"create", "unpack", "load"} => url # NoUrl
    /\ stage \in {"name", "find", "find other", "not found"} => url = NoUrl
    /\ stage = "find other" => named = <<>>
    /\ stage = "load" => tmpFile.there

(* A failure is in flight exactly when nothing is loaded.                  *)
LoadInv ==
    /\ stage \in {"catch", "unsatisfied", "threw"} =>
          thrown # {} /\ loaded = Nothing
    /\ stage = "clean up" => (thrown = {} <=> loaded # Nothing)
    /\ stage = "returned" => loaded # Nothing
    /\ stage \notin {"catch", "unsatisfied", "threw", "clean up", "returned"} =>
          thrown = {} /\ loaded = Nothing
    /\ loaded.from = "file" =>
          loaded.content \in Library /\ url = <<loaded.content>>

(* The failure by name is collected, or told of by what is in flight.      *)
TellInv ==
    /\ stage \notin {"name", "returned", "threw", "clean up"} =>
          "by name" \in suppressed \cup thrown
    /\ stage = "clean up" /\ thrown # {} => "by name" \in thrown
    /\ TellsEveryFailure

LoaderInv == LoaderTypeOK /\ FileInv /\ ChoiceInv /\ LoadInv /\ TellInv

(* What a record for a file is, so that the proofs need not look inside.   *)
LEMMA FileFacts ==
    /\ NoFile \in Files /\ NoFile.there = FALSE
    /\ \A c \in Content : File(c, TRUE) \in Files
    /\ \A c \in Content \cup {Unreadable} : File(c, FALSE) \in Files
    /\ \A c : /\ File(c, TRUE).there /\ File(c, TRUE).content = c
              /\ File(c, FALSE).there /\ File(c, FALSE).content = c
<1>1. NoFile.there = FALSE
    BY DEF NoFile
<1>2. \A c : /\ File(c, TRUE).there /\ File(c, TRUE).content = c
             /\ File(c, FALSE).there /\ File(c, FALSE).content = c
    BY DEF File
<1> QED
    BY <1>1, <1>2 DEF Files

(* The same for what the JVM loaded.                                       *)
LEMMA LoadedFacts ==
    /\ Nothing \in Loads /\ ByName \in Loads
    /\ \A c \in Content : FromFile(c) \in Loads
    /\ Nothing.from = "nowhere" /\ ByName.from = "library path"
    /\ Nothing # ByName
    /\ \A c : /\ FromFile(c).from = "file"
              /\ FromFile(c).content = c
              /\ FromFile(c) # Nothing
<1>1. /\ Nothing.from = "nowhere" /\ ByName.from = "library path"
      /\ \A c : FromFile(c).from = "file" /\ FromFile(c).content = c
    BY DEF Nothing, ByName, FromFile
<1> QED
    BY <1>1 DEF Loads

(* The same for a choice of a resource.                                    *)
LEMMA UrlFacts ==
    /\ NoUrl \in Urls
    /\ \A c \in Content \cup {Unreadable} : <<c>> \in Urls
    /\ \A c, d : /\ <<c>> # NoUrl
                 /\ <<c>>[1] = c
                 /\ <<c>> = <<d>> => c = d
    /\ \A u \in Urls : u = NoUrl \/ \E c \in Content \cup {Unreadable} :
                                      u = <<c>> /\ u[1] = c
<1>1. \A c, d : /\ <<c>> # NoUrl
                /\ <<c>>[1] = c
                /\ <<c>> = <<d>> => c = d
    BY DEF NoUrl
<1> QED
    BY <1>1 DEF Urls

(* The inductive invariant holds when load() is called.                    *)
LEMMA LoaderInitInv == LoaderInit => LoaderInv
<1> SUFFICES ASSUME LoaderInit PROVE LoaderInv
    OBVIOUS
<1>1. LoaderTypeOK
    BY FileFacts, LoadedFacts, UrlFacts DEF LoaderInit, LoaderTypeOK
<1> QED
    BY <1>1, FileFacts, LoadedFacts
        DEF LoaderInit, LoaderInv, FileInv, NoFileLeft, Ended, ChoiceInv, LoadInv,
            TellInv, TellsEveryFailure

(* A search that succeeds chooses what all resources of the name hold.     *)
LEMMA Chosen ==
    ASSUME NEW rs \in Resources, Unambiguous(rs), rs # <<>>
    PROVE  /\ rs[1] \in Content \cup {Unreadable}
           /\ \A i \in DOMAIN rs : rs[i] = rs[1]
<1>1. PICK n \in 0 .. MaxResources :
          rs \in [1 .. n -> Content \cup {Unreadable}]
    BY LoaderAssumption DEF Resources, BoundedSeq, SeqOf
<1>2. rs \in Seq(Content \cup {Unreadable}) /\ Len(rs) = n
    BY <1>1, LoaderAssumption
<1>3. Len(rs) >= 1
    BY <1>2
<1>4. CASE Len(rs) = 1
    BY <1>2, <1>4
<1>5. CASE Len(rs) > 1
    BY <1>2, <1>5 DEF Unambiguous, Agree
<1> QED
    BY <1>2, <1>3, <1>4, <1>5
(* Every step of load() keeps the inductive invariant.                     *)
LEMMA LoaderStepInv == LoaderInv /\ [LoaderNext]_loader => LoaderInv'
<1> SUFFICES ASSUME LoaderInv, [LoaderNext]_loader PROVE LoaderInv'
    OBVIOUS
<1> USE FileFacts, LoadedFacts, UrlFacts DEF LoaderInv
<1>1. CASE LoadByName
    <2>1. LoaderTypeOK'
        BY <1>1 DEF LoadByName, LoaderTypeOK, Failure, world
    <2>2. FileInv'
        BY <1>1 DEF LoadByName, FileInv, NoFileLeft, Ended, world
    <2>3. ChoiceInv'
        BY <1>1 DEF LoadByName, ChoiceInv, Found, world
    <2>4. LoadInv'
        BY <1>1 DEF LoadByName, LoadInv
    <2>5. TellInv'
        BY <1>1 DEF LoadByName, TellInv, TellsEveryFailure
    <2> QED
        BY <2>1, <2>2, <2>3, <2>4, <2>5
<1>2. CASE FindResource
    <2>0. \/ url' = NoUrl
          \/ /\ named # <<>> /\ url' = <<named[1]>>
             /\ named[1] \in Content \cup {Unreadable}
             /\ \A i \in DOMAIN named : named[i] = named[1]
        <3>1. url = NoUrl /\ named \in Resources
            BY <1>2 DEF FindResource, LoaderTypeOK, ChoiceInv
        <3>2. \/ url' = NoUrl
              \/ named # <<>> /\ Unambiguous(named) /\ url' = <<named[1]>>
            BY <1>2, <3>1 DEF FindResource
        <3> QED
            BY <3>1, <3>2, Chosen
    <2>1. LoaderTypeOK'
        <3>1. url' \in Urls /\ tmpFile' \in Files /\ loaded' \in Loads
            BY <2>0, <1>2 DEF FindResource, LoaderTypeOK
        <3>2. (tmpFile.there => url = <<tmpFile.content>>)'
            BY <2>0, <1>2 DEF FindResource, LoaderTypeOK, FileInv
        <3>3. (suppressed \subseteq Failure /\ thrown \subseteq Failure)'
            BY <1>2 DEF FindResource, LoaderTypeOK, Failure
        <3> QED
            BY <3>1, <3>2, <3>3, <1>2 DEF FindResource, LoaderTypeOK, world
    <2>2. FileInv'
        BY <1>2 DEF FindResource, FileInv, NoFileLeft, Ended, world
    <2>3. ChoiceInv'
        BY <2>0, <1>2 DEF FindResource, ChoiceInv, Found, world
    <2>4. LoadInv'
        BY <1>2 DEF FindResource, LoadInv
    <2>5. TellInv'
        BY <1>2 DEF FindResource, TellInv, TellsEveryFailure, LoadInv, ChoiceInv
    <2> QED
        BY <2>1, <2>2, <2>3, <2>4, <2>5
<1>3. CASE FindOtherResource
    <2>0. \/ url' = NoUrl
          \/ /\ otherNamed # <<>> /\ url' = <<otherNamed[1]>>
             /\ otherNamed[1] \in Content \cup {Unreadable}
             /\ \A i \in DOMAIN otherNamed : otherNamed[i] = otherNamed[1]
        <3>1. url = NoUrl /\ otherNamed \in Resources
            BY <1>3 DEF FindOtherResource, LoaderTypeOK, ChoiceInv
        <3>2. \/ url' = NoUrl
              \/ otherNamed # <<>> /\ Unambiguous(otherNamed) /\ url' = <<otherNamed[1]>>
            BY <1>3, <3>1 DEF FindOtherResource
        <3> QED
            BY <3>1, <3>2, Chosen
    <2>1. LoaderTypeOK'
        <3>1. url' \in Urls /\ tmpFile' \in Files /\ loaded' \in Loads
            BY <2>0, <1>3 DEF FindOtherResource, LoaderTypeOK
        <3>2. (tmpFile.there => url = <<tmpFile.content>>)'
            BY <2>0, <1>3 DEF FindOtherResource, LoaderTypeOK, FileInv
        <3>3. (suppressed \subseteq Failure /\ thrown \subseteq Failure)'
            BY <1>3 DEF FindOtherResource, LoaderTypeOK, Failure
        <3> QED
            BY <3>1, <3>2, <3>3, <1>3 DEF FindOtherResource, LoaderTypeOK, world
    <2>2. FileInv'
        BY <1>3 DEF FindOtherResource, FileInv, NoFileLeft, Ended, world
    <2>3. ChoiceInv'
        BY <2>0, <1>3 DEF FindOtherResource, ChoiceInv, Found, world
    <2>4. LoadInv'
        BY <1>3 DEF FindOtherResource, LoadInv
    <2>5. TellInv'
        BY <1>3 DEF FindOtherResource, TellInv, TellsEveryFailure, LoadInv, ChoiceInv
    <2> QED
        BY <2>1, <2>2, <2>3, <2>4, <2>5
<1>4. CASE NotFound
    <2>1. LoaderTypeOK'
        BY <1>4 DEF NotFound, LoaderTypeOK, Failure, world
    <2>2. FileInv'
        BY <1>4 DEF NotFound, FileInv, NoFileLeft, Ended, world
    <2>3. ChoiceInv'
        BY <1>4 DEF NotFound, ChoiceInv, Found, world
    <2>4. LoadInv'
        BY <1>4 DEF NotFound, LoadInv
    <2>5. TellInv'
        BY <1>4 DEF NotFound, TellInv, TellsEveryFailure, LoadInv, ChoiceInv
    <2> QED
        BY <2>1, <2>2, <2>3, <2>4, <2>5
<1>5. CASE CreateTempFile
    <2>0. PICK c \in Content \cup {Unreadable} : url = <<c>> /\ url[1] = c
        BY <1>5 DEF CreateTempFile, LoaderTypeOK, ChoiceInv
    <2>a. tmpFile' = NoFile \/ tmpFile' = File(c, FALSE)
        BY <2>0, <1>5 DEF CreateTempFile, FileInv
    <2>b. url' = url
        BY <1>5 DEF CreateTempFile
    <2>1. LoaderTypeOK'
        <3>1. url' \in Urls /\ tmpFile' \in Files /\ loaded' \in Loads
            BY <2>0, <2>a, <1>5 DEF CreateTempFile, LoaderTypeOK
        <3>2. (tmpFile.there => url = <<tmpFile.content>>)'
            BY <2>0, <2>a, <2>b
        <3>3. (suppressed \subseteq Failure /\ thrown \subseteq Failure)'
            BY <1>5 DEF CreateTempFile, LoaderTypeOK, Failure
        <3> QED
            BY <3>1, <3>2, <3>3, <1>5 DEF CreateTempFile, LoaderTypeOK, world
    <2>2. FileInv'
        BY <1>5 DEF CreateTempFile, FileInv, NoFileLeft, Ended, world
    <2>3. ChoiceInv'
        BY <2>0, <2>a, <1>5 DEF CreateTempFile, ChoiceInv, Found, world
    <2>4. LoadInv'
        BY <1>5 DEF CreateTempFile, LoadInv
    <2>5. TellInv'
        BY <1>5 DEF CreateTempFile, TellInv, TellsEveryFailure, LoadInv, ChoiceInv
    <2> QED
        BY <2>1, <2>2, <2>3, <2>4, <2>5
<1>6. CASE Unpack
    <2>0. PICK c \in Content \cup {Unreadable} : url = <<c>> /\ url[1] = c
        BY <1>6 DEF Unpack, LoaderTypeOK, ChoiceInv
    <2>a. \/ tmpFile' = File(c, TRUE) /\ c \in Content
          \/ tmpFile' = File(c, FALSE) /\ stage' = "catch"
        BY <2>0, <1>6 DEF Unpack, FileInv
    <2>b. url' = url
        BY <1>6 DEF Unpack
    <2>1. LoaderTypeOK'
        <3>1. url' \in Urls /\ tmpFile' \in Files /\ loaded' \in Loads
            BY <2>0, <2>a, <1>6 DEF Unpack, LoaderTypeOK
        <3>2. (tmpFile.there => url = <<tmpFile.content>>)'
            BY <2>0, <2>a, <2>b
        <3>3. (suppressed \subseteq Failure /\ thrown \subseteq Failure)'
            BY <1>6 DEF Unpack, LoaderTypeOK, Failure
        <3> QED
            BY <3>1, <3>2, <3>3, <1>6 DEF Unpack, LoaderTypeOK, world
    <2>2. FileInv'
        BY <1>6 DEF Unpack, FileInv, NoFileLeft, Ended, world
    <2>3. ChoiceInv'
        BY <2>a, <2>b, <1>6 DEF Unpack, ChoiceInv, Found, world
    <2>4. LoadInv'
        BY <1>6 DEF Unpack, LoadInv
    <2>5. TellInv'
        BY <1>6 DEF Unpack, TellInv, TellsEveryFailure, LoadInv, ChoiceInv
    <2> QED
        BY <2>1, <2>2, <2>3, <2>4, <2>5
<1>7. CASE LoadFile
    <2>0. PICK c \in Content \cup {Unreadable} : url = <<c>> /\ url[1] = c
        BY <1>7 DEF LoadFile, LoaderTypeOK, ChoiceInv
    <2>a. /\ url = <<tmpFile.content>>
          /\ \/ loaded' = FromFile(tmpFile.content) /\ tmpFile.content \in Library
             \/ UNCHANGED loaded
        BY <2>0, <1>7 DEF LoadFile, LoaderTypeOK, ChoiceInv
    <2>1. LoaderTypeOK'
        <3>1. url' \in Urls /\ tmpFile' \in Files /\ loaded' \in Loads
            BY <2>0, <2>a, LoaderAssumption, <1>7 DEF LoadFile, LoaderTypeOK
        <3>2. (tmpFile.there => url = <<tmpFile.content>>)'
            BY <2>0, <2>a, LoaderAssumption, <1>7 DEF LoadFile, LoaderTypeOK, FileInv
        <3>3. (suppressed \subseteq Failure /\ thrown \subseteq Failure)'
            BY <1>7 DEF LoadFile, LoaderTypeOK, Failure
        <3> QED
            BY <3>1, <3>2, <3>3, <1>7 DEF LoadFile, LoaderTypeOK, world
    <2>2. FileInv'
        BY <1>7 DEF LoadFile, FileInv, NoFileLeft, Ended, world
    <2>3. ChoiceInv'
        BY <2>0, <2>a, LoaderAssumption, <1>7 DEF LoadFile, ChoiceInv, Found, world
    <2>4. LoadInv'
        <3>1. thrown = {} /\ loaded = Nothing
            BY <1>7 DEF LoadFile, LoadInv
        <3>2. CASE stage' = "clean up"
            <4>1. /\ loaded' = FromFile(tmpFile.content) /\ thrown' = {}
                  /\ tmpFile.content \in Library /\ url' = <<tmpFile.content>>
                BY <2>a, <3>1, <3>2, <1>7 DEF LoadFile
            <4> QED
                BY <3>2, <4>1 DEF LoadInv
        <3>3. CASE stage' # "clean up"
            <4>1. /\ stage' \in {"unsatisfied", "catch"}
                  /\ thrown' = {"load"} /\ loaded' = Nothing
                BY <3>1, <3>3, <1>7 DEF LoadFile
            <4> QED
                BY <4>1 DEF LoadInv
        <3> QED
            BY <3>2, <3>3
    <2>5. TellInv'
        BY <1>7 DEF LoadFile, TellInv, TellsEveryFailure, LoadInv, ChoiceInv
    <2> QED
        BY <2>1, <2>2, <2>3, <2>4, <2>5
<1>8. CASE Unsatisfied
    <2>1. LoaderTypeOK'
        BY <1>8 DEF Unsatisfied, LoaderTypeOK, Failure, world
    <2>2. FileInv'
        BY <1>8 DEF Unsatisfied, FileInv, NoFileLeft, Ended, world
    <2>3. ChoiceInv'
        BY <1>8 DEF Unsatisfied, ChoiceInv, Found, world
    <2>4. LoadInv'
        BY <1>8 DEF Unsatisfied, LoadInv
    <2>5. TellInv'
        BY <1>8 DEF Unsatisfied, TellInv, TellsEveryFailure
    <2> QED
        BY <2>1, <2>2, <2>3, <2>4, <2>5
<1>9. CASE Catch
    <2>1. LoaderTypeOK'
        BY <1>9 DEF Catch, LoaderTypeOK, Failure, world
    <2>2. FileInv'
        BY <1>9 DEF Catch, FileInv, NoFileLeft, Ended, world
    <2>3. ChoiceInv'
        BY <1>9 DEF Catch, ChoiceInv, Found, world
    <2>4. LoadInv'
        BY <1>9 DEF Catch, LoadInv
    <2>5. TellInv'
        BY <1>9 DEF Catch, TellInv, TellsEveryFailure
    <2> QED
        BY <2>1, <2>2, <2>3, <2>4, <2>5
<1>10. CASE CleanUp
    <2>1. LoaderTypeOK'
        BY <1>10 DEF CleanUp, LoaderTypeOK, Failure, world
    <2>2. FileInv'
        BY <1>10 DEF CleanUp, FileInv, NoFileLeft, Ended, world
    <2>3. ChoiceInv'
        BY <1>10 DEF CleanUp, ChoiceInv, Found, world
    <2>4. LoadInv'
        BY <1>10 DEF CleanUp, LoadInv
    <2>5. TellInv'
        BY <1>10 DEF CleanUp, TellInv, TellsEveryFailure
    <2> QED
        BY <2>1, <2>2, <2>3, <2>4, <2>5
<1>11. CASE UNCHANGED loader
    <2>1. LoaderTypeOK'
        BY <1>11 DEF loader, LoaderTypeOK
    <2>2. FileInv' /\ ChoiceInv'
        BY <1>11 DEF loader, FileInv, NoFileLeft, Ended, ChoiceInv, Found
    <2>3. LoadInv' /\ TellInv'
        BY <1>11 DEF loader, LoadInv, TellInv, TellsEveryFailure
    <2> QED
        BY <2>1, <2>2, <2>3
<1> QED
    BY <1>1, <1>2, <1>3, <1>4, <1>5, <1>6, <1>7, <1>8, <1>9, <1>10, <1>11 DEF LoaderNext

(* The inductive invariant gives each of the properties.                   *)
LEMMA LoaderInvGives ==
    ASSUME LoaderInv
    PROVE  LoaderTypeOK /\ NoFileLeft /\ LoadsTheLibrary /\ TellsEveryFailure
<1> USE DEF LoaderInv
<1>1. NoFileLeft
    BY DEF FileInv, NoFileLeft
<1>2. ASSUME loaded.from = "file", NEW i \in DOMAIN Found
      PROVE  Found[i] = loaded.content
    <2>1. <<Found[i]>> = url /\ url = <<loaded.content>>
        BY <1>2, UrlFacts DEF ChoiceInv, LoadInv
    <2> QED
        BY <2>1
<1>3. LoadsTheLibrary
    BY <1>2 DEF LoadsTheLibrary, LoadInv, Found
<1>4. TellsEveryFailure
    BY DEF TellInv
<1> QED
    BY <1>1, <1>3, <1>4

(* The loader's variables stay in their types with any contents and any    *)
(* number of resources of one name.                                        *)
THEOREM LoaderTypes == LoaderSpec => []LoaderTypeOK
<1> QED
    BY LoaderInitInv, LoaderStepInv, LoaderInvGives, PTL DEF LoaderSpec

(* However load() ends, the temporary file is gone or the JVM will delete  *)
(* it: the finally block of load() is reached from every exit that follows *)
(* the file's creation.                                                    *)
THEOREM LeavesNoFile == LoaderSpec => []NoFileLeft
<1> QED
    BY LoaderInitInv, LoaderStepInv, LoaderInvGives, PTL DEF LoaderSpec

(* What load() unpacks and loads is what all the resources of its name     *)
(* hold, however many getResource found.                                   *)
THEOREM LoadsWhatAllHold == LoaderSpec => []LoadsTheLibrary
<1> QED
    BY LoaderInitInv, LoaderStepInv, LoaderInvGives, PTL DEF LoaderSpec

(* An error of load() tells why the search by name failed, whichever       *)
(* handler it came through, but for the search that precedes the try.      *)
THEOREM ErrorsTellAll == LoaderSpec => []TellsEveryFailure
<1> QED
    BY LoaderInitInv, LoaderStepInv, LoaderInvGives, PTL DEF LoaderSpec
=============================================================================
