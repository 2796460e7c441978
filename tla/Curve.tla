------------------------------- MODULE Curve -------------------------------
(***************************************************************************)
(* The function-local static of curve.cpp: the first thread that asks for  *)
(* the secp256k1 context runs its initialiser, the threads that ask        *)
(* meanwhile wait for it, and the ones that ask later find it built.       *)
(***************************************************************************)
EXTENDS Naturals

CONSTANT Thread

VARIABLES
    guard,      \* the compiler's guard of the static
    builders,   \* the threads inside the initialiser
    contexts    \* how many contexts were allocated

Init ==
    /\ guard = "none"
    /\ builders = {}
    /\ contexts = 0

Ready == guard = "complete"

\* Broken variant: the check of a static without the compiler's guard.
EnterInitialiser_Unguarded(t) ==
    /\ guard # "complete"
    /\ guard' = "pending"
    /\ builders' = builders \cup {t}
    /\ contexts' = contexts + 1

(* t enters the initialiser, which allocates the context. *)
EnterInitialiser(t) ==
    /\ guard = "none"
    /\ guard' = "pending"
    /\ builders' = builders \cup {t}
    /\ contexts' = contexts + 1

\* Broken variant: the threads that wait are never told.
LeaveInitialiser_Untold(t) ==
    /\ t \in builders
    /\ builders' = builders \ {t}
    /\ UNCHANGED <<guard, contexts>>

(* The tables are built, the pointer is published. *)
LeaveInitialiser(t) ==
    /\ t \in builders
    /\ guard' = "complete"
    /\ builders' = builders \ {t}
    /\ UNCHANGED contexts
=============================================================================
