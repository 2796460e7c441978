------------------------------- MODULE Vector -------------------------------
(***************************************************************************)
(* What std::vector promises a caller, call by call: the elements after a  *)
(* call are a function of the elements before it and of the arguments.     *)
(***************************************************************************)
EXTENDS Integers, SequencesExt

CONSTANTS Objects, Calls, Default, Gone

VARIABLES
    contents,   \* the elements of each object, Gone when it is not alive
    call        \* the call a step made

\* What the calls on one object make of its elements.
Apply(s, c) ==
    CASE c.op = "assign" -> c.items
      [] c.op = "resize" ->
            [i \in 1 .. c.n |-> IF i <= Len(s) THEN s[i] ELSE Default]
      [] c.op \in {"reserve", "shrink_to_fit"} -> s
      [] c.op = "insert" ->
            SubSeq(s, 1, c.at) \o c.items \o SubSeq(s, c.at + 1, Len(s))
      [] c.op = "erase" ->
            SubSeq(s, 1, c.at) \o SubSeq(s, c.at + c.n + 1, Len(s))
      [] c.op = "push_back" -> Append(s, c.item)

Defined(s, c) ==
    CASE c.op = "insert" -> c.at <= Len(s)
      [] c.op = "erase" -> c.at + c.n <= Len(s)
      [] OTHER -> TRUE

Init == contents = [o \in Objects |-> Gone] /\ call = [op |-> "none"]

Create(o, s) == contents[o] = Gone /\ contents' = [contents EXCEPT ![o] = s]

Update(o, s) == contents[o] # Gone /\ contents' = [contents EXCEPT ![o] = s]

Single(o, c) ==
    /\ call' = c /\ c \in Calls
    /\ contents[o] # Gone /\ Defined(contents[o], c)
    /\ IF c.op = "resize_uninitialized"
       THEN \* new elements have any value
            /\ Len(contents'[o]) = c.n
            /\ \A i \in 1 .. c.n :
                  i <= Len(contents[o]) => contents'[o][i] = contents[o][i]
            /\ contents' = [contents EXCEPT ![o] = contents'[o]]
       ELSE Update(o, Apply(contents[o], c))

Pair(o, p) ==
    /\ contents[p] # Gone
    /\ \/ call' = [op |-> "copy", of |-> p] /\ Create(o, contents[p])
       \/ call' = [op |-> "copy_assign", of |-> p] /\ Update(o, contents[p])
       \/ /\ call' = [op |-> "move", of |-> p] /\ contents[o] = Gone
          /\ contents' = [contents EXCEPT ![o] = contents[p], ![p] = <<>>]
       \/ /\ call' = [op |-> "move_assign", of |-> p] /\ contents[o] # Gone
          /\ contents' = [contents EXCEPT ![o] = contents[p], ![p] = <<>>]
       \/ /\ call' = [op |-> "swap", of |-> p] /\ contents[o] # Gone
          /\ contents' = [contents EXCEPT ![o] = contents[p],
                                          ![p] = contents[o]]

Construct(o) ==
    \E c \in Calls : c.op = "assign" /\ call' = [c EXCEPT !.op = "construct"]
                     /\ Create(o, c.items)

Destroy(o) == call' = [op |-> "destroy"] /\ Update(o, Gone)

Next ==
    \E o \in Objects :
        \/ \E c \in Calls : Single(o, c)
        \/ \E p \in Objects : Pair(o, p)
        \/ Construct(o) \/ Destroy(o)

Spec == Init /\ [][Next]_<<contents, call>>
=============================================================================
