------------------------------- MODULE Hasher -------------------------------
(***************************************************************************)
(* What a hash object promises: the digest is that of everything written   *)
(* since the object was made or reset, however it was cut into calls.      *)
(***************************************************************************)
EXTENDS BlockHash

CONSTANT Chunk(_)       \* the bytes a caller may write next to a message

VARIABLES
    message,    \* what was written
    digest      \* the last digest

Init == message = <<>> /\ digest = <<>>

Add == /\ \E c \in Chunk(message) : message' = message \o c
       /\ UNCHANGED digest

Close(d) == digest' = d /\ message' = <<>>

Next ==
    \/ Add
    \/ Close(Padded(message)) \/ Close(Twice(message))
    \/ message' = <<>> /\ UNCHANGED digest

Spec == Init /\ [][Next]_<<message, digest>>
=============================================================================
