----------------------------- MODULE HashStream -----------------------------
(***************************************************************************)
(* One hash object in a caller's hands: any sequence of Write, Finalize    *)
(* and Reset, the double hash of CHash256 and HashWriter, and HASH160.     *)
(* The bytes of a message are numbered, for no code looks at their values. *)
(***************************************************************************)
EXTENDS BlockHash

CONSTANT MaxBytes   \* bound: the length of a message

VARIABLES
    direct,     \* which of the two ways to write the object uses
    h,          \* the object
    open,       \* it can be written to: it was not finalized since its reset
    digest      \* what was last written out

NextBytes(from, n) == [i \in 1 .. n |-> <<"data", from + i>>]

Init ==
    /\ direct \in BOOLEAN
    /\ h = NewHash /\ open = TRUE /\ digest = <<>>

WriteBytes ==
    /\ open
    /\ \E n \in 0 .. MaxBytes - h.bytes :
          h' = Write(h, NextBytes(h.bytes, n), direct)
    /\ UNCHANGED <<direct, open, digest>>

FinalizeHash ==
    /\ open
    /\ h' = Finalize(h, direct)
    /\ digest' = h'.s /\ open' = FALSE
    /\ UNCHANGED direct

(* CHash256::Finalize and HashWriter::GetHash use one object for both. *)
FinalizeTwice ==
    LET first == Finalize(h, direct)
    IN  /\ open
        /\ h' = Finalize(Write(Reset(first), DigestBytes(first.s), direct),
                         direct)
        /\ digest' = h'.s /\ open' = FALSE
        /\ UNCHANGED direct

(* CHash160::Finalize makes a new object for the second hash. *)
FinalizeHash160 ==
    /\ open
    /\ h' = Finalize(h, direct)
    /\ digest' = Finalize(Write(NewHash, DigestBytes(h'.s), direct), direct).s
    /\ open' = FALSE
    /\ UNCHANGED direct

ResetHash ==
    /\ h' = Reset(h) /\ open' = TRUE
    /\ UNCHANGED <<direct, digest>>

Next ==
    \/ WriteBytes \/ FinalizeHash \/ FinalizeTwice \/ FinalizeHash160
    \/ ResetHash
-----------------------------------------------------------------------------
(* What the object has taken in: the absorbed blocks and the part of the   *)
(* buffer in use. *)
Taken == FlattenSeq(h.s) \o SubSeq(h.buf, 1, h.bytes % Block)

Chunks(message) ==
    {NextBytes(Len(message), n) : n \in 0 .. MaxBytes - Len(message)}

Message == IF open THEN Taken ELSE <<>>

Promise == INSTANCE Hasher WITH Chunk <- Chunks, message <- Message

(* However a message is cut into writes, the digest, single or double, is  *)
(* that of the whole padded message and of nothing else: no stale byte of  *)
(* the buffer, and nothing of an earlier message, is ever absorbed.        *)
KeepsPromise == [Promise!Next]_<<Message, digest>>

(* A finalized object has absorbed whole blocks: nothing is left in the    *)
(* buffer that the digest should have covered, and the number of blocks is *)
(* the least that holds the message, the one and the length.               *)
NothingLeft ==
    ~open => /\ h.bytes = Block * Len(h.s)
             /\ \E n \in 0 .. MaxBytes + DigestLen :
                   /\ Last(Last(h.s)) = <<"length", n, LengthLen>>
                   /\ Block * (Len(h.s) - 1) < n + 1 + LengthLen
                   /\ n + 1 + LengthLen <= Block * Len(h.s)
=============================================================================
