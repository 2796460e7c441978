----------------------------- MODULE BlockHash -----------------------------
(***************************************************************************)
(* What CSHA256, CSHA512, CRIPEMD160 and secp256k1_sha256 have in common:  *)
(* a counter of bytes, a buffer of one block that keeps what it held, and  *)
(* a state that absorbs blocks.  The compression function is free: the     *)
(* state is the sequence of the blocks it absorbed, so that two hashes     *)
(* agree only if the same blocks were compressed in the same order.  A     *)
(* byte is a tuple that says where it comes from.                          *)
(***************************************************************************)
EXTENDS Integers, SequencesExt, FiniteSetsExt

CONSTANTS
    Block,      \* 64, of SHA-512 128: the bytes of a block
    LengthLen,  \* 8, of SHA-512 16: the bytes of the length at the end
    DigestLen   \* the bytes of a hash

BlockHashAssumption ==
    /\ {Block, LengthLen, DigestLen} \subseteq Nat \ {0}
    /\ LengthLen < Block /\ DigestLen <= Block

Junk == <<"junk">>      \* memory nobody wrote
Zero == <<"zero">>
One == <<"one">>        \* 0x80
LengthBytes(n) == [i \in 1 .. LengthLen |-> <<"length", n, i>>]

(* The bytes of the hash a state is written out as. *)
DigestBytes(s) == [i \in 1 .. DigestLen |-> <<"digest", s, i>>]

(* A new object: its buffer is not initialised. *)
NewHash == [bytes |-> 0, buf |-> [i \in 1 .. Block |-> Junk], s |-> <<>>]

Fill(buf, from, data) ==
    [i \in 1 .. Block |->
        IF from < i /\ i <= from + Len(data) THEN data[i - from] ELSE buf[i]]

Piece(data, from, n) == SubSeq(data, from + 1, from + n)
-----------------------------------------------------------------------------
(* The compression function, of block after block. *)
Transform(s, blocks) == s \o blocks

\* Broken variant: a full buffer waits for one byte more.
FillsBuffer_Late(bufsize, len) == bufsize > 0 /\ bufsize + len > Block

FillsBuffer(bufsize, len) == bufsize > 0 /\ bufsize + len >= Block

(* Write of the three classes: the buffer is filled and absorbed if it     *)
(* holds something and can be filled; whole blocks are absorbed from where *)
(* they are; the buffer keeps the rest.                                    *)
WriteDirect(h, data) ==
    LET held == h.bytes % Block
        fills == FillsBuffer(held, Len(data))
        head == IF fills THEN Block - held ELSE 0
        bufsize == IF fills THEN 0 ELSE held
        blocks == (Len(data) - head) \div Block
        rest == SubSeq(data, head + blocks * Block + 1, Len(data))
        buf == IF fills THEN Fill(h.buf, held, Piece(data, 0, head)) ELSE h.buf
    IN  [bytes |-> h.bytes + Len(data),
         buf |-> Fill(buf, bufsize, rest),
         s |-> Transform(Transform(h.s, IF fills THEN <<buf>> ELSE <<>>),
                         [i \in 1 .. blocks |->
                             Piece(data, head + (i - 1) * Block, Block)])]

(* secp256k1_sha256_write absorbs from the buffer only. *)
WriteBuffered(h, data) ==
    LET held == h.bytes % Block
        turns == (held + Len(data)) \div Block
        buf[i \in 0 .. turns] ==    \* after i absorbed blocks
            IF i = 0 THEN h.buf
            ELSE IF i = 1 THEN Fill(buf[0], held, Piece(data, 0, Block - held))
            ELSE Fill(buf[i - 1], 0,
                      Piece(data, (i - 1) * Block - held, Block))
        used == IF turns = 0 THEN 0 ELSE turns * Block - held
    IN  [bytes |-> h.bytes + Len(data),
         buf |-> Fill(buf[turns], IF turns = 0 THEN held ELSE 0,
                      SubSeq(data, used + 1, Len(data))),
         s |-> Transform(h.s, [i \in 1 .. turns |-> buf[i]])]

Write(h, data, direct) ==
    IF direct THEN WriteDirect(h, data) ELSE WriteBuffered(h, data)
-----------------------------------------------------------------------------
\* Broken variant: one zero too many, counted from 120 and not 119.
PadLen_Long(bytes) == 1 + ((2 * Block - LengthLen - (bytes % Block)) % Block)

(* 1 + ((119 - (bytes % 64)) % 64), and 239 and 128 for SHA-512: modulo    *)
(* Block these are 2 * Block - 1 - LengthLen, so what is subtracted from   *)
(* is never too small.                                                     *)
PadLen(bytes) == 1 + ((2 * Block - 1 - LengthLen - (bytes % Block)) % Block)

PadBytes(bytes) == [i \in 1 .. PadLen(bytes) |-> IF i = 1 THEN One ELSE Zero]

(* The number of bytes is read before the padding is written. *)
Finalize(h, direct) ==
    Write(Write(h, PadBytes(h.bytes), direct), LengthBytes(h.bytes), direct)

(* Reset and initialize leave the buffer as it is. *)
Reset(h) == [h EXCEPT !.bytes = 0, !.s = <<>>]
-----------------------------------------------------------------------------
(* What the standards say, without a buffer: the message, a one, as few    *)
(* zeros as make whole blocks, and the length; cut into blocks.            *)
Padded(message) ==
    LET n == Len(message)
        zeros == Min({k \in 0 .. Block - 1 :
                         (n + 1 + k + LengthLen) % Block = 0})
        all == message \o <<One>> \o [i \in 1 .. zeros |-> Zero]
                       \o LengthBytes(n)
    IN  [i \in 1 .. Len(all) \div Block |-> Piece(all, (i - 1) * Block, Block)]

(* SHA256d of the library, and HASH160, whose second hash is RIPEMD-160. *)
Twice(message) == Padded(DigestBytes(Padded(message)))
=============================================================================
