------------------------------ MODULE Serialize -----------------------------
(***************************************************************************)
(* The three integer encodings of serialize.h, written to and read from a  *)
(* sequence of bytes: CompactSize, VarInt and integers of a fixed number   *)
(* of bytes. A byte is a number below W, a VarInt digit below W / 2.       *)
(***************************************************************************)
EXTENDS Integers, SequencesExt, FiniteSetsExt

CONSTANTS
    W,              \* values of a byte
    MaxSize,        \* MAX_SIZE, what a CompactSize may say of a container
    Element,       \* values of an element
    Fresh,          \* an element made, and not read yet
    Batch,          \* elements made room for at a time
    MaxClaim,       \* bound: the count a stream claims
    MaxStream       \* bound: the elements it has

ByteAssumption == W \in Nat /\ W >= 4 /\ W % 2 = 0

Failure == [ok |-> FALSE, value |-> 0, used |-> 0]  \* an exception
Read(value, used) == [ok |-> TRUE, value |-> value, used |-> used]

\* The bytes of an integer, the least significant first (htole, memcpy).
LittleEndian(n, k) == [i \in 1 .. k |-> (n \div (W ^ (i - 1))) % W]

Number(s) == FoldRight(LAMBDA byte, high : byte + W * high, s, 0)

\* ser_readdata: the k bytes of s after the first at, if it has as many.
ReadData(s, at, k) ==
    IF at + k > Len(s) THEN Failure
    ELSE Read(Number(SubSeq(s, at + 1, at + k)), at + k)
-----------------------------------------------------------------------------
\* Numbers from W - 3 on: a tag, the bytes that follow, the least number.
Forms == {[tag |-> W - 3, bytes |-> 2, least |-> W - 3],
          [tag |-> W - 2, bytes |-> 4, least |-> W ^ 2],
          [tag |-> W - 1, bytes |-> 8, least |-> W ^ 4]}

FormOf(n) == CHOOSE f \in Forms :
                f.least <= n /\ \A g \in Forms : g.least <= n => g.tag <= f.tag

GetSizeOfCompactSize(n) ==
    IF n < W - 3 THEN 1
    ELSE IF n <= (W ^ 2) - 1 THEN 1 + 2
    ELSE IF n <= (W ^ 4) - 1 THEN 1 + 4 ELSE 1 + 8

WriteCompactSize(n) ==
    IF n < W - 3 THEN <<n>>
    ELSE <<FormOf(n).tag>> \o LittleEndian(n, FormOf(n).bytes)

ReadCompactSize(s, rangeCheck) ==
    IF s = <<>> THEN Failure
    ELSE IF s[1] < W - 3 THEN Read(s[1], 1)
    ELSE LET f == CHOOSE f \in Forms : f.tag = s[1]
             r == ReadData(s, 1, f.bytes)
         IN  IF ~r.ok \/ r.value < f.least \/ (rangeCheck /\ r.value > MaxSize)
             THEN Failure ELSE r

\* CompactSizeFormatter: into an integer type with a largest value max.
ReadCompactSizeInto(s, rangeCheck, max) ==
    LET r == ReadCompactSize(s, rangeCheck)
    IN  IF r.value > max THEN Failure ELSE r
-----------------------------------------------------------------------------
Digit == W \div 2

RECURSIVE GetSizeOfVarInt(_)
GetSizeOfVarInt(n) ==
    IF n <= Digit - 1 THEN 1 ELSE 1 + GetSizeOfVarInt((n \div Digit) - 1)

\* The digits of n, the least significant first; all but that are marked.
RECURSIVE Digits(_, _)
Digits(n, mark) ==
    <<(n % Digit) + mark>> \o
    IF n <= Digit - 1 THEN <<>> ELSE Digits((n \div Digit) - 1, Digit)

WriteVarInt(n) == Reverse(Digits(n, 0))

\* Broken variant: the increment is not looked at when the number is full.
RECURSIVE ReadDigits_NoCarryTest(_, _, _, _)
ReadDigits_NoCarryTest(s, at, n, max) ==
    IF at = Len(s) \/ n > max \div Digit THEN Failure
    ELSE LET m == n * Digit + (s[at + 1] % Digit)
         IN  IF s[at + 1] < Digit THEN Read(m, at + 1)
             ELSE ReadDigits_NoCarryTest(s, at + 1, (m + 1) % (max + 1), max)

\* The rest of a number of which the bytes up to at gave n.
RECURSIVE ReadDigits(_, _, _, _)
ReadDigits(s, at, n, max) ==
    IF at = Len(s) \/ n > max \div Digit THEN Failure
    ELSE LET m == n * Digit + (s[at + 1] % Digit)
         IN  IF s[at + 1] < Digit THEN Read(m, at + 1)
             ELSE IF m = max THEN Failure
             ELSE ReadDigits(s, at + 1, m + 1, max)

ReadVarInt(s, max) == ReadDigits(s, 0, 0, max)
-----------------------------------------------------------------------------
\* CustomUintFormatter: some bytes of the 8 of a number, at either end. A
\* number that needs more throws.
UintFits(n, bytes) == n <= (W ^ bytes) - 1

WriteUint(n, bytes, bigEndian) ==
    LET raw == LittleEndian(n, 8)
    IN  IF bigEndian THEN SubSeq(Reverse(raw), 8 - bytes + 1, 8)
        ELSE SubSeq(raw, 1, bytes)

ReadUint(s, bytes, bigEndian) ==
    IF Len(s) < bytes THEN Failure
    ELSE LET read == SubSeq(s, 1, bytes)
             zeros == [i \in 1 .. 8 - bytes |-> 0]
         IN  Read(IF bigEndian THEN Number(Reverse(zeros \o read))
                  ELSE Number(read \o zeros), bytes)
-----------------------------------------------------------------------------
(* Reading a container: a count from the stream, then the elements, with   *)
(* room made for no more than a batch of them at a time, from a stream     *)
(* that may end anywhere: a read past its end throws, and leaves what was  *)
(* stored before it in the caller's container.                             *)
VARIABLES
    how,        \* what is read: formatted elements, bytes, a string, a set
    claimed,    \* the count in the stream
    stream,     \* the elements in it
    got,        \* how many of them were read
    room,       \* elements there is memory for: allocated, v.size()
    v,          \* the container
    state       \* "count", "elements", "done" or "thrown"

Empty == IF how = "set" THEN {} ELSE <<>>

Init ==
    /\ how \in {"formatter", "bytes", "string", "set"}
    /\ claimed \in 0 .. MaxClaim
    /\ stream \in UNION {[1 .. k -> Element] : k \in 0 .. MaxStream}
    /\ got = 0 /\ room = 0 /\ state = "count"
    /\ v = IF how = "set" THEN Element ELSE <<Fresh>>

Stays == UNCHANGED <<how, claimed, stream>>

\* v.clear() and ReadCompactSize with its range check.
ReadCount ==
    /\ state = "count"
    /\ v' = Empty
    /\ state' = IF ReadCompactSize(WriteCompactSize(claimed), TRUE).ok
              THEN "elements" ELSE "thrown"
    /\ UNCHANGED <<got, room>> /\ Stays

\* The stream has no k elements more: they were made before it was asked.
Throw(k) ==
    /\ state' = "thrown" /\ v' = v \o [i \in 1 .. k |-> Fresh]
    /\ UNCHANGED got

\* VectorFormatter: room for a batch, then its elements one by one.
Reserve ==
    /\ state = "elements" /\ how = "formatter" /\ Len(v) = room
    /\ room < claimed
    /\ room' = Min({claimed, room + Batch})
    /\ UNCHANGED <<got, v, state>> /\ Stays

\* emplace_back, then the element is read into its place.
ReadElement ==
    /\ state = "elements" /\ how = "formatter" /\ Len(v) < room
    /\ IF got = Len(stream) THEN Throw(1)
       ELSE /\ got' = got + 1 /\ v' = Append(v, stream[got + 1])
            /\ UNCHANGED state
    /\ UNCHANGED room /\ Stays

\* The readers of bytes grow by a block and read it at once.
ReadBlock ==
    LET blk == Min({claimed - got, Batch})
    IN  /\ state = "elements" /\ how = "bytes" /\ got < claimed
        /\ room' = got + blk
        /\ IF got + blk > Len(stream) THEN Throw(blk)
           ELSE /\ got' = got + blk
                /\ v' = v \o SubSeq(stream, got + 1, got + blk)
                /\ UNCHANGED state
        /\ Stays

\* A string is resized to what is claimed and read at once.
ReadString ==
    /\ state = "elements" /\ how = "string" /\ got < claimed
    /\ room' = claimed
    /\ IF claimed > Len(stream) THEN Throw(claimed)
       ELSE /\ got' = claimed /\ v' = SubSeq(stream, 1, claimed)
            /\ UNCHANGED state
    /\ Stays

\* Sets and maps allocate a node with each element, and drop duplicates.
Insert ==
    /\ state = "elements" /\ how = "set" /\ got < claimed
    /\ IF got = Len(stream)
       THEN state' = "thrown" /\ UNCHANGED <<got, room, v>>
       ELSE /\ got' = got + 1 /\ v' = v \cup {stream[got + 1]}
            /\ room' = Cardinality(v') /\ UNCHANGED state
    /\ Stays

Return ==
    /\ state = "elements"
    /\ got = claimed
    /\ state' = "done" /\ UNCHANGED <<got, room, v>> /\ Stays

Next ==
    \/ ReadCount \/ Return
    \/ Reserve \/ ReadElement \/ ReadBlock \/ ReadString \/ Insert

-----------------------------------------------------------------------------
(* What a stream claims costs no more than a batch beyond what it gave:    *)
(* there is never room for more than that, whatever count it starts with.  *)
(* Only a string is given all the room at once, up to MAX_SIZE.             *)
Bounded ==
    /\ how # "string" => room <= got + Batch
    /\ state # "count" => room <= MaxSize

(* A reader that returns has the elements the stream claimed and no other, *)
(* and nothing of what the container held before; one that throws was told *)
(* too much, or its stream ended inside: the container then has what was   *)
(* read, and maybe elements that were not.                                 *)
ReadsTheClaim ==
    LET read == SubSeq(stream, 1, claimed)
    IN  /\ state = "done" =>
              /\ got = claimed
              /\ v = IF how = "set" THEN ToSet(read) ELSE read
        /\ state = "thrown" => claimed > MaxSize \/ claimed > Len(stream)
        /\ state # "count" /\ how # "set" =>
              SubSeq(v, 1, got) = SubSeq(stream, 1, got)
=============================================================================
