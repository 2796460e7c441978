-------------------------- MODULE BlockHash_proofs --------------------------
(***************************************************************************)
(* A hash object, for blocks, lengths and digests of any number of bytes:  *)
(* whichever way it is written, and however a message is cut into writes,  *)
(* it stands for the message, and its digest is that of the padded one.    *)
(***************************************************************************)
EXTENDS BlockHash, SequenceTheorems, TLAPS

(* What a number is made of is its quotient and its remainder.             *)
LEMMA Quotient ==
    ASSUME NEW B \in Nat \ {0}, NEW q \in Nat, NEW r \in 0 .. B - 1
    PROVE  (q * B + r) \div B = q /\ (q * B + r) % B = r
<1> DEFINE a == q * B + r
           d == a \div B
           m == a % B
<1>1. a \in Nat /\ q * B \in Nat
    OBVIOUS
<1>2. d \in Int /\ m \in 0 .. B - 1 /\ a = d * B + m
    BY <1>1
<1> HIDE DEF d, m
<1>3. (d - q) * B = r - m
    BY <1>2
<1>4. d - q = 0
    <2>1. CASE d - q >= 1
        <3>1. (d - q) * B >= B
            BY <1>2, <2>1
        <3> QED
            BY <1>2, <1>3, <3>1
    <2>2. CASE d - q <= -1
        <3>1. (d - q) * B <= -B
            BY <1>2, <2>2
        <3> QED
            BY <1>2, <1>3, <3>1
    <2> QED
        BY <1>2, <2>1, <2>2
<1>5. d = q /\ m = r
    BY <1>2, <1>3, <1>4
<1> QED
    BY <1>5 DEF d, m

LEMMA DivMod ==
    ASSUME NEW B \in Nat \ {0}, NEW a \in Nat
    PROVE  /\ a \div B \in Nat /\ a % B \in 0 .. B - 1
           /\ a = (a \div B) * B + (a % B)
<1> DEFINE d == a \div B
           m == a % B
<1>1. d \in Int /\ m \in 0 .. B - 1 /\ a = d * B + m
    OBVIOUS
<1> HIDE DEF d, m
<1>2. d >= 0
    <2> SUFFICES ASSUME d <= -1 PROVE FALSE
        BY <1>1
    <2>1. d * B <= -B
        BY <1>1
    <2> QED
        BY <1>1, <2>1
<1> QED
    BY <1>1, <1>2 DEF d, m

(* As many whole blocks as there are fit.                                  *)
LEMMA WholeBlocks ==
    ASSUME NEW B \in Nat \ {0}, NEW a \in Nat
    PROVE  a \div B \in Nat /\ (a \div B) * B <= a /\ (a \div B) * B \in Nat
<1>1. PICK d, m : d = a \div B /\ m = a % B
    OBVIOUS
<1>2. d \in Nat /\ m \in Nat /\ a = d * B + m
    BY <1>1, DivMod
<1>3. d * B \in Nat
    BY <1>2
<1> QED
    BY <1>1, <1>2, <1>3

(* Adding to a number adds to what it is more than whole blocks.           *)
LEMMA DivModSum ==
    ASSUME NEW B \in Nat \ {0}, NEW a \in Nat, NEW n \in Nat
    PROVE  /\ (a + n) \div B = (a \div B) + (((a % B) + n) \div B)
           /\ (a + n) % B = ((a % B) + n) % B
           /\ ((a % B) + n) \div B \in Nat
<1>1. PICK q, r : q = a \div B /\ r = a % B
    OBVIOUS
<1>2. q \in Nat /\ r \in 0 .. B - 1 /\ a = q * B + r
    BY <1>1, DivMod
<1>3. PICK t, l : t = (r + n) \div B /\ l = (r + n) % B
    OBVIOUS
<1>4. t \in Nat /\ l \in 0 .. B - 1 /\ r + n = t * B + l
    <2>1. r + n \in Nat
        BY <1>2
    <2> QED
        BY <1>3, <2>1, DivMod
<1>5. a + n = (q + t) * B + l /\ q + t \in Nat
    BY <1>2, <1>4
<1>6. (a + n) \div B = q + t /\ (a + n) % B = l
    BY <1>4, <1>5, Quotient
<1> QED
    BY <1>1, <1>3, <1>4, <1>6

(* Byte k of block i is among those of the first n blocks.                 *)
LEMMA InBlocks ==
    ASSUME NEW B \in Nat \ {0}, NEW n \in Nat, NEW i \in 1 .. n, NEW k \in 1 .. B
    PROVE  /\ (i - 1) * B + k \in 1 .. n * B
           /\ (i - 1) * B \in Nat /\ (i - 1) * B + B <= n * B
<1>1. i - 1 \in Nat /\ n - i \in Nat
    OBVIOUS
<1>2. (i - 1) * B \in Nat /\ (n - i) * B \in Nat
    BY <1>1
<1>3. n * B = (i - 1) * B + B + (n - i) * B
    OBVIOUS
<1>4. n * B \in Nat
    OBVIOUS
<1> QED
    BY <1>2, <1>3, <1>4

(* One sequence behind another.                                            *)
LEMMA Concatenated ==
    ASSUME NEW S, NEW s \in Seq(S), NEW R, NEW t \in Seq(R), NEW u, u = s \o t
    PROVE  /\ u \in Seq(S \cup R) /\ Len(u) = Len(s) + Len(t)
           /\ \A k \in 1 .. Len(s) : u[k] = s[k]
           /\ \A k \in 1 .. Len(t) : u[Len(s) + k] = t[k]
<1>1. Len(s) \in Nat /\ Len(t) \in Nat
    OBVIOUS
<1>2. s \in Seq(S \cup R) /\ t \in Seq(S \cup R)
    OBVIOUS
<1>3. /\ s \o t \in Seq(S \cup R) /\ Len(s \o t) = Len(s) + Len(t)
      /\ \A i \in 1 .. Len(s) + Len(t) :
            (s \o t)[i] = IF i <= Len(s) THEN s[i] ELSE t[i - Len(s)]
    BY <1>2, ConcatProperties
<1>4. ASSUME NEW k \in 1 .. Len(t)
      PROVE  (s \o t)[Len(s) + k] = t[k]
    <2>1. Len(s) + k \in 1 .. Len(s) + Len(t) /\ ~(Len(s) + k <= Len(s))
          /\ Len(s) + k - Len(s) = k
        BY <1>1
    <2> QED
        BY <1>3, <2>1
<1> QED
    BY <1>1, <1>3, <1>4

LEMMA PieceIs ==
    ASSUME NEW S, NEW m \in Seq(S), NEW from \in Nat, NEW n \in Nat,
           from + n <= Len(m)
    PROVE  Piece(m, from, n) = [k \in 1 .. n |-> m[from + k]]
<1>1. SubSeq(m, from + 1, from + n)
      = [k \in 1 .. n |-> m[from + k]]
    OBVIOUS
<1> QED
    BY <1>1 DEF Piece

(* A message has n blocks behind a head; each is where it should be.       *)
Fit(m, head, n, B) == head + n * B <= Len(m)

LEMMA PiecesAre ==
    ASSUME NEW S, NEW m \in Seq(S), NEW B \in Nat \ {0}, NEW head \in Nat,
           NEW n \in Nat, Fit(m, head, n, B)
    PROVE  \A i \in 1 .. n : \E p \in Nat :
               /\ p = head + (i - 1) * B
               /\ Piece(m, p, B) = [k \in 1 .. B |-> m[p + k]]
<1> TAKE i \in 1 .. n
<1>1. PICK x, y : x = (i - 1) * B /\ y = n * B
    OBVIOUS
<1>2. x \in Nat /\ x + B <= y
    BY <1>1, InBlocks
<1>3. PICK p : p = head + x
    OBVIOUS
<1>4. head + y <= Len(m) /\ Len(m) \in Nat
    BY <1>1 DEF Fit
<1>5. y \in Nat
    BY <1>1
<1>6. p \in Nat /\ p + B <= Len(m)
    BY <1>2, <1>3, <1>4, <1>5
<1>7. Piece(m, p, B) = [k \in 1 .. B |-> m[p + k]]
    <2>1. p \in Nat
        BY <1>6
    <2>2. p + B <= Len(m)
        BY <1>6
    <2> QED
        BY <2>1, <2>2, PieceIs
<1>8. p = head + (i - 1) * B
    BY <1>1, <1>3
<1> QED
    BY <1>6, <1>7, <1>8
-----------------------------------------------------------------------------
(* The whole blocks of a message.                                          *)
Blocks(m) == [i \in 1 .. Len(m) \div Block |-> Piece(m, (i - 1) * Block, Block)]

LEMMA BlocksAre ==
    ASSUME BlockHashAssumption, NEW S, NEW m \in Seq(S)
    PROVE  Blocks(m) = [i \in 1 .. Len(m) \div Block |->
                           [k \in 1 .. Block |-> m[(i - 1) * Block + k]]]
<1>1. Block \in Nat \ {0} /\ Len(m) \in Nat
    BY DEF BlockHashAssumption
<1>2. ASSUME NEW i \in 1 .. Len(m) \div Block
      PROVE  Piece(m, (i - 1) * Block, Block)
             = [k \in 1 .. Block |-> m[(i - 1) * Block + k]]
    <2>1. PICK q, f : q = Len(m) \div Block /\ f = (i - 1) * Block
        OBVIOUS
    <2>2. q \in Nat /\ q * Block <= Len(m)
        BY <1>1, <2>1, WholeBlocks
    <2>3. f \in Nat /\ f + Block <= q * Block
        BY <1>1, <2>1, <2>2, InBlocks
    <2>4. f + Block <= Len(m)
        BY <1>1, <2>2, <2>3
    <2>5. Piece(m, f, Block) = [k \in 1 .. Block |-> m[f + k]]
        BY <1>1, <2>3, <2>4, PieceIs
    <2> QED
        BY <2>1, <2>5
<1> QED
    BY <1>2 DEF Blocks
-----------------------------------------------------------------------------
(* What a write takes in.  Block j is the part of the buffer that is in    *)
(* use, if j is the first, and the data behind it.                         *)
Taking(buf, held, data, j) ==
    [k \in 1 .. Block |-> IF (j - 1) * Block + k <= held THEN buf[k]
                          ELSE data[(j - 1) * Block + k - held]]

Took(h, data, g, held, turns, left) ==
    /\ g = [bytes |-> h.bytes + Len(data), buf |-> g.buf,
            s |-> h.s \o [j \in 1 .. turns |-> Taking(h.buf, held, data, j)]]
    /\ g.buf = [k \in 1 .. Block |-> g.buf[k]]
    /\ \A k \in 1 .. left : g.buf[k] = Taking(h.buf, held, data, turns + 1)[k]

(* turns whole blocks and left bytes of the next are there in the end.     *)
Makes(h, data, held, turns, left) ==
    /\ held = h.bytes % Block
    /\ turns = (held + Len(data)) \div Block
    /\ left = (held + Len(data)) % Block

LEMMA MakesFacts ==
    ASSUME BlockHashAssumption, NEW S, NEW data \in Seq(S),
           NEW h, h.bytes \in Nat, NEW held, NEW turns, NEW left,
           Makes(h, data, held, turns, left)
    PROVE  /\ Block \in Nat \ {0} /\ Len(data) \in Nat
           /\ held \in 0 .. Block - 1 /\ turns \in Nat /\ left \in 0 .. Block - 1
           /\ held + Len(data) = turns * Block + left /\ turns * Block \in Nat
<1>1. Block \in Nat \ {0} /\ Len(data) \in Nat
    BY DEF BlockHashAssumption
<1>2. held \in 0 .. Block - 1
    BY <1>1, DivMod DEF Makes
<1>3. PICK a : a = held + Len(data)
    OBVIOUS
<1>4. a \in Nat /\ turns = a \div Block /\ left = a % Block
    <2>1. a \in Nat
        BY <1>1, <1>2, <1>3
    <2>2. turns = a \div Block /\ left = a % Block
        BY <1>3 DEF Makes
    <2> QED
        BY <2>1, <2>2
<1>5. turns \in Nat /\ left \in 0 .. Block - 1 /\ a = turns * Block + left
    BY <1>1, <1>4, DivMod
<1>6. turns * Block \in Nat
    BY <1>1, <1>5
<1> QED
    BY <1>1, <1>2, <1>3, <1>5, <1>6

LEMMA SeqIs ==
    ASSUME NEW S, NEW u \in Seq(S)
    PROVE  u = [k \in 1 .. Len(u) |-> u[k]] /\ Len(u) \in Nat
OBVIOUS

LEMMA FunIsSeq ==
    ASSUME NEW n \in Nat, NEW f, f = [k \in 1 .. n |-> f[k]]
    PROVE  /\ f \in Seq({f[k] : k \in 1 .. n}) /\ Len(f) = n
OBVIOUS

LEMMA TailIs ==
    ASSUME NEW S, NEW m \in Seq(S), NEW from \in Nat, from <= Len(m)
    PROVE  /\ SubSeq(m, from + 1, Len(m)) \in Seq(S)
           /\ Len(SubSeq(m, from + 1, Len(m))) = Len(m) - from
           /\ \A k \in 1 .. Len(m) - from : SubSeq(m, from + 1, Len(m))[k] = m[from + k]
OBVIOUS

(* A block x in front of n others, f, makes g.                             *)
Prepended(one, x, n, f, g) ==
    /\ n \in Nat /\ one = <<x>>
    /\ f = [i \in 1 .. n |-> f[i]]
    /\ g = [i \in 1 .. n + 1 |-> IF i = 1 THEN x ELSE f[i - 1]]

LEMMA InFront ==
    ASSUME NEW T, NEW s \in Seq(T), NEW one, NEW x, NEW n, NEW f, NEW g,
           Prepended(one, x, n, f, g)
    PROVE  (s \o one) \o f = s \o g
<1>0. n \in Nat
    BY DEF Prepended
<1> DEFINE V == T \cup {x} \cup {f[k] : k \in 1 .. n}
<1>1. f \in Seq(V) /\ Len(f) = n
    <2>1. f \in Seq({f[k] : k \in 1 .. n}) /\ Len(f) = n
        BY <1>0, FunIsSeq DEF Prepended
    <2>2. {f[k] : k \in 1 .. n} \subseteq V
        OBVIOUS
    <2> HIDE DEF V
    <2>3. \A A, C : A \subseteq C => Seq(A) \subseteq Seq(C)
        OBVIOUS
    <2> QED
        BY <2>1, <2>2, <2>3
<1>2. one \in Seq(V) /\ Len(one) = 1 /\ one[1] = x
    BY DEF Prepended
<1>3. s \in Seq(V)
    OBVIOUS
<1> HIDE DEF V
<1>4. (s \o one) \o f = s \o (one \o f)
    BY <1>1, <1>2, <1>3, ConcatAssociative
<1>5. PICK u : u = one \o f
    OBVIOUS
<1>6. /\ u \in Seq(V \cup V) /\ Len(u) = 1 + n
      /\ u[1] = x /\ \A k \in 1 .. n : u[1 + k] = f[k]
    <2>1. f \in Seq(V) /\ one \in Seq(V)
        BY <1>1, <1>2
    <2>2. /\ u \in Seq(V \cup V) /\ Len(u) = Len(one) + Len(f)
          /\ \A k \in 1 .. Len(one) : u[k] = one[k]
          /\ \A k \in 1 .. Len(f) : u[Len(one) + k] = f[k]
        BY <1>5, <2>1, Concatenated
    <2> QED
        BY <1>0, <1>1, <1>2, <2>2
<1>7. u = [k \in 1 .. n + 1 |-> u[k]]
    BY <1>0, <1>6
<1>8. ASSUME NEW i \in 1 .. n + 1
      PROVE  u[i] = IF i = 1 THEN x ELSE f[i - 1]
    <2>1. CASE i = 1
        BY <1>6, <2>1
    <2>2. CASE i # 1
        <3>1. i - 1 \in 1 .. n /\ 1 + (i - 1) = i
            BY <1>0, <2>2
        <3> QED
            BY <1>6, <2>2, <3>1
    <2> QED
        BY <2>1, <2>2
<1>9. u = g
    BY <1>7, <1>8 DEF Prepended
<1> QED
    BY <1>4, <1>5, <1>9
-----------------------------------------------------------------------------
(* Write of the three classes: the buffer is filled first, or there is     *)
(* nothing in it, or all of the data fits it.                              *)
LEMMA DirectTook ==
    ASSUME BlockHashAssumption, NEW S, NEW data \in Seq(S),
           NEW T, NEW h, h.bytes \in Nat, h.s \in Seq(T),
           h.buf = [k \in 1 .. Block |-> h.buf[k]],
           NEW held, NEW turns, NEW left, Makes(h, data, held, turns, left)
    PROVE  Took(h, data, WriteDirect(h, data), held, turns, left)
<1> DEFINE Take(j) == Taking(h.buf, held, data, j)
<1>1. PICK n : n = Len(data)
    OBVIOUS
<1>2. /\ Block \in Nat \ {0} /\ n \in Nat
      /\ held \in 0 .. Block - 1 /\ turns \in Nat /\ left \in 0 .. Block - 1
      /\ held + n = turns * Block + left /\ turns * Block \in Nat
    BY <1>1, MakesFacts
<1>3. PICK fills : fills = FillsBuffer(held, n)
    OBVIOUS
<1>4. PICK head, from :
        /\ head = IF fills THEN Block - held ELSE 0
        /\ from = IF fills THEN 0 ELSE held
    OBVIOUS
<1>5. PICK blocks : blocks = (n - head) \div Block
    OBVIOUS
<1>6. PICK buf, rest, pieces :
        /\ buf = IF fills THEN Fill(h.buf, held, Piece(data, 0, head)) ELSE h.buf
        /\ rest = SubSeq(data, head + blocks * Block + 1, n)
        /\ pieces = [i \in 1 .. blocks |-> Piece(data, head + (i - 1) * Block, Block)]
    OBVIOUS
<1>7. WriteDirect(h, data) =
        [bytes |-> h.bytes + n, buf |-> Fill(buf, from, rest),
         s |-> (h.s \o (IF fills THEN <<buf>> ELSE <<>>)) \o pieces]
    BY <1>1, <1>3, <1>4, <1>5, <1>6 DEF WriteDirect, Transform, Makes
<1>8. fills \in BOOLEAN /\ (fills <=> held > 0 /\ held + n >= Block)
    BY <1>3 DEF FillsBuffer
<1>9. /\ head \in Nat /\ head <= n /\ n - head \in Nat /\ blocks \in Nat
      /\ IF fills THEN turns = blocks + 1 /\ n - head = blocks * Block + left
         ELSE /\ turns = blocks
              /\ held # 0 => blocks = 0 /\ turns = 0 /\ left = held + n
              /\ held = 0 => n = blocks * Block + left
    <2>1. CASE fills
        <3>1. head = Block - held /\ held + n >= Block /\ held > 0
            BY <1>4, <1>8, <2>1
        <3>2. turns # 0
            BY <1>2, <3>1
        <3>3. turns - 1 \in Nat /\ n - head = (turns - 1) * Block + left
            BY <1>2, <3>1, <3>2
        <3>4. PICK a : a = n - head
            OBVIOUS
        <3>5. a \div Block = turns - 1
            BY <1>2, <3>3, <3>4, Quotient
        <3>6. blocks = turns - 1
            BY <1>5, <3>4, <3>5
        <3>7. blocks * Block = (turns - 1) * Block
            BY <3>6
        <3>8. turns = blocks + 1 /\ n - head = blocks * Block + left
            BY <1>2, <3>3, <3>6, <3>7
        <3>9. head \in Nat /\ head <= n /\ n - head \in Nat /\ blocks \in Nat
            BY <1>2, <3>1, <3>3, <3>6
        <3> QED
            BY <2>1, <3>8, <3>9
    <2>2. CASE ~fills
        <3>1. head = 0
            BY <1>4, <2>2
        <3>2. blocks = n \div Block
            BY <1>2, <1>5, <3>1
        <3>3. CASE held = 0
            <4>1. n = turns * Block + left
                BY <1>2, <3>3
            <4>2. n \div Block = turns
                BY <1>2, <4>1, Quotient
            <4>3. blocks = turns
                BY <3>2, <4>2
            <4>4. n = blocks * Block + left
                BY <4>1, <4>3
            <4>5. turns \in Nat /\ n \in Nat
                BY <1>2
            <4> QED
                BY <2>2, <3>1, <3>3, <4>3, <4>4, <4>5
        <3>4. CASE held # 0
            <4>1. held + n < Block
                BY <1>2, <1>8, <2>2, <3>4
            <4>2. turns = 0
                <5> SUFFICES ASSUME turns # 0 PROVE FALSE
                    OBVIOUS
                <5>1. turns - 1 \in Nat
                    BY <1>2
                <5>2. (turns - 1) * Block \in Nat
                    BY <1>2, <5>1
                <5>3. turns * Block = (turns - 1) * Block + Block
                    BY <1>2
                <5>4. PICK x, y : x = turns * Block /\ y = (turns - 1) * Block
                    OBVIOUS
                <5>5. x = y + Block /\ y \in Nat /\ held + n = x + left
                    BY <1>2, <5>2, <5>3, <5>4
                <5>6. left \in Nat /\ Block \in Nat /\ held + n \in Nat
                    BY <1>2
                <5> QED
                    BY <4>1, <5>5, <5>6
            <4>3. n = 0 * Block + n /\ n \in 0 .. Block - 1
                BY <1>2, <4>1
            <4>4. n \div Block = 0
                BY <1>2, <4>3, Quotient
            <4> QED
                BY <1>2, <2>2, <3>1, <3>2, <3>4, <4>2, <4>4
        <3> QED
            BY <3>3, <3>4
    <2> QED
        BY <1>8, <2>1, <2>2
<1>10. blocks * Block \in Nat /\ head + blocks * Block <= n
    <2>1. blocks * Block \in Nat
        BY <1>2, <1>9
    <2>2. CASE fills
        BY <1>2, <1>9, <2>1, <2>2
    <2>3. CASE ~fills
        <3>1. head = 0
            BY <1>4, <2>3
        <3> QED
            BY <1>2, <1>9, <2>1, <2>3, <3>1
    <2> QED
        BY <1>8, <2>2, <2>3
<1>11. /\ rest \in Seq(S) /\ Len(rest) = n - (head + blocks * Block)
       /\ \A k \in 1 .. Len(rest) : rest[k] = data[head + blocks * Block + k]
    <2>1. PICK p : p = head + blocks * Block
        OBVIOUS
    <2>2. p \in Nat /\ p <= Len(data)
        BY <1>1, <1>9, <1>10, <2>1
    <2>3. rest = SubSeq(data, p + 1, Len(data))
        BY <1>1, <1>6, <2>1
    <2>4. /\ rest \in Seq(S) /\ Len(rest) = Len(data) - p
          /\ \A k \in 1 .. Len(data) - p : rest[k] = data[p + k]
        BY <2>2, <2>3, TailIs
    <2> QED
        BY <1>1, <2>1, <2>4
<1>120. \A i \in 1 .. blocks : \E p \in Nat :
            /\ p = head + (i - 1) * Block
            /\ Piece(data, p, Block) = [k \in 1 .. Block |-> data[p + k]]
    <2>1. Fit(data, head, blocks, Block)
        BY <1>1, <1>10 DEF Fit
    <2>2. Block \in Nat \ {0} /\ head \in Nat /\ blocks \in Nat
        BY <1>2, <1>9
    <2> QED
        BY <2>1, <2>2, PiecesAre
<1>12. ASSUME NEW i \in 1 .. blocks
       PROVE  pieces[i] = Take(IF fills THEN i + 1 ELSE i)
    <2>0. PICK x, y : x = (i - 1) * Block /\ y = blocks * Block
        OBVIOUS
    <2>4. PICK p \in Nat :
            /\ p = head + (i - 1) * Block
            /\ Piece(data, p, Block) = [k \in 1 .. Block |-> data[p + k]]
        BY <1>120
    <2>1. p = head + x
        BY <2>0, <2>4
    <2>2. x \in Nat /\ x + Block <= y
        BY <1>2, <1>9, <2>0, InBlocks
    <2>3. p \in Nat
        OBVIOUS
    <2>5. pieces[i] = [k \in 1 .. Block |-> data[p + k]]
        BY <1>6, <2>0, <2>1, <2>4
    <2>6. PICK j : j = IF fills THEN i + 1 ELSE i
        OBVIOUS
    <2>7. PICK z : z = (j - 1) * Block
        OBVIOUS
    <2>71. z \in Nat /\ z = p + held
        <3>1. CASE fills
            <4>1. j = i + 1 /\ head = Block - held
                BY <1>4, <2>6, <3>1
            <4>2. (j - 1) * Block = (i - 1) * Block + Block
                BY <1>2, <1>9, <4>1
            <4>3. z = x + Block
                BY <2>0, <2>7, <4>2
            <4> QED
                BY <1>2, <2>1, <2>2, <4>1, <4>3
        <3>2. CASE ~fills
            <4>1. j = i /\ head = 0 /\ held = 0
                BY <1>2, <1>4, <1>9, <2>6, <3>2
            <4>2. z = x
                BY <2>0, <2>7, <4>1
            <4> QED
                BY <2>1, <2>2, <4>1, <4>2
        <3> QED
            BY <1>8, <3>1, <3>2
    <2>8. ASSUME NEW k \in 1 .. Block
          PROVE  Take(j)[k] = data[p + k]
        <3>1. ~(z + k <= held) /\ z + k - held = p + k
            BY <1>2, <2>3, <2>71
        <3> QED
            BY <2>7, <3>1 DEF Taking
    <2>9. Take(j) = [k \in 1 .. Block |-> data[p + k]]
        BY <2>8 DEF Taking
    <2> QED
        BY <2>5, <2>6, <2>9
<1>13. ASSUME fills PROVE buf = Take(1)
    <2>1. head = Block - held /\ head \in Nat /\ 0 + head <= Len(data)
        BY <1>1, <1>2, <1>4, <1>9, <1>13
    <2>2. PICK q : q = Piece(data, 0, head)
        OBVIOUS
    <2>3. q = [k \in 1 .. head |-> data[0 + k]]
        BY <2>1, <2>2, PieceIs
    <2>4. Len(q) = head
        BY <2>1, <2>3
    <2>5. buf = [k \in 1 .. Block |->
                    IF held < k /\ k <= held + head THEN q[k - held] ELSE h.buf[k]]
        BY <1>6, <1>13, <2>2, <2>4 DEF Fill
    <2>6. ASSUME NEW k \in 1 .. Block
          PROVE  Take(1)[k] = buf[k]
        <3>1. (1 - 1) * Block = 0
            BY <1>2
        <3>2. Take(1)[k] = IF k <= held THEN h.buf[k] ELSE data[k - held]
            BY <1>2, <3>1 DEF Taking
        <3>3. k <= held + head
            BY <1>2, <2>1
        <3>4. k > held => k - held \in 1 .. head /\ 0 + (k - held) = k - held
            BY <1>2, <2>1
        <3> QED
            BY <1>2, <2>3, <2>5, <3>2, <3>3, <3>4
    <2> QED
        BY <2>5, <2>6 DEF Taking
<1>14. (h.s \o (IF fills THEN <<buf>> ELSE <<>>)) \o pieces
       = h.s \o [j \in 1 .. turns |-> Take(j)]
    <2>1. pieces = [i \in 1 .. blocks |-> pieces[i]] /\ blocks \in Nat
        BY <1>6, <1>9
    <2>2. PICK g : g = [j \in 1 .. turns |-> Take(j)]
        OBVIOUS
    <2> HIDE DEF Take
    <2>3. CASE fills
        <3>1. turns = blocks + 1
            BY <1>9, <2>3
        <3>2. g = [i \in 1 .. blocks + 1 |-> g[i]]
            BY <2>2, <3>1
        <3>3. ASSUME NEW i \in 1 .. blocks + 1
              PROVE  g[i] = IF i = 1 THEN buf ELSE pieces[i - 1]
            <4>1. g[i] = Take(i)
                BY <2>2, <3>1
            <4>2. CASE i = 1
                BY <1>13, <2>3, <4>1, <4>2
            <4>3. CASE i # 1
                <5>1. i - 1 \in 1 .. blocks /\ (i - 1) + 1 = i
                    BY <2>1, <4>3
                <5>2. pieces[i - 1] = Take((i - 1) + 1)
                    BY <1>12, <2>3, <5>1
                <5> QED
                    BY <4>1, <4>3, <5>1, <5>2
            <4> QED
                BY <4>2, <4>3
        <3>4. g = [i \in 1 .. blocks + 1 |-> IF i = 1 THEN buf ELSE pieces[i - 1]]
            BY <3>2, <3>3
        <3>5. PICK one : one = <<buf>>
            OBVIOUS
        <3>6. Prepended(one, buf, blocks, pieces, g)
            BY <2>1, <3>4, <3>5 DEF Prepended
        <3>7. (h.s \o one) \o pieces = h.s \o g
            BY <3>6, InFront
        <3> QED
            BY <2>2, <2>3, <3>5, <3>7
    <2>4. CASE ~fills
        <3>1. turns = blocks
            BY <1>9, <2>4
        <3>2. \A i \in 1 .. blocks : pieces[i] = Take(i)
            BY <1>12, <2>4
        <3>3. pieces = g
            BY <2>1, <2>2, <3>1, <3>2
        <3>4. h.s \o <<>> = h.s
            OBVIOUS
        <3> QED
            BY <2>2, <2>4, <3>3, <3>4
    <2> QED
        BY <1>8, <2>3, <2>4
<1>15. ASSUME NEW k \in 1 .. left
       PROVE  Fill(buf, from, rest)[k] = Take(turns + 1)[k]
    <2>1. k \in 1 .. Block
        BY <1>2
    <2>2. PICK x, y : x = turns * Block /\ y = blocks * Block
        OBVIOUS
    <2>3. Fill(buf, from, rest)[k] =
            IF from < k /\ k <= from + Len(rest) THEN rest[k - from] ELSE buf[k]
        BY <2>1 DEF Fill
    <2>4. (turns + 1) - 1 = turns
        BY <1>2
    <2>5. Take(turns + 1)[k] =
            IF x + k <= held THEN h.buf[k] ELSE data[x + k - held]
        BY <2>1, <2>2, <2>4 DEF Taking
    <2>6. /\ Len(rest) = n - (head + y) /\ y \in Nat /\ x \in Nat
          /\ \A i \in 1 .. Len(rest) : rest[i] = data[head + y + i]
        BY <1>2, <1>10, <1>11, <2>2
    <2>7. held + n = x + left /\ n \in Nat /\ held \in 0 .. Block - 1 /\ left \in Nat
        BY <1>2, <2>2
    <2>8. CASE fills
        <3>1. head = Block - held /\ from = 0 /\ turns = blocks + 1
            BY <1>4, <1>9, <2>8
        <3>2. x = y + Block
            <4>1. turns * Block = blocks * Block + Block
                BY <1>2, <1>9, <3>1
            <4> QED
                BY <2>2, <4>1
        <3>3. head + y = x - held
            BY <1>2, <2>6, <2>7, <3>1, <3>2
        <3>4. Len(rest) = left
            BY <1>2, <2>6, <2>7, <3>3
        <3>5. rest[k] = data[head + y + k]
            BY <2>6, <3>4
        <3>6. ~(x + k <= held) /\ x + k - held = head + y + k
            BY <1>2, <2>6, <2>7, <3>2, <3>3
        <3>7. from < k /\ k <= from + Len(rest) /\ k - from = k
            BY <2>7, <3>1, <3>4
        <3> QED
            BY <2>3, <2>5, <3>5, <3>6, <3>7
    <2>9. CASE ~fills /\ held = 0
        <3>1. head = 0 /\ from = 0 /\ turns = blocks
            BY <1>4, <1>9, <2>9
        <3>2. x = y
            BY <2>2, <3>1
        <3>3. Len(rest) = left
            BY <2>6, <2>7, <2>9, <3>1, <3>2
        <3>4. rest[k] = data[head + y + k]
            BY <2>6, <3>3
        <3>5. ~(x + k <= held) /\ x + k - held = head + y + k
            BY <2>6, <2>7, <2>9, <3>1, <3>2
        <3>6. from < k /\ k <= from + Len(rest) /\ k - from = k
            BY <2>7, <3>1, <3>3
        <3> QED
            BY <2>3, <2>5, <3>4, <3>5, <3>6
    <2>10. CASE ~fills /\ held # 0
        <3>1. head = 0 /\ from = held /\ turns = 0 /\ blocks = 0 /\ left = held + n
            BY <1>4, <1>9, <2>10
        <3>2. x = 0 /\ y = 0
            BY <1>2, <2>2, <3>1
        <3>3. Len(rest) = n
            BY <2>6, <2>7, <3>1, <3>2
        <3>4. buf = h.buf
            BY <1>6, <2>10
        <3>5. CASE k <= held
            BY <2>3, <2>5, <2>7, <3>1, <3>2, <3>4, <3>5
        <3>6. CASE ~(k <= held)
            <4>1. k - held \in 1 .. Len(rest) /\ head + y + (k - held) = x + k - held
                BY <2>7, <3>1, <3>2, <3>3, <3>6
            <4>2. rest[k - held] = data[x + k - held]
                BY <2>6, <4>1
            <4>3. from < k /\ k <= from + Len(rest)
                BY <2>7, <3>1, <3>3, <3>6
            <4>4. ~(x + k <= held)
                BY <2>7, <3>2, <3>6
            <4> QED
                BY <2>3, <2>5, <3>1, <4>2, <4>3, <4>4
        <3> QED
            BY <3>5, <3>6
    <2> QED
        BY <1>8, <2>8, <2>9, <2>10
<1>16. PICK g, f : g = WriteDirect(h, data) /\ f = Fill(buf, from, rest)
    OBVIOUS
<1>17. g = [bytes |-> h.bytes + n, buf |-> f,
            s |-> h.s \o [j \in 1 .. turns |-> Take(j)]]
    BY <1>7, <1>14, <1>16
<1>18. f = [k \in 1 .. Block |-> f[k]]
    BY <1>16 DEF Fill
<1>19. \A k \in 1 .. left : f[k] = Take(turns + 1)[k]
    BY <1>15, <1>16
<1> HIDE DEF Take
<1>20. g.buf = f
    BY <1>17
<1> QED
    BY <1>1, <1>16, <1>17, <1>18, <1>19, <1>20 DEF Took, Take
-----------------------------------------------------------------------------
(* secp256k1_sha256_write: every block goes through the buffer.  What the  *)
(* buffer holds after i blocks does not depend on what it held before,     *)
(* but for the first.                                                      *)
AreBuffers(b, h, data, held, turns) ==
    b = [i \in 0 .. turns |->
            IF i = 0 THEN h.buf
            ELSE IF i = 1 THEN Fill(b[0], held, Piece(data, 0, Block - held))
            ELSE Fill(b[i - 1], 0, Piece(data, (i - 1) * Block - held, Block))]

LEMMA FirstFilled ==
    ASSUME BlockHashAssumption, NEW S, NEW data \in Seq(S),
           NEW h, h.bytes \in Nat, NEW held, NEW turns, NEW left,
           Makes(h, data, held, turns, left), turns # 0
    PROVE  Fill(h.buf, held, Piece(data, 0, Block - held))
           = Taking(h.buf, held, data, 1)
<1>1. PICK n, whole : n = Len(data) /\ whole = turns * Block
    OBVIOUS
<1>2. /\ Block \in Nat \ {0} /\ n \in Nat
      /\ held \in 0 .. Block - 1 /\ turns \in Nat /\ left \in 0 .. Block - 1
      /\ held + n = turns * Block + left
    BY <1>1, MakesFacts
<1>3. whole >= Block /\ whole \in Nat
    <2>1. (turns - 1) * Block \in Nat
        BY <1>2
    <2>2. turns * Block = (turns - 1) * Block + Block
        BY <1>2
    <2>3. PICK y : y = (turns - 1) * Block
        OBVIOUS
    <2> QED
        BY <1>1, <1>2, <2>1, <2>2, <2>3
<1>4. PICK head : head = Block - held
    OBVIOUS
<1>5. head \in Nat /\ 0 + head <= Len(data)
    BY <1>1, <1>2, <1>3, <1>4
<1>6. PICK q : q = Piece(data, 0, head)
    OBVIOUS
<1>7. q = [k \in 1 .. head |-> data[0 + k]]
    BY <1>5, <1>6, PieceIs
<1>8. Len(q) = head
    BY <1>5, <1>7
<1>9. PICK buf : buf = Fill(h.buf, held, q)
    OBVIOUS
<1>10. buf = [k \in 1 .. Block |->
                IF held < k /\ k <= held + head THEN q[k - held] ELSE h.buf[k]]
    BY <1>8, <1>9 DEF Fill
<1>11. ASSUME NEW k \in 1 .. Block
       PROVE  Taking(h.buf, held, data, 1)[k] = buf[k]
    <2>1. (1 - 1) * Block = 0
        BY <1>2
    <2>2. Taking(h.buf, held, data, 1)[k] = IF k <= held THEN h.buf[k] ELSE data[k - held]
        BY <1>2, <2>1 DEF Taking
    <2>3. k <= held + head
        BY <1>2, <1>4
    <2>4. k > held => k - held \in 1 .. head /\ 0 + (k - held) = k - held
        BY <1>2, <1>4
    <2> QED
        BY <1>2, <1>7, <1>10, <2>2, <2>3, <2>4
<1>12. buf = Taking(h.buf, held, data, 1)
    BY <1>10, <1>11 DEF Taking
<1> QED
    BY <1>4, <1>6, <1>9, <1>12

LEMMA LaterFilled ==
    ASSUME BlockHashAssumption, NEW S, NEW data \in Seq(S),
           NEW h, h.bytes \in Nat, NEW held, NEW turns, NEW left,
           Makes(h, data, held, turns, left), NEW i \in 2 .. turns, NEW x
    PROVE  Fill(x, 0, Piece(data, (i - 1) * Block - held, Block))
           = Taking(h.buf, held, data, i)
<1>1. PICK n, whole : n = Len(data) /\ whole = turns * Block
    OBVIOUS
<1>2. /\ Block \in Nat \ {0} /\ n \in Nat
      /\ held \in 0 .. Block - 1 /\ turns \in Nat /\ left \in 0 .. Block - 1
      /\ held + n = turns * Block + left
    BY <1>1, MakesFacts
<1>3. PICK y : y = (i - 1) * Block
    OBVIOUS
<1>4. y \in Nat /\ y + Block <= whole
    <2>1. i \in 1 .. turns
        BY <1>2
    <2> QED
        BY <1>1, <1>2, <1>3, <2>1, InBlocks
<1>5. y >= Block
    <2>1. (i - 2) * Block \in Nat
        BY <1>2
    <2>2. (i - 1) * Block = (i - 2) * Block + Block
        BY <1>2
    <2> QED
        BY <1>2, <1>3, <2>1, <2>2
<1>6. PICK p : p = y - held
    OBVIOUS
<1>7. p \in Nat /\ p + Block <= Len(data)
    <2>1. held + n = whole + left
        BY <1>1, <1>2
    <2> QED
        BY <1>1, <1>2, <1>4, <1>5, <1>6, <2>1
<1>8. PICK q : q = Piece(data, p, Block)
    OBVIOUS
<1>9. q = [k \in 1 .. Block |-> data[p + k]]
    <2>1. Block \in Nat
        BY <1>2
    <2> QED
        BY <1>7, <1>8, <2>1, PieceIs
<1>10. Len(q) = Block
    BY <1>2, <1>9
<1>11. Fill(x, 0, q) = q
    <2>1. \A k \in 1 .. Block : 0 < k /\ k <= 0 + Block /\ k - 0 = k
        BY <1>2
    <2>2. Fill(x, 0, q) = [k \in 1 .. Block |->
                IF 0 < k /\ k <= 0 + Block THEN q[k - 0] ELSE x[k]]
        BY <1>10 DEF Fill
    <2>3. Fill(x, 0, q) = [k \in 1 .. Block |-> q[k]]
        BY <2>1, <2>2
    <2> QED
        BY <1>9, <2>3
<1>12. ASSUME NEW k \in 1 .. Block
       PROVE  Taking(h.buf, held, data, i)[k] = data[p + k]
    <2>1. ~(y + k <= held) /\ y + k - held = p + k
        BY <1>2, <1>4, <1>5, <1>6
    <2> QED
        BY <1>3, <2>1 DEF Taking
<1>13. Taking(h.buf, held, data, i) = q
    BY <1>9, <1>12 DEF Taking
<1> QED
    BY <1>3, <1>6, <1>8, <1>11, <1>13

LEMMA BufferIs ==
    ASSUME BlockHashAssumption, NEW S, NEW data \in Seq(S),
           NEW h, h.bytes \in Nat, NEW held, NEW turns, NEW left,
           Makes(h, data, held, turns, left), NEW b, AreBuffers(b, h, data, held, turns),
           NEW i \in 0 .. turns
    PROVE  b[i] = IF i = 0 THEN h.buf ELSE Taking(h.buf, held, data, i)
<1>1. b[i] = IF i = 0 THEN h.buf
             ELSE IF i = 1 THEN Fill(b[0], held, Piece(data, 0, Block - held))
             ELSE Fill(b[i - 1], 0, Piece(data, (i - 1) * Block - held, Block))
    BY DEF AreBuffers
<1>2. turns \in Nat
    BY MakesFacts
<1>3. CASE i = 0
    BY <1>1, <1>3
<1>4. CASE i = 1
    <2>1. turns # 0
        BY <1>2, <1>4
    <2>2. b[0] = h.buf
        BY <1>2 DEF AreBuffers
    <2>3. b[i] = Fill(h.buf, held, Piece(data, 0, Block - held))
        BY <1>1, <1>4, <2>2
    <2>4. b[i] = Taking(h.buf, held, data, 1)
        BY <2>1, <2>3, FirstFilled
    <2> QED
        BY <1>4, <2>4
<1>5. CASE i \in 2 .. turns
    <2>1. b[i] = Fill(b[i - 1], 0, Piece(data, (i - 1) * Block - held, Block))
        BY <1>1, <1>5
    <2>2. b[i] = Taking(h.buf, held, data, i)
        BY <1>5, <2>1, LaterFilled
    <2> QED
        BY <1>5, <2>2
<1> QED
    BY <1>2, <1>3, <1>4, <1>5

LEMMA BuffersExist ==
    ASSUME BlockHashAssumption, NEW S, NEW data \in Seq(S),
           NEW h, h.bytes \in Nat, NEW held, NEW turns, NEW left,
           Makes(h, data, held, turns, left)
    PROVE  \E b : AreBuffers(b, h, data, held, turns)
<1> DEFINE b == [i \in 0 .. turns |->
                    IF i = 0 THEN h.buf ELSE Taking(h.buf, held, data, i)]
           c == [i \in 0 .. turns |->
                    IF i = 0 THEN h.buf
                    ELSE IF i = 1 THEN Fill(b[0], held, Piece(data, 0, Block - held))
                    ELSE Fill(b[i - 1], 0, Piece(data, (i - 1) * Block - held, Block))]
<1>1. turns \in Nat
    BY MakesFacts
<1>2. ASSUME NEW i \in 0 .. turns
      PROVE  c[i] = b[i]
    <2>1. CASE i = 0
        BY <2>1
    <2>2. CASE i = 1
        <3>1. turns # 0
            BY <1>1, <2>2
        <3>2. b[0] = h.buf
            BY <1>1
        <3>3. c[i] = Fill(h.buf, held, Piece(data, 0, Block - held))
            BY <2>2, <3>2
        <3>4. c[i] = Taking(h.buf, held, data, 1)
            BY <3>1, <3>3, FirstFilled
        <3> QED
            BY <2>2, <3>4
    <2>3. CASE i \in 2 .. turns
        <3>1. c[i] = Fill(b[i - 1], 0, Piece(data, (i - 1) * Block - held, Block))
            BY <2>3
        <3>2. c[i] = Taking(h.buf, held, data, i)
            BY <2>3, <3>1, LaterFilled
        <3> QED
            BY <2>3, <3>2
    <2> QED
        BY <1>1, <2>1, <2>2, <2>3
<1>3. b = c
    BY <1>2
<1> HIDE DEF b
<1> QED
    BY <1>3 DEF AreBuffers

(* What the write is, with a name for everything it computes.              *)
Computes(b, h, data, held, turns) ==
    /\ held = h.bytes % Block /\ turns = (held + Len(data)) \div Block
    /\ b = CHOOSE c : AreBuffers(c, h, data, held, turns)

Ends(g, b, h, data, held, turns) ==
    g = [bytes |-> h.bytes + Len(data),
         buf |-> Fill(b[turns], IF turns = 0 THEN held ELSE 0,
                      SubSeq(data, (IF turns = 0 THEN 0 ELSE turns * Block - held) + 1,
                             Len(data))),
         s |-> h.s \o [i \in 1 .. turns |-> b[i]]]

LEMMA Unfolded ==
    ASSUME NEW h, NEW data, NEW held, NEW turns, NEW b,
           Computes(b, h, data, held, turns)
    PROVE  Ends(WriteBuffered(h, data), b, h, data, held, turns)
<1> DEFINE H == h.bytes % Block
           N == (H + Len(data)) \div Block
           B == CHOOSE c : AreBuffers(c, h, data, H, N)
<1>1. WriteBuffered(h, data) =
        [bytes |-> h.bytes + Len(data),
         buf |-> Fill(B[N], IF N = 0 THEN H ELSE 0,
                      SubSeq(data, (IF N = 0 THEN 0 ELSE N * Block - H) + 1,
                             Len(data))),
         s |-> h.s \o [i \in 1 .. N |-> B[i]]]
    BY DEF WriteBuffered, AreBuffers, Transform
<1>2. held = H /\ turns = N /\ b = B
    BY DEF Computes
<1> HIDE DEF B
<1> QED
    BY <1>1, <1>2 DEF Ends

LEMMA BufferedTook ==
    ASSUME BlockHashAssumption, NEW S, NEW data \in Seq(S),
           NEW T, NEW h, h.bytes \in Nat, h.s \in Seq(T),
           h.buf = [k \in 1 .. Block |-> h.buf[k]],
           NEW held, NEW turns, NEW left, Makes(h, data, held, turns, left)
    PROVE  Took(h, data, WriteBuffered(h, data), held, turns, left)
<1> DEFINE Take(j) == Taking(h.buf, held, data, j)
<1>1. PICK n : n = Len(data)
    OBVIOUS
<1>2. /\ Block \in Nat \ {0} /\ n \in Nat
      /\ held \in 0 .. Block - 1 /\ turns \in Nat /\ left \in 0 .. Block - 1
      /\ held + n = turns * Block + left /\ turns * Block \in Nat
    BY <1>1, MakesFacts
<1>3. PICK b : b = CHOOSE c : AreBuffers(c, h, data, held, turns)
    OBVIOUS
<1>4. AreBuffers(b, h, data, held, turns)
    BY <1>3, BuffersExist
<1>5. PICK from, used :
        /\ from = IF turns = 0 THEN held ELSE 0
        /\ used = IF turns = 0 THEN 0 ELSE turns * Block - held
    OBVIOUS
<1>6. PICK rest, buf :
        rest = SubSeq(data, used + 1, n) /\ buf = b[turns]
    OBVIOUS
<1>7. WriteBuffered(h, data) =
        [bytes |-> h.bytes + n, buf |-> Fill(buf, from, rest),
         s |-> h.s \o [i \in 1 .. turns |-> b[i]]]
    <2>1. Computes(b, h, data, held, turns)
        BY <1>3 DEF Makes, Computes
    <2>2. Ends(WriteBuffered(h, data), b, h, data, held, turns)
        BY <2>1, Unfolded
    <2> QED
        BY <1>1, <1>5, <1>6, <2>2 DEF Ends
<1>8. [i \in 1 .. turns |-> b[i]] = [i \in 1 .. turns |-> Take(i)]
    <2>1. \A i \in 1 .. turns : i \in 0 .. turns /\ i # 0
        BY <1>2
    <2>2. \A i \in 1 .. turns : b[i] = Take(i)
        BY <1>4, <2>1, BufferIs
    <2> QED
        BY <2>2
<1>9. buf = IF turns = 0 THEN h.buf ELSE Take(turns)
    <2>1. turns \in 0 .. turns
        BY <1>2
    <2> QED
        BY <1>4, <1>6, <2>1, BufferIs
<1>10. PICK x : x = turns * Block
    OBVIOUS
<1>11. held + n = x + left /\ x \in Nat /\ (turns = 0 => x = 0) /\ (turns # 0 => x >= Block)
    <2>1. held + n = x + left /\ x \in Nat
        BY <1>2, <1>10
    <2>2. turns = 0 => x = 0
        BY <1>2, <1>10
    <2>3. ASSUME turns # 0 PROVE x >= Block
        <3>1. turns - 1 \in Nat
            BY <1>2, <2>3
        <3>2. (turns - 1) * Block \in Nat
            BY <1>2, <3>1
        <3>3. turns * Block = (turns - 1) * Block + Block
            BY <1>2
        <3>4. PICK y : y = (turns - 1) * Block
            OBVIOUS
        <3> QED
            BY <1>2, <1>10, <3>2, <3>3, <3>4
    <2> QED
        BY <2>1, <2>2, <2>3
<1>12. /\ used \in Nat /\ used <= n /\ from \in Nat
       /\ turns = 0 => used = 0 /\ from = held
       /\ turns # 0 => used = x - held /\ from = 0
    <2>1. used = IF turns = 0 THEN 0 ELSE x - held
        BY <1>5, <1>10
    <2> QED
        BY <1>2, <1>5, <1>11, <2>1
<1>13. /\ rest \in Seq(S) /\ Len(rest) = n - used
       /\ \A k \in 1 .. n - used : rest[k] = data[used + k]
    <2>1. used \in Nat /\ used <= Len(data) /\ rest = SubSeq(data, used + 1, Len(data))
        BY <1>1, <1>6, <1>12
    <2> QED
        BY <1>1, <2>1, TailIs
<1>14. ASSUME NEW k \in 1 .. left
       PROVE  Fill(buf, from, rest)[k] = Take(turns + 1)[k]
    <2>1. k \in 1 .. Block
        BY <1>2
    <2>2. Fill(buf, from, rest)[k] =
            IF from < k /\ k <= from + Len(rest) THEN rest[k - from] ELSE buf[k]
        BY <2>1 DEF Fill
    <2>3. (turns + 1) - 1 = turns
        BY <1>2
    <2>4. Take(turns + 1)[k] =
            IF x + k <= held THEN h.buf[k] ELSE data[x + k - held]
        BY <1>10, <2>1, <2>3 DEF Taking
    <2>5. held \in 0 .. Block - 1 /\ left \in Nat /\ n \in Nat
        BY <1>2
    <2>6. CASE turns # 0
        <3>1. used = x - held /\ from = 0 /\ x >= Block
            BY <1>11, <1>12, <2>6
        <3>2. n - used = left
            BY <1>11, <2>5, <3>1
        <3>3. rest[k] = data[used + k] /\ Len(rest) = left
            BY <1>13, <3>2
        <3>4. ~(x + k <= held) /\ x + k - held = used + k
            BY <1>2, <1>11, <2>5, <3>1
        <3>5. from < k /\ k <= from + Len(rest) /\ k - from = k
            BY <2>5, <3>1, <3>3
        <3> QED
            BY <2>2, <2>4, <3>3, <3>4, <3>5
    <2>7. CASE turns = 0
        <3>1. used = 0 /\ from = held /\ x = 0
            BY <1>11, <1>12, <2>7
        <3>2. n - used = n /\ left = held + n
            BY <1>11, <2>5, <3>1
        <3>3. Len(rest) = n /\ \A i \in 1 .. n : rest[i] = data[i]
            <4>1. \A i \in 1 .. n : used + i = i
                BY <2>5, <3>1
            <4> QED
                BY <1>13, <3>2, <4>1
        <3>4. buf = h.buf
            BY <1>9, <2>7
        <3>5. CASE k <= held
            <4>1. ~(from < k) /\ x + k <= held
                BY <2>5, <3>1, <3>5
            <4> QED
                BY <2>2, <2>4, <3>4, <4>1
        <3>6. CASE ~(k <= held)
            <4>1. k - held \in 1 .. n /\ x + k - held = k - held
                BY <2>5, <3>1, <3>2, <3>6
            <4>2. from < k /\ k <= from + Len(rest) /\ k - from = k - held
                BY <2>5, <3>1, <3>2, <3>3, <3>6
            <4>3. ~(x + k <= held)
                BY <2>5, <3>1, <3>6
            <4> QED
                BY <2>2, <2>4, <3>3, <4>1, <4>2, <4>3
        <3> QED
            BY <3>5, <3>6
    <2> QED
        BY <2>6, <2>7
<1>16. PICK g, f : g = WriteBuffered(h, data) /\ f = Fill(buf, from, rest)
    OBVIOUS
<1>17. g = [bytes |-> h.bytes + n, buf |-> f,
            s |-> h.s \o [j \in 1 .. turns |-> Take(j)]]
    BY <1>7, <1>8, <1>16
<1>18. f = [k \in 1 .. Block |-> f[k]]
    BY <1>16 DEF Fill
<1>19. \A k \in 1 .. left : f[k] = Take(turns + 1)[k]
    BY <1>14, <1>16
<1> HIDE DEF Take
<1>20. g.buf = f
    BY <1>17
<1> QED
    BY <1>1, <1>16, <1>17, <1>18, <1>19, <1>20 DEF Took, Take
-----------------------------------------------------------------------------
LEMMA WriteTook ==
    ASSUME BlockHashAssumption, NEW S, NEW data \in Seq(S),
           NEW T, NEW h, h.bytes \in Nat, h.s \in Seq(T),
           h.buf = [k \in 1 .. Block |-> h.buf[k]], NEW direct,
           NEW held, NEW turns, NEW left, Makes(h, data, held, turns, left)
    PROVE  Took(h, data, Write(h, data, direct), held, turns, left)
<1>1. CASE direct
    <2>1. Write(h, data, direct) = WriteDirect(h, data)
        BY <1>1 DEF Write
    <2> QED
        BY <2>1, DirectTook
<1>2. CASE ~direct
    <2>1. Write(h, data, direct) = WriteBuffered(h, data)
        BY <1>2 DEF Write
    <2> QED
        BY <2>1, BufferedTook
<1> QED
    BY <1>1, <1>2

(* The object stands for a message: it has absorbed its whole blocks, and  *)
(* the buffer begins with what is left.  What else the buffer holds is     *)
(* nobody's.                                                               *)
Represents(h, m) ==
    /\ h = [bytes |-> Len(m), buf |-> h.buf, s |-> Blocks(m)]
    /\ h.buf = [k \in 1 .. Block |-> h.buf[k]]
    /\ \A k \in 1 .. Len(m) % Block :
          h.buf[k] = m[(Len(m) \div Block) * Block + k]

LEMMA Distribute ==
    ASSUME NEW a \in Int, NEW b \in Int, NEW c \in Int
    PROVE  (a + b) * c = a * c + b * c
OBVIOUS

(* What an object that stands for m takes in is what stands behind the     *)
(* whole blocks of m in m \o data.                                         *)
Whole(q, m) == q = Len(m) \div Block

Continues(h, data, held, turns, left, q, u) ==
    \A j \in 1 .. turns + 1 : \A k \in 1 .. Block :
        j <= turns \/ k <= left =>
            Taking(h.buf, held, data, j)[k] = u[(q + j - 1) * Block + k]

LEMMA TakenFrom ==
    ASSUME BlockHashAssumption, NEW S, NEW m \in Seq(S), NEW R, NEW data \in Seq(R),
           NEW h, Represents(h, m),
           NEW held, NEW turns, NEW left, Makes(h, data, held, turns, left),
           NEW q, Whole(q, m)
    PROVE  Continues(h, data, held, turns, left, q, m \o data)
<1> SUFFICES ASSUME NEW j \in 1 .. turns + 1, NEW k \in 1 .. Block,
                    j <= turns \/ k <= left
             PROVE  Taking(h.buf, held, data, j)[k]
                    = (m \o data)[(q + j - 1) * Block + k]
    BY DEF Continues
<1>0. q = Len(m) \div Block
    BY DEF Whole
<1>1. PICK u, l, n : u = m \o data /\ l = Len(m) /\ n = Len(data)
    OBVIOUS
<1>2. h.bytes = l /\ h.bytes \in Nat /\ l \in Nat
    BY <1>1 DEF Represents
<1>3. /\ Block \in Nat \ {0} /\ n \in Nat
      /\ held \in 0 .. Block - 1 /\ turns \in Nat /\ left \in 0 .. Block - 1
      /\ held + n = turns * Block + left
    BY <1>1, <1>2, MakesFacts
<1>4. q \in Nat /\ held = l % Block /\ l = q * Block + held
    <2>1. held = l % Block
        BY <1>2 DEF Makes
    <2> QED
        BY <1>0, <1>1, <1>2, <1>3, <2>1, DivMod
<1>5. PICK x, y, z : x = (j - 1) * Block /\ y = q * Block /\ z = turns * Block
    OBVIOUS
<1>6. x \in Nat /\ y \in Nat /\ z \in Nat
    BY <1>3, <1>4, <1>5
<1>7. IF j <= turns THEN x + Block <= z ELSE x = z
    <2>1. CASE j <= turns
        <3>1. j \in 1 .. turns /\ turns \in Nat
            BY <1>3, <2>1
        <3>2. x + Block <= z
            BY <1>3, <1>5, <3>1, InBlocks
        <3> QED
            BY <2>1, <3>2
    <2>2. CASE ~(j <= turns)
        <3>1. j - 1 = turns
            BY <1>3, <2>2
        <3> QED
            BY <1>5, <2>2, <3>1
    <2> QED
        BY <2>1, <2>2
<1>8. (q + j - 1) * Block = y + x
    <2>1. PICK a : a = j - 1
        OBVIOUS
    <2>2. a \in Int /\ q + j - 1 = q + a
        BY <1>3, <1>4, <2>1
    <2>3. q \in Int /\ Block \in Int
        BY <1>3, <1>4
    <2>4. (q + a) * Block = q * Block + a * Block
        BY <2>2, <2>3, Distribute
    <2> QED
        BY <1>5, <2>1, <2>2, <2>4
<1>9. PICK p : p = y + x + k
    OBVIOUS
<1>10. l = y + held /\ held + n = z + left
    BY <1>3, <1>4, <1>5
<1>11. /\ \A i \in 1 .. l : u[i] = m[i]
       /\ \A i \in 1 .. n : u[l + i] = data[i]
    BY <1>1, Concatenated
<1>12. Taking(h.buf, held, data, j)[k] =
         IF x + k <= held THEN h.buf[k] ELSE data[x + k - held]
    BY <1>5 DEF Taking
<1>13. CASE x + k <= held
    <2>1. j = 1
        <3> SUFFICES ASSUME j # 1 PROVE FALSE
            OBVIOUS
        <3>1. j - 2 \in Nat
            BY <1>3
        <3>2. (j - 2) * Block \in Nat
            BY <1>3, <3>1
        <3>3. (j - 1) * Block = (j - 2) * Block + Block
            BY <1>3
        <3>4. PICK w : w = (j - 2) * Block
            OBVIOUS
        <3>5. x = w + Block /\ w \in Nat
            BY <1>5, <3>2, <3>3, <3>4
        <3> QED
            BY <1>3, <1>13, <3>5
    <2>2. x = 0
        BY <1>3, <1>5, <2>1
    <2>3. k \in 1 .. held /\ p = y + k /\ p \in 1 .. l
        BY <1>3, <1>6, <1>9, <1>10, <1>13, <2>2
    <2>4. h.buf[k] = m[y + k]
        BY <1>0, <1>1, <1>4, <1>5, <2>3 DEF Represents
    <2>5. u[p] = m[p]
        BY <1>11, <2>3
    <2> QED
        BY <1>1, <1>8, <1>9, <1>12, <1>13, <2>3, <2>4, <2>5
<1>14. CASE ~(x + k <= held)
    <2>1. PICK i : i = x + k - held
        OBVIOUS
    <2>2. i \in 1 .. n /\ p = l + i
        BY <1>3, <1>6, <1>7, <1>9, <1>10, <1>14, <2>1
    <2>3. u[p] = data[i]
        BY <1>11, <2>2
    <2> QED
        BY <1>1, <1>8, <1>9, <1>12, <1>14, <2>1, <2>3
<1> QED
    BY <1>13, <1>14

(* The parts of a sum.                                                     *)
Parts(B, a, n, q, r, t, e) ==
    /\ B \in Nat \ {0} /\ a \in Nat /\ n \in Nat
    /\ q = a \div B /\ r = a % B /\ t = (r + n) \div B /\ e = (r + n) % B

LEMMA SumParts ==
    ASSUME NEW B, NEW a, NEW n, NEW q, NEW r, NEW t, NEW e, Parts(B, a, n, q, r, t, e)
    PROVE  (a + n) \div B = q + t /\ (a + n) % B = e
BY DivModSum DEF Parts

(* Writing data behind m.                                                  *)
LEMMA WriteRepresents ==
    ASSUME BlockHashAssumption, NEW S, NEW m \in Seq(S), NEW R, NEW data \in Seq(R),
           NEW h, Represents(h, m), NEW direct
    PROVE  Represents(Write(h, data, direct), m \o data)
<1>1. PICK u, l, n : u = m \o data /\ l = Len(m) /\ n = Len(data)
    OBVIOUS
<1>2. h.bytes = l /\ h.bytes \in Nat /\ l \in Nat /\ h.s = Blocks(m)
    BY <1>1 DEF Represents
<1>3. PICK held, turns, left :
        /\ held = h.bytes % Block
        /\ turns = (held + Len(data)) \div Block
        /\ left = (held + Len(data)) % Block
    OBVIOUS
<1>4. Makes(h, data, held, turns, left)
    BY <1>3 DEF Makes
<1>5. /\ Block \in Nat \ {0} /\ n \in Nat
      /\ held \in 0 .. Block - 1 /\ turns \in Nat /\ left \in 0 .. Block - 1
      /\ held + n = turns * Block + left
    BY <1>1, <1>2, <1>4, MakesFacts
<1>6. PICK q : q = Len(m) \div Block
    OBVIOUS
<1>7. q \in Nat /\ q * Block <= l /\ q * Block \in Nat
    BY <1>1, <1>2, <1>5, <1>6, WholeBlocks
<1>8. PICK b : b = Blocks(m)
    OBVIOUS
<1>9. b = [i \in 1 .. q |-> b[i]]
    BY <1>6, <1>8 DEF Blocks
<1>10. PICK T : b \in Seq(T) /\ Len(b) = q
    BY <1>7, <1>9, FunIsSeq
<1>11. h.buf = [k \in 1 .. Block |-> h.buf[k]]
    BY DEF Represents
<1>12. PICK g : g = Write(h, data, direct)
    OBVIOUS
<1>13. Took(h, data, g, held, turns, left)
    <2>1. h.bytes \in Nat /\ h.s \in Seq(T)
        BY <1>2, <1>8, <1>10
    <2>2. Took(h, data, Write(h, data, direct), held, turns, left)
        BY <1>4, <1>11, <2>1, WriteTook
    <2> QED
        BY <1>12, <2>2
<1> DEFINE Take(j) == Taking(h.buf, held, data, j)
<1>14. PICK t : t = [j \in 1 .. turns |-> Take(j)]
    OBVIOUS
<1>15. /\ g = [bytes |-> l + n, buf |-> g.buf, s |-> b \o t]
       /\ g.buf = [k \in 1 .. Block |-> g.buf[k]]
       /\ \A k \in 1 .. left : g.buf[k] = Take(turns + 1)[k]
    BY <1>1, <1>2, <1>8, <1>13, <1>14 DEF Took
<1>16. \A j \in 1 .. turns + 1 : \A k \in 1 .. Block :
           j <= turns \/ k <= left => Take(j)[k] = u[(q + j - 1) * Block + k]
    <2>1. Whole(q, m)
        BY <1>6 DEF Whole
    <2>2. Continues(h, data, held, turns, left, q, m \o data)
        BY <1>4, <2>1, TakenFrom
    <2> QED
        BY <1>1, <2>2 DEF Continues
<1>17. u \in Seq(S \cup R) /\ Len(u) = l + n /\ \A i \in 1 .. l : u[i] = m[i]
    BY <1>1, Concatenated
<1>18. (l + n) \div Block = q + turns /\ (l + n) % Block = left
    <2>1. Parts(Block, l, n, q, held, turns, left)
        BY <1>1, <1>2, <1>3, <1>5, <1>6 DEF Parts
    <2> QED
        BY <2>1, SumParts
<1>19. PICK c : c = Blocks(u)
    OBVIOUS
<1>20. c = [i \in 1 .. q + turns |-> [k \in 1 .. Block |-> u[(i - 1) * Block + k]]]
    <2>1. Blocks(u) = [i \in 1 .. Len(u) \div Block |->
                          [k \in 1 .. Block |-> u[(i - 1) * Block + k]]]
        BY <1>17, BlocksAre
    <2> QED
        BY <1>17, <1>18, <1>19, <2>1
<1> HIDE DEF Take
<1>21. t = [j \in 1 .. turns |-> t[j]] /\ \A j \in 1 .. turns : t[j] = Take(j)
    BY <1>14
<1>22. \A j \in 1 .. turns : Take(j) = [k \in 1 .. Block |-> Take(j)[k]]
    BY DEF Take, Taking
<1>23. PICK w : w = b \o t
    OBVIOUS
<1>24. w = [i \in 1 .. q + turns |-> w[i]]
       /\ (\A i \in 1 .. q : w[i] = b[i]) /\ \A j \in 1 .. turns : w[q + j] = t[j]
    <2>1. PICK V : t \in Seq(V) /\ Len(t) = turns
        BY <1>5, <1>21, FunIsSeq
    <2>2. /\ w \in Seq(T \cup V) /\ Len(w) = Len(b) + Len(t)
          /\ \A k \in 1 .. Len(b) : w[k] = b[k]
          /\ \A k \in 1 .. Len(t) : w[Len(b) + k] = t[k]
        <3>1. t \in Seq(V) /\ b \in Seq(T)
            BY <1>10, <2>1
        <3> QED
            BY <1>23, <3>1, Concatenated
    <2>3. w = [i \in 1 .. Len(w) |-> w[i]]
        BY <2>2, SeqIs
    <2> QED
        BY <1>10, <2>1, <2>2, <2>3
<1>25. ASSUME NEW i \in 1 .. q + turns
       PROVE  w[i] = c[i]
    <2>1. c[i] = [k \in 1 .. Block |-> u[(i - 1) * Block + k]]
        BY <1>20
    <2>2. CASE i \in 1 .. q
        <3>1. b[i] = [k \in 1 .. Block |-> m[(i - 1) * Block + k]]
            <4>1. Blocks(m) = [e \in 1 .. Len(m) \div Block |->
                                  [k \in 1 .. Block |-> m[(e - 1) * Block + k]]]
                BY BlocksAre
            <4> QED
                BY <1>6, <1>8, <2>2, <4>1
        <3>2. ASSUME NEW k \in 1 .. Block
              PROVE  m[(i - 1) * Block + k] = u[(i - 1) * Block + k]
            <4>1. (i - 1) * Block + k \in 1 .. q * Block
                BY <1>5, <1>7, <2>2, InBlocks
            <4>2. PICK p, y : p = (i - 1) * Block + k /\ y = q * Block
                OBVIOUS
            <4>3. p \in 1 .. l
                BY <1>2, <1>7, <4>1, <4>2
            <4> QED
                BY <1>17, <4>2, <4>3
        <3>3. c[i] = b[i]
            BY <2>1, <3>1, <3>2
        <3> QED
            BY <1>24, <2>2, <3>3
    <2>3. CASE ~(i \in 1 .. q)
        <3>1. PICK j \in 1 .. turns : i = q + j
            <4>1. i - q \in 1 .. turns /\ i = q + (i - q)
                BY <1>5, <1>7, <2>3
            <4> QED
                BY <4>1
        <3>2. w[i] = Take(j)
            BY <1>21, <1>24, <3>1
        <3>3. j \in 1 .. turns + 1 /\ j <= turns
            BY <1>5
        <3>4. \A k \in 1 .. Block : Take(j)[k] = u[(q + j - 1) * Block + k]
            BY <1>16, <3>3
        <3>5. (i - 1) * Block = (q + j - 1) * Block
            <4>1. q \in Nat /\ turns \in Nat
                BY <1>5, <1>7
            <4>2. i - 1 = q + j - 1
                BY <3>1, <4>1
            <4> QED
                BY <4>2
        <3>6. \A k \in 1 .. Block : Take(j)[k] = u[(i - 1) * Block + k]
            BY <3>4, <3>5
        <3>7. Take(j) = c[i]
            BY <1>22, <2>1, <3>6
        <3> QED
            BY <3>2, <3>7
    <2> QED
        BY <2>2, <2>3
<1>26. w = c
    BY <1>20, <1>24, <1>25
<1>27. ASSUME NEW k \in 1 .. left
       PROVE  g.buf[k] = u[(q + turns) * Block + k]
    <2>1. turns + 1 \in 1 .. turns + 1 /\ k \in 1 .. Block /\ k <= left
        BY <1>5
    <2>2. Take(turns + 1)[k] = u[(q + (turns + 1) - 1) * Block + k]
        BY <1>16, <2>1
    <2>3. q + (turns + 1) - 1 = q + turns
        BY <1>5, <1>7
    <2> QED
        BY <1>15, <2>2, <2>3
<1>28. g = [bytes |-> Len(u), buf |-> g.buf, s |-> Blocks(u)]
    BY <1>15, <1>17, <1>19, <1>23, <1>26
<1>29. Represents(g, u)
    <2>1. Len(u) % Block = left /\ Len(u) \div Block = q + turns
        BY <1>17, <1>18
    <2> QED
        BY <1>15, <1>27, <1>28, <2>1 DEF Represents
<1> QED
    BY <1>1, <1>12, <1>29
-----------------------------------------------------------------------------
(* A new object and one that was reset stand for the empty message.        *)
LEMMA NothingWritten ==
    ASSUME BlockHashAssumption, NEW h, h.buf = [k \in 1 .. Block |-> h.buf[k]],
           h = [bytes |-> 0, buf |-> h.buf, s |-> <<>>]
    PROVE  Represents(h, <<>>)
<1>1. Block \in Nat \ {0} /\ 0 \in 0 .. Block - 1 /\ 0 * Block + 0 = 0
    BY DEF BlockHashAssumption
<1>2. 0 \div Block = 0 /\ 0 % Block = 0
    BY <1>1, Quotient
<1>3. Len(<<>>) = 0
    OBVIOUS
<1>4. Blocks(<<>>) = <<>>
    BY <1>2, <1>3 DEF Blocks
<1>5. 1 .. Len(<<>>) % Block = {}
    BY <1>2, <1>3
<1> QED
    BY <1>3, <1>4, <1>5 DEF Represents

LEMMA NewRepresents ==
    ASSUME BlockHashAssumption
    PROVE  Represents(NewHash, <<>>)
<1>1. NewHash.buf = [k \in 1 .. Block |-> NewHash.buf[k]]
    BY DEF NewHash
<1>2. NewHash = [bytes |-> 0, buf |-> NewHash.buf, s |-> <<>>]
    BY DEF NewHash
<1> QED
    BY <1>1, <1>2, NothingWritten

LEMMA ResetRepresents ==
    ASSUME BlockHashAssumption, NEW h, NEW m, Represents(h, m)
    PROVE  Represents(Reset(h), <<>>)
<1>1. PICK g : g = Reset(h)
    OBVIOUS
<1>2. g = [bytes |-> 0, buf |-> h.buf, s |-> <<>>]
    BY <1>1 DEF Reset, Represents
<1>3. g.buf = h.buf
    BY <1>2
<1>4. g.buf = [k \in 1 .. Block |-> g.buf[k]]
    BY <1>3 DEF Represents
<1> QED
    BY <1>1, <1>2, <1>3, <1>4, NothingWritten
-----------------------------------------------------------------------------
(* Among any Block numbers in a row that make a sum there is one, and only *)
(* one, that makes whole blocks.                                           *)
Fills(n, k) == n + 1 + k + LengthLen

LEMMA OneFills ==
    ASSUME BlockHashAssumption, NEW n \in Nat,
           NEW z \in 0 .. Block - 1, Fills(n, z) % Block = 0,
           NEW k \in 0 .. Block - 1, Fills(n, k) % Block = 0
    PROVE  k = z
<1>1. Block \in Nat \ {0} /\ LengthLen \in Nat
    BY DEF BlockHashAssumption
<1>2. PICK a, b : a = Fills(n, z) /\ b = Fills(n, k)
    OBVIOUS
<1>3. a \in Nat /\ b \in Nat /\ a - b = z - k
    BY <1>1, <1>2 DEF Fills
<1>4. PICK c, d : c = a \div Block /\ d = b \div Block
    OBVIOUS
<1>5. c \in Nat /\ d \in Nat /\ a = c * Block + 0 /\ b = d * Block + 0
    <2>1. a % Block = 0 /\ b % Block = 0
        BY <1>2
    <2> QED
        BY <1>1, <1>3, <1>4, <2>1, DivMod
<1>6. PICK e : e = c - d
    OBVIOUS
<1>7. e \in Int /\ z - k = e * Block
    <2>1. (c - d) * Block = c * Block - d * Block
        BY <1>1, <1>5
    <2>2. PICK x, y : x = c * Block /\ y = d * Block
        OBVIOUS
    <2>3. a = x /\ b = y /\ x \in Int /\ y \in Int
        BY <1>1, <1>5, <2>2
    <2>4. e * Block = x - y
        BY <1>6, <2>1, <2>2
    <2> QED
        BY <1>3, <1>5, <1>6, <2>3, <2>4
<1>8. e = 0
    <2>1. CASE e >= 1
        <3>1. e * Block >= Block
            BY <1>1, <1>7, <2>1
        <3> QED
            BY <1>1, <1>7, <3>1
    <2>2. CASE e <= -1
        <3>1. e * Block <= -Block
            BY <1>1, <1>7, <2>2
        <3> QED
            BY <1>1, <1>7, <3>1
    <2> QED
        BY <1>7, <2>1, <2>2
<1>9. e * Block = 0
    BY <1>1, <1>8
<1> QED
    BY <1>7, <1>9

(* PadLen writes a one and that number of zeros.                           *)
LEMMA PadLenFills ==
    ASSUME BlockHashAssumption, NEW n \in Nat
    PROVE  \E z \in 0 .. Block - 1 : PadLen(n) = 1 + z /\ Fills(n, z) % Block = 0
<1>1. /\ Block \in Nat \ {0} /\ LengthLen \in Nat \ {0} /\ LengthLen <= Block - 1
    BY DEF BlockHashAssumption
<1>2. PICK q, r : q = n \div Block /\ r = n % Block
    OBVIOUS
<1>3. q \in Nat /\ r \in 0 .. Block - 1 /\ n = q * Block + r
    BY <1>1, <1>2, DivMod
<1>4. PICK a : a = 2 * Block - 1 - LengthLen - r
    OBVIOUS
<1>5. a \in Nat
    BY <1>1, <1>3, <1>4
<1>6. PICK z, d : z = a % Block /\ d = a \div Block
    OBVIOUS
<1>7. d \in Nat /\ z \in 0 .. Block - 1 /\ a = d * Block + z
    BY <1>1, <1>5, <1>6, DivMod
<1>8. PICK x, y, e : x = q * Block /\ y = d * Block /\ e = q + 2 - d
    OBVIOUS
<1>9. Fills(n, z) = x + 2 * Block - y
    <2>1. n = x + r /\ a = y + z /\ x \in Nat /\ y \in Nat
        BY <1>1, <1>3, <1>7, <1>8
    <2>2. r \in Nat /\ z \in Nat
        BY <1>3, <1>7
    <2> QED
        BY <1>1, <1>4, <2>1, <2>2 DEF Fills
<1>10. x + 2 * Block - y = e * Block
    <2>1. (q + 2 - d) * Block = q * Block + 2 * Block - d * Block
        BY <1>1, <1>3, <1>7
    <2> QED
        BY <1>8, <2>1
<1>11. Fills(n, z) \in Nat /\ Fills(n, z) = e * Block
    <2>1. Fills(n, z) \in Nat
        BY <1>1, <1>7 DEF Fills
    <2> QED
        BY <1>9, <1>10, <2>1
<1>12. e \in Nat
    <2>1. e \in Int
        BY <1>3, <1>7, <1>8
    <2>2. ~(e <= -1)
        <3> SUFFICES ASSUME e <= -1 PROVE FALSE
            OBVIOUS
        <3>1. e * Block <= -Block
            BY <1>1, <2>1
        <3> QED
            BY <1>1, <1>11, <3>1
    <2> QED
        BY <2>1, <2>2
<1>13. (e * Block + 0) % Block = 0
    BY <1>1, <1>12, Quotient
<1>14. Fills(n, z) % Block = 0
    BY <1>11, <1>13
<1>15. PadLen(n) = 1 + z
    BY <1>2, <1>4, <1>6 DEF PadLen
<1> QED
    BY <1>7, <1>14, <1>15
(* A message with z zeros behind the one, and its length.                  *)
Ended(m, z) ==
    ((m \o <<One>>) \o [i \in 1 .. z |-> Zero]) \o LengthBytes(Len(m))

LEMMA PaddedIs ==
    ASSUME BlockHashAssumption, NEW S, NEW m \in Seq(S),
           NEW z \in 0 .. Block - 1, Fills(Len(m), z) % Block = 0
    PROVE  Padded(m) = Blocks(Ended(m, z))
<1> DEFINE Z == {k \in 0 .. Block - 1 : (Len(m) + 1 + k + LengthLen) % Block = 0}
<1>1. Len(m) \in Nat
    OBVIOUS
<1>2. \A k \in Z : k = z
    BY <1>1, OneFills DEF Fills
<1>3. z \in Z
    BY DEF Fills
<1>4. PICK y : y = Min(Z)
    OBVIOUS
<1>5. y = z
    <2>1. \A k \in Z : z <= k
        BY <1>2
    <2>2. y \in Z
        BY <1>3, <1>4, <2>1 DEF Min
    <2> QED
        BY <1>2, <2>2
<1>6. Min(Z) = z
    BY <1>4, <1>5
<1> QED
    BY <1>6 DEF Padded, Blocks, Ended

(* Finalize makes of an object that stands for m one that stands for m     *)
(* padded.                                                                 *)
LEMMA FinalizeRepresents ==
    ASSUME BlockHashAssumption, NEW S, NEW m \in Seq(S), NEW h, Represents(h, m),
           NEW direct
    PROVE  \E z \in 0 .. Block - 1 :
               /\ Fills(Len(m), z) % Block = 0
               /\ Represents(Finalize(h, direct), Ended(m, z))
<1>1. PICK n : n = Len(m)
    OBVIOUS
<1>2. n \in Nat /\ h.bytes = n
    BY <1>1 DEF Represents
<1>3. PICK z \in 0 .. Block - 1 : PadLen(n) = 1 + z /\ Fills(n, z) % Block = 0
    BY <1>2, PadLenFills
<1>4. z \in Nat /\ Block \in Nat /\ LengthLen \in Nat
    BY DEF BlockHashAssumption
<1>5. PICK pad, end, zeros :
        pad = PadBytes(n) /\ end = LengthBytes(n) /\ zeros = [i \in 1 .. z |-> Zero]
    OBVIOUS
<1>6. pad = [i \in 1 .. z + 1 |-> IF i = 1 THEN One ELSE Zero]
    <2>1. PadLen(n) = z + 1
        BY <1>3, <1>4
    <2> QED
        BY <1>5, <2>1 DEF PadBytes
<1>7. PICK P : pad \in Seq(P)
    <2>1. z + 1 \in Nat /\ pad = [i \in 1 .. z + 1 |-> pad[i]]
        BY <1>4, <1>6
    <2>2. pad \in Seq({pad[i] : i \in 1 .. z + 1})
        BY <2>1, FunIsSeq
    <2> QED
        BY <2>2
<1>8. PICK E : end \in Seq(E)
    <2>1. end = [i \in 1 .. LengthLen |-> end[i]]
        BY <1>5 DEF LengthBytes
    <2>2. end \in Seq({end[i] : i \in 1 .. LengthLen})
        BY <1>4, <2>1, FunIsSeq
    <2> QED
        BY <2>2
<1>9. PICK one, u : one = <<One>> /\ u = m \o pad
    OBVIOUS
<1>10. u = (m \o one) \o zeros
    <2>1. \A i \in 1 .. z + 1 : i # 1 => i - 1 \in 1 .. z
        BY <1>4
    <2>2. \A i \in 1 .. z + 1 : i # 1 => zeros[i - 1] = Zero
        BY <1>5, <2>1
    <2>3. pad = [i \in 1 .. z + 1 |-> IF i = 1 THEN One ELSE zeros[i - 1]]
        BY <1>6, <2>2
    <2>4. zeros = [i \in 1 .. z |-> zeros[i]]
        BY <1>5
    <2>5. Prepended(one, One, z, zeros, pad)
        BY <1>4, <1>9, <2>3, <2>4 DEF Prepended
    <2>6. (m \o one) \o zeros = m \o pad
        BY <2>5, InFront
    <2>7. u = m \o pad
        BY <1>9
    <2> QED
        BY <2>6, <2>7
<1>11. u \in Seq(S \cup P)
    BY <1>7, <1>9, Concatenated
<1>12. PICK g, f : g = Write(h, pad, direct) /\ f = Write(g, end, direct)
    OBVIOUS
<1>13. Represents(g, u)
    BY <1>7, <1>9, <1>12, WriteRepresents
<1>14. Represents(f, u \o end)
    BY <1>8, <1>11, <1>12, <1>13, WriteRepresents
<1>15. f = Finalize(h, direct)
    BY <1>2, <1>5, <1>12 DEF Finalize
<1>16. u \o end = Ended(m, z)
    BY <1>1, <1>5, <1>9, <1>10 DEF Ended
<1> QED
    BY <1>1, <1>3, <1>14, <1>15, <1>16

(* What a finalized object has absorbed is the padded message, and nothing *)
(* is left in its buffer.                                                  *)
LEMMA FinalizeIs ==
    ASSUME BlockHashAssumption, NEW S, NEW m \in Seq(S), NEW h, Represents(h, m),
           NEW direct
    PROVE  /\ Finalize(h, direct).s = Padded(m)
           /\ \E u : Represents(Finalize(h, direct), u)
<1>1. PICK z \in 0 .. Block - 1 :
         /\ Fills(Len(m), z) % Block = 0
         /\ Represents(Finalize(h, direct), Ended(m, z))
    BY FinalizeRepresents
<1>2. Padded(m) = Blocks(Ended(m, z))
    BY <1>1, PaddedIs
<1>3. Finalize(h, direct).s = Blocks(Ended(m, z))
    BY <1>1 DEF Represents
<1> QED
    BY <1>1, <1>2, <1>3

LEMMA DigestIsBytes ==
    ASSUME BlockHashAssumption, NEW s
    PROVE  DigestBytes(s) \in Seq({DigestBytes(s)[i] : i \in 1 .. DigestLen})
<1>1. DigestLen \in Nat
    BY DEF BlockHashAssumption
<1>2. PICK d : d = DigestBytes(s)
    OBVIOUS
<1>3. d = [i \in 1 .. DigestLen |-> d[i]]
    BY <1>2 DEF DigestBytes
<1> QED
    BY <1>1, <1>2, <1>3, FunIsSeq

(* One object that is written to and finalized in one go, whatever it was  *)
(* before.                                                                 *)
LEMMA HashOf ==
    ASSUME BlockHashAssumption, NEW S, NEW data \in Seq(S), NEW h, Represents(h, <<>>),
           NEW direct
    PROVE  /\ Finalize(Write(h, data, direct), direct).s = Padded(data)
           /\ \E u : Represents(Finalize(Write(h, data, direct), direct), u)
<1>1. <<>> \in Seq(S) /\ <<>> \o data = data
    OBVIOUS
<1>2. PICK g : g = Write(h, data, direct)
    OBVIOUS
<1>3. Represents(g, data)
    BY <1>1, <1>2, WriteRepresents
<1> QED
    BY <1>2, <1>3, FinalizeIs
-----------------------------------------------------------------------------
(* A finalized object ends with the length of its message, and has no more *)
(* blocks than that takes.                                                 *)
Leaves(f, n) ==
    /\ f.bytes = Block * Len(f.s)
    /\ Last(Last(f.s)) = <<"length", n, LengthLen>>
    /\ Block * (Len(f.s) - 1) < n + 1 + LengthLen
    /\ n + 1 + LengthLen <= Block * Len(f.s)

LEMMA EndedFacts ==
    ASSUME BlockHashAssumption, NEW S, NEW m \in Seq(S), NEW z \in Nat,
           NEW u, u = Ended(m, z)
    PROVE  /\ \E E : u \in Seq(E)
           /\ Len(u) = Fills(Len(m), z)
           /\ u[Len(u)] = <<"length", Len(m), LengthLen>>
<1>1. LengthLen \in Nat \ {0} /\ Len(m) \in Nat
    BY DEF BlockHashAssumption
<1>2. PICK a, b, c, one, zeros, end :
        /\ one = <<One>> /\ zeros = [i \in 1 .. z |-> Zero] /\ end = LengthBytes(Len(m))
        /\ a = m \o one /\ b = a \o zeros /\ c = b \o end
    OBVIOUS
<1>3. one \in Seq({One}) /\ Len(one) = 1
    BY <1>2
<1>4. zeros \in Seq({zeros[i] : i \in 1 .. z}) /\ Len(zeros) = z
    <2>1. zeros = [i \in 1 .. z |-> zeros[i]]
        BY <1>2
    <2> QED
        BY <2>1, FunIsSeq
<1>5. end \in Seq({end[i] : i \in 1 .. LengthLen}) /\ Len(end) = LengthLen
    <2>1. end = [i \in 1 .. LengthLen |-> end[i]]
        BY <1>2 DEF LengthBytes
    <2> QED
        BY <1>1, <2>1, FunIsSeq
<1>6. PICK Z, E : zeros \in Seq(Z) /\ end \in Seq(E)
    BY <1>4, <1>5
<1>7. PICK A : a \in Seq(A) /\ Len(a) = Len(m) + Len(one)
    <2>1. one \in Seq({One}) /\ a = m \o one
        BY <1>2, <1>3
    <2>2. a \in Seq(S \cup {One}) /\ Len(a) = Len(m) + Len(one)
        BY <2>1, Concatenated
    <2> QED
        BY <2>2
<1>8. PICK B : b \in Seq(B) /\ Len(b) = Len(a) + Len(zeros)
    <2>1. b = a \o zeros /\ a \in Seq(A)
        BY <1>2, <1>7
    <2>2. b \in Seq(A \cup Z) /\ Len(b) = Len(a) + Len(zeros)
        BY <1>6, <2>1, Concatenated
    <2> QED
        BY <2>2
<1>9. /\ c \in Seq(B \cup E) /\ Len(c) = Len(b) + Len(end)
      /\ \A k \in 1 .. Len(end) : c[Len(b) + k] = end[k]
    <2>1. c = b \o end /\ b \in Seq(B)
        BY <1>2, <1>8
    <2> QED
        BY <1>6, <2>1, Concatenated
<1>10. u = c
    BY <1>2 DEF Ended
<1>11. Len(u) = Fills(Len(m), z)
    BY <1>1, <1>3, <1>4, <1>5, <1>7, <1>8, <1>9, <1>10 DEF Fills
<1>12. c[Len(b) + LengthLen] = end[LengthLen]
    BY <1>1, <1>5, <1>9
<1>13. end[LengthLen] = <<"length", Len(m), LengthLen>>
    BY <1>1, <1>2 DEF LengthBytes
<1>14. u[Len(u)] = end[LengthLen]
    BY <1>5, <1>9, <1>10, <1>12
<1> QED
    BY <1>9, <1>10, <1>11, <1>13, <1>14

LEMMA FinalizeLeaves ==
    ASSUME BlockHashAssumption, NEW S, NEW m \in Seq(S), NEW g, Represents(g, m),
           NEW way
    PROVE  Leaves(Finalize(g, way), Len(m))
<1>1. PICK z \in 0 .. Block - 1 :
         /\ Fills(Len(m), z) % Block = 0
         /\ Represents(Finalize(g, way), Ended(m, z))
    BY FinalizeRepresents
<1>2. Block \in Nat \ {0} /\ LengthLen \in Nat /\ z \in Nat /\ Len(m) \in Nat
    BY DEF BlockHashAssumption
<1>3. PICK u, f : u = Ended(m, z) /\ f = Finalize(g, way)
    OBVIOUS
<1>4. PICK E : u \in Seq(E)
    BY <1>2, <1>3, EndedFacts
<1>5. PICK l, n : l = Len(u) /\ n = Len(m)
    OBVIOUS
<1>6. l = n + 1 + z + LengthLen /\ u[l] = <<"length", n, LengthLen>>
    BY <1>2, <1>3, <1>5, EndedFacts DEF Fills
<1>7. l \in Nat /\ l >= 1 /\ l % Block = 0 /\ n \in Nat
    <2>1. Len(u) = Fills(Len(m), z)
        BY <1>2, <1>3, EndedFacts
    <2>2. l % Block = 0
        BY <1>1, <1>5, <2>1
    <2> QED
        BY <1>2, <1>5, <1>6, <2>2
<1>8. PICK c : c = l \div Block
    OBVIOUS
<1>9. PICK y : y = c * Block
    OBVIOUS
<1>10. c \in Nat /\ l = y
    <2>1. c \in Nat /\ l = c * Block + 0
        BY <1>2, <1>7, <1>8, DivMod
    <2>2. y \in Int
        BY <1>2, <1>9, <2>1
    <2>3. l = y + 0
        BY <1>9, <2>1
    <2> QED
        BY <2>1, <2>2, <2>3
<1>11. c # 0
    <2> SUFFICES ASSUME c = 0 PROVE FALSE
        OBVIOUS
    <2>1. y = 0
        BY <1>2, <1>9
    <2> QED
        BY <1>7, <1>10, <2>1
<1>12. PICK x : x = (c - 1) * Block
    OBVIOUS
<1>13. x \in Nat /\ y = x + Block
    <2>1. c - 1 \in Nat
        BY <1>10, <1>11
    <2>2. (c - 1) * Block \in Nat /\ c * Block = (c - 1) * Block + Block
        BY <1>2, <1>10, <2>1
    <2> QED
        BY <1>9, <1>12, <2>2
<1>14. f.bytes = l /\ f.s = Blocks(u)
    BY <1>1, <1>3, <1>5 DEF Represents
<1>15. PICK b : b = Blocks(u)
    OBVIOUS
<1>16. b = [i \in 1 .. c |-> [k \in 1 .. Block |-> u[(i - 1) * Block + k]]]
    <2>1. Blocks(u) = [i \in 1 .. Len(u) \div Block |->
                          [k \in 1 .. Block |-> u[(i - 1) * Block + k]]]
        BY <1>4, BlocksAre
    <2> QED
        BY <1>5, <1>8, <1>15, <2>1
<1>17. Len(b) = c
    <2>1. b = [i \in 1 .. c |-> b[i]]
        BY <1>16
    <2> QED
        BY <1>10, <2>1, FunIsSeq
<1>18. PICK e : e = b[c]
    OBVIOUS
<1>19. e = [k \in 1 .. Block |-> u[x + k]]
    BY <1>10, <1>11, <1>12, <1>16, <1>18
<1>20. Len(e) = Block
    <2>1. e = [k \in 1 .. Block |-> e[k]]
        BY <1>19
    <2> QED
        BY <1>2, <2>1, FunIsSeq
<1>21. e[Block] = u[l]
    BY <1>2, <1>10, <1>13, <1>19
<1>22. Last(Last(b)) = u[l]
    BY <1>17, <1>18, <1>20, <1>21 DEF Last
<1>23. Block * c = y /\ Block * (c - 1) = x
    BY <1>2, <1>9, <1>10, <1>12
<1>24. x < n + 1 + LengthLen /\ n + 1 + LengthLen <= y
    BY <1>2, <1>6, <1>7, <1>10, <1>13
<1> QED
    BY <1>3, <1>5, <1>6, <1>10, <1>14, <1>15, <1>17, <1>22, <1>23, <1>24 DEF Leaves
=============================================================================
