------------------------- MODULE HashStream_proofs -------------------------
(***************************************************************************)
(* An object in a caller's hands, for blocks and messages of any length.   *)
(***************************************************************************)
EXTENDS HashStream, BlockHash_proofs, WellFoundedInduction

vars == <<direct, h, open, digest>>

Spec == Init /\ [][Next]_vars

(* A set of numbers that is not empty has a least element.                 *)
LEMMA Least ==
    ASSUME NEW S, S \subseteq Nat, S # {}
    PROVE  \E m \in S : \A k \in S : m <= k
<1> DEFINE R == OpToRel(<, Nat)
<1>1. \A x, y \in Nat : x < y => <<x, y>> \in R
    BY DEF OpToRel
<1>2. IsWellFoundedOn(R, Nat)
    BY NatLessThanWellFounded
<1> HIDE DEF R
<1>3. PICK x \in S : \A y \in S : ~(<<y, x>> \in R)
    BY <1>2, WFMin, Zenon
<1>4. ASSUME NEW y \in S
      PROVE  x <= y
    <2>1. x \in Nat /\ y \in Nat
        OBVIOUS
    <2>2. ~(y < x)
        BY <1>1, <1>3, <2>1
    <2> QED
        BY <2>1, <2>2
<1> QED
    BY <1>4
-----------------------------------------------------------------------------
(* A message is its front and what is behind it.                           *)
FirstOf(m, p) == [k \in 1 .. p |-> m[k]]

Adjoin(m, a, b, p) == a \in Nat /\ b \in Nat /\ p = a + b /\ p <= Len(m)

LEMMA Joins ==
    ASSUME NEW S, NEW m \in Seq(S), NEW a, NEW b, NEW p, Adjoin(m, a, b, p)
    PROVE  FirstOf(m, a) \o [k \in 1 .. b |-> m[a + k]] = FirstOf(m, p)
<1>1. a \in Nat /\ b \in Nat /\ p = a + b
    BY DEF Adjoin
<1>2. PICK f, g, u :
        f = FirstOf(m, a) /\ g = [k \in 1 .. b |-> m[a + k]] /\ u = f \o g
    OBVIOUS
<1>3. f = [k \in 1 .. a |-> f[k]] /\ g = [k \in 1 .. b |-> g[k]]
    BY <1>2 DEF FirstOf
<1>4. PICK F, G : f \in Seq(F) /\ g \in Seq(G) /\ Len(f) = a /\ Len(g) = b
    BY <1>1, <1>3, FunIsSeq
<1>5. /\ u \in Seq(F \cup G) /\ Len(u) = Len(f) + Len(g)
      /\ \A k \in 1 .. Len(f) : u[k] = f[k]
      /\ \A k \in 1 .. Len(g) : u[Len(f) + k] = g[k]
    <2>1. f \in Seq(F) /\ g \in Seq(G)
        BY <1>4
    <2>2. u = f \o g
        BY <1>2
    <2> QED
        BY <2>1, <2>2, Concatenated
<1>6. u = [k \in 1 .. p |-> u[k]]
    BY <1>1, <1>4, <1>5
<1>7. ASSUME NEW k \in 1 .. p
      PROVE  u[k] = m[k]
    <2>1. CASE k <= a
        <3>1. k \in 1 .. a
            BY <1>1, <2>1
        <3>2. u[k] = f[k] /\ f[k] = m[k]
            BY <1>2, <1>4, <1>5, <3>1 DEF FirstOf
        <3> QED
            BY <3>2
    <2>2. CASE ~(k <= a)
        <3>1. PICK i : i = k - a
            OBVIOUS
        <3>2. i \in 1 .. b /\ k = a + i
            BY <1>1, <2>2, <3>1
        <3>3. g[i] = m[a + i]
            BY <1>2, <3>2
        <3>4. u[a + i] = g[i]
            BY <1>4, <1>5, <3>2
        <3> QED
            BY <3>2, <3>3, <3>4
    <2> QED
        BY <2>1, <2>2
<1> QED
    BY <1>2, <1>6, <1>7 DEF FirstOf

(* What a sequence of sequences is when it is flattened.                   *)
Flattens(f, s) ==
    f = [i \in 1 .. Len(s) |-> IF i = 1 THEN s[i] ELSE f[i - 1] \o s[i]]

LEMMA FlattenIs ==
    ASSUME NEW s, Len(s) \in Nat \ {0}, NEW f, Flattens(f, s)
    PROVE  FlattenSeq(s) = f[Len(s)]
<1> DEFINE l == Len(s)
           g == CHOOSE g : Flattens(g, s)
           T == {n \in 1 .. l : f[n] # g[n]}
<1>1. Flattens(g, s)
    OBVIOUS
<1>2. FlattenSeq(s) = g[l]
    BY DEF FlattenSeq, Flattens
<1> HIDE DEF g
<1>3. T = {}
    <2> SUFFICES ASSUME T # {} PROVE FALSE
        OBVIOUS
    <2>1. T \subseteq Nat
        OBVIOUS
    <2>2. PICK m \in T : \A n \in T : m <= n
        BY <2>1, Least
    <2>3. m # 1
        BY <1>1 DEF Flattens
    <2>4. m - 1 \in 1 .. l /\ f[m - 1] = g[m - 1]
        BY <2>2, <2>3
    <2>5. f[m] = f[m - 1] \o s[m]
        BY <2>3 DEF Flattens
    <2>6. g[m] = g[m - 1] \o s[m]
        BY <1>1, <2>3 DEF Flattens
    <2> QED
        BY <2>4, <2>5, <2>6
<1> QED
    BY <1>2, <1>3

LEMMA BlocksFlatten ==
    ASSUME BlockHashAssumption, NEW S, NEW m \in Seq(S),
           NEW q, q = Len(m) \div Block
    PROVE  FlattenSeq(Blocks(m)) = FirstOf(m, q * Block)
<1>1. Block \in Nat \ {0} /\ Len(m) \in Nat
    BY DEF BlockHashAssumption
<1>2. PICK y : y = q * Block
    OBVIOUS
<1>3. q \in Nat /\ y \in Nat /\ y <= Len(m)
    BY <1>1, <1>2, WholeBlocks
<1>4. PICK b : b = Blocks(m)
    OBVIOUS
<1>5. b = [i \in 1 .. q |-> [k \in 1 .. Block |-> m[(i - 1) * Block + k]]]
    BY <1>4, BlocksAre
<1>6. Len(b) = q /\ b = [i \in 1 .. q |-> b[i]]
    <2>1. b = [i \in 1 .. q |-> b[i]]
        BY <1>5
    <2> QED
        BY <1>3, <2>1, FunIsSeq
<1>7. CASE q = 0
    <2>1. b = <<>> /\ y = 0
        BY <1>1, <1>2, <1>6, <1>7
    <2>2. FlattenSeq(b) = <<>>
        BY <1>6, <1>7, <2>1 DEF FlattenSeq
    <2>3. FirstOf(m, y) = <<>>
        BY <2>1 DEF FirstOf
    <2> QED
        BY <1>2, <1>4, <2>2, <2>3
<1>8. CASE q # 0
    <2>1. PICK f : f = [i \in 1 .. q |-> FirstOf(m, i * Block)]
        OBVIOUS
    <2>2. ASSUME NEW i \in 1 .. q
          PROVE  f[i] = IF i = 1 THEN b[i] ELSE f[i - 1] \o b[i]
        <3>1. PICK x, p : x = (i - 1) * Block /\ p = i * Block
            OBVIOUS
        <3>2. x \in Nat /\ x + Block <= y
            BY <1>1, <1>2, <1>3, <3>1, InBlocks
        <3>3. p = x + Block
            BY <1>1, <1>3, <3>1
        <3>4. b[i] = [k \in 1 .. Block |-> m[x + k]] /\ f[i] = FirstOf(m, p)
            BY <1>5, <2>1, <3>1
        <3>5. Adjoin(m, x, Block, p)
            BY <1>1, <1>3, <3>2, <3>3 DEF Adjoin
        <3>6. FirstOf(m, x) \o [k \in 1 .. Block |-> m[x + k]] = FirstOf(m, p)
            BY <3>5, Joins
        <3>7. f[i] = FirstOf(m, x) \o b[i]
            BY <3>4, <3>6
        <3>8. CASE i = 1
            <4>1. x = 0
                BY <1>1, <3>1, <3>8
            <4>2. p = Block /\ \A k \in 1 .. Block : x + k = k
                BY <1>1, <3>3, <4>1
            <4>3. b[i] = FirstOf(m, p)
                BY <3>4, <4>2 DEF FirstOf
            <4> QED
                BY <3>4, <3>8, <4>3
        <3>9. CASE i # 1
            <4>1. i - 1 \in 1 .. q
                BY <1>3, <3>9
            <4>2. f[i - 1] = FirstOf(m, x)
                BY <2>1, <3>1, <4>1
            <4> QED
                BY <3>7, <3>9, <4>2
        <3> QED
            BY <3>8, <3>9
    <2>3. f = [i \in 1 .. q |-> f[i]]
        BY <2>1
    <2>4. f = [i \in 1 .. q |-> IF i = 1 THEN b[i] ELSE f[i - 1] \o b[i]]
        BY <2>2, <2>3
    <2>5. Flattens(f, b) /\ Len(b) \in Nat \ {0}
        BY <1>3, <1>6, <1>8, <2>4 DEF Flattens
    <2>6. FlattenSeq(b) = f[q]
        BY <1>6, <2>5, FlattenIs
    <2>7. f[q] = FirstOf(m, y)
        BY <1>2, <1>3, <1>8, <2>1
    <2> QED
        BY <1>2, <1>4, <2>6, <2>7
<1> QED
    BY <1>7, <1>8

(* What an object that stands for m has taken in is m.                     *)
LEMMA TakenIs ==
    ASSUME BlockHashAssumption, NEW S, NEW m \in Seq(S), NEW g, Represents(g, m)
    PROVE  FlattenSeq(g.s) \o SubSeq(g.buf, 1, g.bytes % Block) = m
<1>1. Block \in Nat \ {0} /\ Len(m) \in Nat
    BY DEF BlockHashAssumption
<1>2. PICK l, q, r : l = Len(m) /\ q = l \div Block /\ r = l % Block
    OBVIOUS
<1>3. PICK y : y = q * Block
    OBVIOUS
<1>4. q \in Nat /\ y \in Nat /\ r \in 0 .. Block - 1 /\ l = y + r
    <2>1. q \in Nat /\ r \in 0 .. Block - 1 /\ l = q * Block + r
        BY <1>1, <1>2, DivMod
    <2> QED
        BY <1>1, <1>3, <2>1
<1>5. FlattenSeq(g.s) = FirstOf(m, y)
    <2>1. g.s = Blocks(m)
        BY DEF Represents
    <2> QED
        BY <1>2, <1>3, <2>1, BlocksFlatten
<1>6. PICK e : e = SubSeq(g.buf, 1, r)
    OBVIOUS
<1>7. e = [k \in 1 .. r |-> m[y + k]]
    <2>1. g.buf = [k \in 1 .. Block |-> g.buf[k]]
        BY DEF Represents
    <2>2. PICK V : g.buf \in Seq(V) /\ Len(g.buf) = Block
        BY <1>1, <2>1, FunIsSeq
    <2>3. e = [k \in 1 .. r |-> g.buf[k]]
        BY <1>1, <1>4, <1>6, <2>2
    <2>4. \A k \in 1 .. r : g.buf[k] = m[y + k]
        BY <1>2, <1>3 DEF Represents
    <2> QED
        BY <2>3, <2>4
<1>8. Adjoin(m, y, r, l)
    BY <1>1, <1>2, <1>4 DEF Adjoin
<1>9. FirstOf(m, y) \o [k \in 1 .. r |-> m[y + k]] = FirstOf(m, l)
    BY <1>8, Joins
<1>10. FirstOf(m, l) = m
    BY <1>2 DEF FirstOf
<1>11. g.bytes % Block = r
    BY <1>2 DEF Represents
<1> QED
    BY <1>5, <1>6, <1>7, <1>9, <1>10, <1>11
-----------------------------------------------------------------------------
(* The bytes of a caller.                                                  *)
LEMMA NextBytesFacts ==
    ASSUME NEW from \in Nat, NEW n \in Nat
    PROVE  /\ \E S : NextBytes(from, n) \in Seq(S)
           /\ Len(NextBytes(from, n)) = n
<1>1. PICK b : b = NextBytes(from, n)
    OBVIOUS
<1>2. b = [i \in 1 .. n |-> b[i]]
    BY <1>1 DEF NextBytes
<1>3. b \in Seq({b[i] : i \in 1 .. n}) /\ Len(b) = n
    BY <1>2, FunIsSeq
<1> QED
    BY <1>1, <1>3

Follows(l, n, p) == l \in Nat /\ n \in Nat /\ p = l + n

LEMMA NextBytesJoin ==
    ASSUME NEW l, NEW n, NEW p, Follows(l, n, p)
    PROVE  NextBytes(0, l) \o NextBytes(l, n) = NextBytes(0, p)
<1>1. l \in Nat /\ n \in Nat /\ p \in Nat /\ p = l + n /\ 0 \in Nat
    BY DEF Follows
<1>2. PICK m : m = NextBytes(0, p)
    OBVIOUS
<1>3. PICK S : m \in Seq(S) /\ Len(m) = p
    BY <1>1, <1>2, NextBytesFacts
<1>4. Adjoin(m, l, n, p)
    BY <1>1, <1>3 DEF Adjoin
<1>5. FirstOf(m, l) \o [k \in 1 .. n |-> m[l + k]] = FirstOf(m, p)
    BY <1>3, <1>4, Joins
<1>6. \A k \in 1 .. p : m[k] = <<"data", k>>
    BY <1>1, <1>2 DEF NextBytes
<1>7. FirstOf(m, l) = NextBytes(0, l)
    BY <1>1, <1>6 DEF FirstOf, NextBytes
<1>8. [k \in 1 .. n |-> m[l + k]] = NextBytes(l, n)
    <2>1. \A k \in 1 .. n : l + k \in 1 .. p
        BY <1>1
    <2>2. \A k \in 1 .. n : m[l + k] = <<"data", l + k>>
        BY <1>6, <2>1
    <2> QED
        BY <2>2 DEF NextBytes
<1>9. FirstOf(m, p) = m
    BY <1>2, <1>6 DEF FirstOf, NextBytes
<1> QED
    BY <1>2, <1>5, <1>7, <1>8, <1>9

(* The object stands for something, while it is open for what was written  *)
(* since it was made or reset, and else it ends as a finalized one does.   *)
HInv ==
    /\ \E u : Represents(h, u)
    /\ open => h.bytes \in 0 .. MaxBytes /\ Represents(h, NextBytes(0, h.bytes))
    /\ ~open => \E n \in 0 .. MaxBytes + DigestLen : Leaves(h, n)

(* What is written out when a hash is closed.                              *)
LEMMA Closes ==
    ASSUME BlockHashAssumption, MaxBytes \in Nat, HInv, open,
           NEW m, m = NextBytes(0, h.bytes), NEW f, f = Finalize(h, direct)
    PROVE  /\ f.s = Padded(m) /\ \E u : Represents(f, u)
           /\ \E n \in 0 .. MaxBytes + DigestLen : Leaves(f, n)
<1>1. h.bytes \in 0 .. MaxBytes /\ h.bytes \in Nat /\ 0 \in Nat /\ DigestLen \in Nat
    BY DEF HInv, BlockHashAssumption
<1>2. Represents(h, m)
    BY DEF HInv
<1>3. PICK S : m \in Seq(S) /\ Len(m) = h.bytes
    BY <1>1, NextBytesFacts
<1>4. f.s = Padded(m) /\ \E u : Represents(f, u)
    BY <1>2, <1>3, FinalizeIs
<1>5. Leaves(f, Len(m))
    BY <1>2, <1>3, FinalizeLeaves
<1>6. Len(m) \in 0 .. MaxBytes + DigestLen
    BY <1>1, <1>3
<1> QED
    BY <1>4, <1>5, <1>6

(* The second hash of two, made with an object that stands for nothing.    *)
LEMMA ClosesTwice ==
    ASSUME BlockHashAssumption, MaxBytes \in Nat, NEW s,
           NEW g, Represents(g, <<>>),
           NEW f, f = Finalize(Write(g, DigestBytes(s), direct), direct)
    PROVE  /\ f.s = Padded(DigestBytes(s)) /\ \E u : Represents(f, u)
           /\ \E n \in 0 .. MaxBytes + DigestLen : Leaves(f, n)
<1>1. PICK d : d = DigestBytes(s)
    OBVIOUS
<1>2. DigestLen \in Nat
    BY DEF BlockHashAssumption
<1>3. PICK D : d \in Seq(D)
    BY <1>1, DigestIsBytes
<1>4. Len(d) = DigestLen
    <2>1. d = [i \in 1 .. DigestLen |-> d[i]]
        BY <1>1 DEF DigestBytes
    <2> QED
        BY <1>2, <2>1, FunIsSeq
<1>5. <<>> \in Seq(D) /\ <<>> \o d = d
    BY <1>3
<1>6. PICK w : w = Write(g, d, direct)
    OBVIOUS
<1>7. Represents(w, d)
    BY <1>3, <1>5, <1>6, WriteRepresents
<1>8. f = Finalize(w, direct)
    BY <1>1, <1>6
<1>9. f.s = Padded(d) /\ \E u : Represents(f, u)
    BY <1>3, <1>7, <1>8, FinalizeIs
<1>10. Leaves(f, Len(d))
    BY <1>3, <1>7, <1>8, FinalizeLeaves
<1>11. Len(d) \in 0 .. MaxBytes + DigestLen
    BY <1>2, <1>4
<1> QED
    BY <1>1, <1>9, <1>10, <1>11

(* The message of an open object is what the object stands for.            *)
LEMMA MessageIs ==
    ASSUME BlockHashAssumption, MaxBytes \in Nat, HInv
    PROVE  /\ open => Message = NextBytes(0, h.bytes) /\ Len(Message) = h.bytes
           /\ ~open => Message = <<>>
<1>1. CASE open
    <2>1. h.bytes \in Nat /\ 0 \in Nat /\ Represents(h, NextBytes(0, h.bytes))
        BY <1>1 DEF HInv
    <2>2. PICK m : m = NextBytes(0, h.bytes)
        OBVIOUS
    <2>3. PICK S : m \in Seq(S) /\ Len(m) = h.bytes
        BY <2>1, <2>2, NextBytesFacts
    <2>4. Taken = m
        BY <2>1, <2>2, <2>3, TakenIs DEF Taken
    <2> QED
        BY <1>1, <2>2, <2>3, <2>4 DEF Message
<1>2. CASE ~open
    BY <1>2 DEF Message
<1> QED
    BY <1>1, <1>2
-----------------------------------------------------------------------------
(* The words of the promise are those of the object.                       *)
LEMMA SameHashes ==
    ASSUME NEW m
    PROVE  Promise!Padded(m) = Padded(m) /\ Promise!Twice(m) = Twice(m)
<1>1. ASSUME NEW x PROVE Promise!Padded(x) = Padded(x)
    BY DEF Promise!Padded, Padded, Promise!LengthBytes, LengthBytes,
           Promise!Piece, Piece, Promise!One, One, Promise!Zero, Zero,
           Promise!Min, Min
<1>2. ASSUME NEW x PROVE Promise!DigestBytes(x) = DigestBytes(x)
    BY DEF Promise!DigestBytes, DigestBytes
<1> QED
    BY <1>1, <1>2 DEF Promise!Twice, Twice

Steps == HInv' /\ [Promise!Next]_<<Message, digest>>

LEMMA InitHInv ==
    ASSUME BlockHashAssumption, MaxBytes \in Nat, Init
    PROVE  HInv /\ Promise!Init
<1>1. Represents(h, <<>>) /\ open
    BY NewRepresents DEF Init
<1>2. h.bytes = 0 /\ NextBytes(0, 0) = <<>>
    BY <1>1 DEF Represents, NextBytes
<1>3. HInv
    BY <1>1, <1>2 DEF HInv
<1>4. Message = <<>>
    BY <1>1, <1>2, <1>3, MessageIs
<1> QED
    BY <1>3, <1>4 DEF Init, Promise!Init

LEMMA WriteSteps ==
    ASSUME BlockHashAssumption, MaxBytes \in Nat, HInv, WriteBytes
    PROVE  Steps
<1>1. PICK n \in 0 .. MaxBytes - h.bytes : h' = Write(h, NextBytes(h.bytes, n), direct)
    BY DEF WriteBytes
<1>2. open /\ open' /\ digest' = digest
    BY DEF WriteBytes
<1>3. PICK l : l = h.bytes
    OBVIOUS
<1>4. l \in 0 .. MaxBytes /\ n \in Nat /\ l \in Nat /\ 0 \in Nat
      /\ Represents(h, NextBytes(0, l)) /\ l + n \in 0 .. MaxBytes
    BY <1>1, <1>2, <1>3 DEF HInv
<1>5. PICK p : p = l + n
    OBVIOUS
<1>6. PICK S, R : NextBytes(0, l) \in Seq(S) /\ NextBytes(l, n) \in Seq(R)
    BY <1>4, NextBytesFacts
<1>7. Represents(h', NextBytes(0, l) \o NextBytes(l, n))
    BY <1>1, <1>3, <1>4, <1>6, WriteRepresents
<1>8. NextBytes(0, l) \o NextBytes(l, n) = NextBytes(0, p)
    BY <1>4, <1>5, NextBytesJoin DEF Follows
<1>9. h'.bytes = p
    <2>1. Len(NextBytes(0, p)) = p
        BY <1>4, <1>5, NextBytesFacts
    <2> QED
        BY <1>7, <1>8, <2>1 DEF Represents
<1>10. HInv'
    BY <1>2, <1>4, <1>5, <1>7, <1>8, <1>9 DEF HInv
<1>11. Message = NextBytes(0, l) /\ Len(Message) = l
    BY <1>2, <1>3, MessageIs
<1>12. Message' = NextBytes(0, p)
    <2>1. PICK m, V : m = NextBytes(0, p) /\ m \in Seq(V)
        BY <1>4, <1>5, NextBytesFacts
    <2>2. Represents(h', m)
        BY <1>7, <1>8, <2>1
    <2>3. FlattenSeq(h'.s) \o SubSeq(h'.buf, 1, h'.bytes % Block) = m
        BY <2>1, <2>2, TakenIs
    <2> QED
        BY <1>2, <2>1, <2>3 DEF Message, Taken
<1>13. NextBytes(l, n) \in Chunks(Message)
    BY <1>1, <1>3, <1>11 DEF Chunks
<1>14. Promise!Add
    BY <1>2, <1>8, <1>11, <1>12, <1>13 DEF Promise!Add
<1> QED
    BY <1>10, <1>14 DEF Steps, Promise!Next

LEMMA FinalizeSteps ==
    ASSUME BlockHashAssumption, MaxBytes \in Nat, HInv,
           FinalizeHash \/ FinalizeTwice \/ FinalizeHash160
    PROVE  Steps
<1>1. open /\ ~open' /\ Message' = <<>>
    BY DEF FinalizeHash, FinalizeTwice, FinalizeHash160, Message
<1>2. PICK m : m = NextBytes(0, h.bytes)
    OBVIOUS
<1>3. Message = m
    BY <1>1, <1>2, MessageIs
<1>4. PICK f : f = Finalize(h, direct)
    OBVIOUS
<1>5. /\ f.s = Padded(m) /\ \E u : Represents(f, u)
      /\ \E n \in 0 .. MaxBytes + DigestLen : Leaves(f, n)
    BY <1>1, <1>2, <1>4, Closes
<1>6. Promise!Padded(m) = Padded(m) /\ Promise!Twice(m) = Twice(m)
    BY SameHashes
<1>7. Padded(DigestBytes(f.s)) = Twice(m)
    BY <1>5 DEF Twice
<1>8. CASE FinalizeHash
    <2>1. h' = f /\ digest' = f.s
        BY <1>4, <1>8 DEF FinalizeHash
    <2>2. HInv'
        BY <1>1, <1>5, <2>1 DEF HInv
    <2>3. Promise!Close(Promise!Padded(Message))
        BY <1>1, <1>3, <1>5, <1>6, <2>1 DEF Promise!Close
    <2> QED
        BY <2>2, <2>3 DEF Steps, Promise!Next
<1>9. CASE FinalizeTwice
    <2>1. PICK g : g = Reset(f)
        OBVIOUS
    <2>2. Represents(g, <<>>)
        BY <1>5, <2>1, ResetRepresents
    <2>3. h' = Finalize(Write(g, DigestBytes(f.s), direct), direct) /\ digest' = h'.s
        BY <1>4, <1>9, <2>1 DEF FinalizeTwice
    <2>4. /\ h'.s = Padded(DigestBytes(f.s)) /\ \E u : Represents(h', u)
          /\ \E n \in 0 .. MaxBytes + DigestLen : Leaves(h', n)
        BY <2>2, <2>3, ClosesTwice
    <2>5. HInv'
        BY <1>1, <2>4 DEF HInv
    <2>6. Promise!Close(Promise!Twice(Message))
        BY <1>1, <1>3, <1>6, <1>7, <2>3, <2>4 DEF Promise!Close
    <2> QED
        BY <2>5, <2>6 DEF Steps, Promise!Next
<1>10. CASE FinalizeHash160
    <2>1. h' = f
        BY <1>4, <1>10 DEF FinalizeHash160
    <2>2. PICK e : e = Finalize(Write(NewHash, DigestBytes(f.s), direct), direct)
        OBVIOUS
    <2>3. digest' = e.s
        BY <1>10, <2>1, <2>2 DEF FinalizeHash160
    <2>4. e.s = Padded(DigestBytes(f.s))
        BY <2>2, NewRepresents, ClosesTwice
    <2>5. HInv'
        BY <1>1, <1>5, <2>1 DEF HInv
    <2>6. Promise!Close(Promise!Twice(Message))
        BY <1>1, <1>3, <1>6, <1>7, <2>3, <2>4 DEF Promise!Close
    <2> QED
        BY <2>5, <2>6 DEF Steps, Promise!Next
<1> QED
    BY <1>8, <1>9, <1>10

LEMMA ResetSteps ==
    ASSUME BlockHashAssumption, MaxBytes \in Nat, HInv, ResetHash
    PROVE  Steps
<1>1. h' = Reset(h) /\ open' /\ digest' = digest
    BY DEF ResetHash
<1>2. Represents(h', <<>>)
    BY <1>1, ResetRepresents DEF HInv
<1>3. h'.bytes = 0 /\ NextBytes(0, 0) = <<>>
    BY <1>2 DEF Represents, NextBytes
<1>4. HInv'
    BY <1>1, <1>2, <1>3 DEF HInv
<1>5. FlattenSeq(h'.s) \o SubSeq(h'.buf, 1, h'.bytes % Block) = <<>>
    <2>1. <<>> \in Seq({})
        OBVIOUS
    <2> QED
        BY <1>2, <2>1, TakenIs
<1>6. Message' = <<>>
    BY <1>1, <1>5 DEF Message, Taken
<1> QED
    BY <1>1, <1>4, <1>6 DEF Steps, Promise!Next

LEMMA NextSteps ==
    ASSUME BlockHashAssumption, MaxBytes \in Nat
    PROVE  HInv /\ [Next]_vars => Steps
<1> SUFFICES ASSUME HInv, [Next]_vars PROVE Steps
    OBVIOUS
<1>1. CASE Next
    BY <1>1, WriteSteps, FinalizeSteps, ResetSteps DEF Next
<1>2. CASE UNCHANGED vars
    BY <1>2 DEF vars, HInv, Steps, Message, Taken
<1> QED
    BY <1>1, <1>2

(* However a message is cut into writes, and whatever the buffer held      *)
(* before, an object keeps the promise of Hasher: CSHA256 and its like,    *)
(* CHash256, CHash160 and secp256k1_sha256, for blocks of any size.        *)
THEOREM HashKeepsPromise ==
    ASSUME BlockHashAssumption, MaxBytes \in Nat
    PROVE  Spec => Promise!Spec
<1>1. Init => HInv /\ Promise!Init
    BY InitHInv
<1>2. HInv /\ [Next]_vars => HInv' /\ [Promise!Next]_<<Message, digest>>
    BY NextSteps DEF Steps
<1> QED
    BY <1>1, <1>2, PTL DEF Spec, Promise!Spec

(* A finalized object has absorbed whole blocks, no more of them than the  *)
(* message, the one and the length take.                                   *)
THEOREM NothingIsLeft ==
    ASSUME BlockHashAssumption, MaxBytes \in Nat
    PROVE  Spec => []NothingLeft
<1>1. Init => HInv
    BY InitHInv
<1>2. HInv /\ [Next]_vars => HInv'
    BY NextSteps DEF Steps
<1>3. HInv => NothingLeft
    BY DEF HInv, NothingLeft, Leaves
<1> QED
    BY <1>1, <1>2, <1>3, PTL DEF Spec
=============================================================================
