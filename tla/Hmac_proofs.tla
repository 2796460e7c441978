---------------------------- MODULE Hmac_proofs ----------------------------
(***************************************************************************)
(* HMAC, for keys, messages and blocks of any length.                      *)
(***************************************************************************)
EXTENDS Hmac, BlockHash_proofs

vars == <<direct, keylen, inner, outer, written, digest>>

Spec == Init /\ [][Next]_vars

(* The key of n bytes as the standard has it: hashed if it is too long,    *)
(* and a block with zeros; and a block of bytes masked.                    *)
Short(n) == IF n > Block THEN DigestBytes(Padded(KeyBytes(n))) ELSE KeyBytes(n)
Wide(k) == k \o [i \in 1 .. Block - Len(k) |-> Zero]
Masked(n, mask) == Xor(Plain(Wide(Short(n))), mask)

(* What the proofs need to know of a key in a block.                       *)
Key(k) == k = [i \in 1 .. Block |-> k[i]] /\ \A i \in 1 .. Block : k[i] # Junk

LEMMA KeyBytesFacts ==
    ASSUME NEW n \in Nat
    PROVE  /\ \E S : KeyBytes(n) \in Seq(S)
           /\ Len(KeyBytes(n)) = n
<1>1. PICK b : b = KeyBytes(n)
    OBVIOUS
<1>2. b = [i \in 1 .. n |-> b[i]]
    BY <1>1 DEF KeyBytes
<1>3. b \in Seq({b[i] : i \in 1 .. n}) /\ Len(b) = n
    BY <1>2, FunIsSeq
<1> QED
    BY <1>1, <1>3

LEMMA ShortFacts ==
    ASSUME BlockHashAssumption, NEW n \in Nat, NEW k, k = Short(n)
    PROVE  /\ \E S : k \in Seq(S)
           /\ Len(k) \in Nat /\ Len(k) <= Block
           /\ \A i \in 1 .. Len(k) : k[i] # Junk
<1>1. DigestLen \in Nat /\ DigestLen <= Block /\ Block \in Nat
    BY DEF BlockHashAssumption
<1>2. CASE n > Block
    <2>1. PICK s : s = Padded(KeyBytes(n))
        OBVIOUS
    <2>2. k = DigestBytes(s)
        BY <1>2, <2>1 DEF Short
    <2>3. k = [i \in 1 .. DigestLen |-> <<"digest", s, i>>]
        BY <2>2 DEF DigestBytes
    <2>4. k = [i \in 1 .. DigestLen |-> k[i]]
        BY <2>3
    <2>5. k \in Seq({k[i] : i \in 1 .. DigestLen}) /\ Len(k) = DigestLen
        BY <1>1, <2>4, FunIsSeq
    <2>6. \A i \in 1 .. DigestLen : k[i] # Junk
        BY <2>3 DEF Junk
    <2> QED
        BY <1>1, <2>5, <2>6
<1>3. CASE ~(n > Block)
    <2>1. k = KeyBytes(n)
        BY <1>3 DEF Short
    <2>2. \A i \in 1 .. n : k[i] # Junk
        BY <2>1 DEF KeyBytes, Junk
    <2>3. Len(k) = n /\ \E S : k \in Seq(S)
        BY <2>1, KeyBytesFacts
    <2>4. n <= Block
        BY <1>1, <1>3
    <2> QED
        BY <2>2, <2>3, <2>4
<1> QED
    BY <1>2, <1>3

(* A block of zeros that something is copied into.                         *)
LEMMA WideIs ==
    ASSUME BlockHashAssumption, NEW S, NEW k \in Seq(S), Len(k) <= Block
    PROVE  /\ Wide(k) = [i \in 1 .. Block |-> IF i <= Len(k) THEN k[i] ELSE Zero]
           /\ Fill([i \in 1 .. Block |-> Zero], 0, k) = Wide(k)
<1>1. PICK l, e : l = Len(k) /\ e = Block - l
    OBVIOUS
<1>2. Block \in Nat /\ l \in Nat /\ l <= Block /\ e \in Nat /\ l + e = Block
    BY <1>1 DEF BlockHashAssumption
<1>3. PICK z, w : z = [i \in 1 .. e |-> Zero] /\ w = k \o z
    OBVIOUS
<1>4. PICK Z : z \in Seq(Z) /\ Len(z) = e
    <2>1. z = [i \in 1 .. e |-> z[i]]
        BY <1>3
    <2> QED
        BY <1>2, <2>1, FunIsSeq
<1>5. /\ w \in Seq(S \cup Z) /\ Len(w) = Len(k) + Len(z)
      /\ \A i \in 1 .. Len(k) : w[i] = k[i]
      /\ \A i \in 1 .. Len(z) : w[Len(k) + i] = z[i]
    <2>1. z \in Seq(Z) /\ w = k \o z
        BY <1>3, <1>4
    <2> QED
        BY <2>1, Concatenated
<1>6. w = [i \in 1 .. Block |-> w[i]]
    BY <1>1, <1>2, <1>4, <1>5
<1>7. ASSUME NEW i \in 1 .. Block
      PROVE  w[i] = IF i <= l THEN k[i] ELSE Zero
    <2>1. CASE i <= l
        BY <1>1, <1>2, <1>5, <2>1
    <2>2. CASE ~(i <= l)
        <3>1. PICK j : j = i - l
            OBVIOUS
        <3>2. j \in 1 .. e /\ l + j = i
            BY <1>2, <2>2, <3>1
        <3>3. w[l + j] = z[j] /\ z[j] = Zero
            BY <1>1, <1>3, <1>4, <1>5, <3>2
        <3> QED
            BY <2>2, <3>2, <3>3
    <2> QED
        BY <2>1, <2>2
<1>8. w = Wide(k)
    BY <1>1, <1>3 DEF Wide
<1>9. w = [i \in 1 .. Block |-> IF i <= l THEN k[i] ELSE Zero]
    BY <1>6, <1>7
<1>10. \A i \in 1 .. Block : (0 < i /\ i <= 0 + l <=> i <= l) /\ i - 0 = i
    BY <1>2
<1>11. Fill([i \in 1 .. Block |-> Zero], 0, k)
       = [i \in 1 .. Block |-> IF i <= l THEN k[i] ELSE Zero]
    BY <1>1, <1>10 DEF Fill
<1> QED
    BY <1>1, <1>8, <1>9, <1>11

(* The masked keys of the code are those of the standard: the first mask   *)
(* comes off when the second is put on.                                    *)
LEMMA MasksAre ==
    ASSUME BlockHashAssumption, NEW n \in Nat, NEW way,
           NEW masks, masks = Masks(Plain(BlockKey(n, way)))
    PROVE  /\ masks.outer = Masked(n, {92}) /\ masks.inner = Masked(n, {54})
           /\ \E k : /\ Key(k)
                     /\ Masked(n, {92}) = [i \in 1 .. Block |-> <<k[i], {92}>>]
                     /\ Masked(n, {54}) = [i \in 1 .. Block |-> <<k[i], {54}>>]
<1>1. PICK s : s = Short(n)
    OBVIOUS
<1>2. PICK S : s \in Seq(S) /\ Len(s) \in Nat /\ Len(s) <= Block
    BY <1>1, ShortFacts
<1>3. \A i \in 1 .. Len(s) : s[i] # Junk
    BY <1>1, ShortFacts
<1>4. PICK k : k = Wide(s)
    OBVIOUS
<1>5. k = [i \in 1 .. Block |-> IF i <= Len(s) THEN s[i] ELSE Zero]
    BY <1>2, <1>4, WideIs
<1>6. Key(k)
    <2>1. Block \in Nat
        BY DEF BlockHashAssumption
    <2>2. Zero # Junk
        BY DEF Zero, Junk
    <2> QED
        BY <1>2, <1>3, <1>5, <2>1, <2>2 DEF Key
<1>7. BlockKey(n, way) = k
    <2>1. PICK b, h : b = KeyBytes(n) /\ h = Finalize(Write(NewHash, KeyBytes(n), way), way).s
        OBVIOUS
    <2>2. PICK B : b \in Seq(B)
        BY <2>1, KeyBytesFacts
    <2>3. Represents(NewHash, <<>>)
        BY NewRepresents
    <2>4. Finalize(Write(NewHash, b, way), way).s = Padded(b)
        BY <2>2, <2>3, HashOf
    <2>5. h = Padded(b)
        BY <2>1, <2>4
    <2>6. s = IF n > Block THEN DigestBytes(h) ELSE KeyBytes(n)
        BY <1>1, <2>1, <2>5 DEF Short
    <2>7. BlockKey(n, way) = Fill([i \in 1 .. Block |-> Zero], 0, s)
        BY <2>1, <2>6 DEF BlockKey
    <2> QED
        BY <1>2, <1>4, <2>7, WideIs
<1>8. PICK p : p = Plain(k)
    OBVIOUS
<1>9. p = [i \in 1 .. Block |-> <<k[i], {}>>]
    BY <1>5, <1>8 DEF Plain
<1>10. /\ SymDiff({}, {92}) = {92} /\ SymDiff({}, {54}) = {54}
       /\ SymDiff({92}, SymDiff({92}, {54})) = {54}
    BY DEF SymDiff
<1>11. PICK o : o = Xor(p, {92})
    OBVIOUS
<1>12. o = [i \in 1 .. Block |-> <<k[i], {92}>>]
    BY <1>9, <1>10, <1>11 DEF Xor
<1>13. Xor(p, {54}) = [i \in 1 .. Block |-> <<k[i], {54}>>]
    BY <1>9, <1>10 DEF Xor
<1>14. Xor(o, SymDiff({92}, {54})) = [i \in 1 .. Block |-> <<k[i], {54}>>]
    BY <1>10, <1>12 DEF Xor
<1>15. masks.outer = o /\ masks.inner = Xor(o, SymDiff({92}, {54}))
    BY <1>7, <1>8, <1>11 DEF Masks
<1>16. Masked(n, {92}) = o /\ Masked(n, {54}) = Xor(p, {54})
    BY <1>1, <1>4, <1>8, <1>11 DEF Masked
<1>17. Masked(n, {92}) = [i \in 1 .. Block |-> <<k[i], {92}>>]
    BY <1>12, <1>16
<1>18. Masked(n, {54}) = [i \in 1 .. Block |-> <<k[i], {54}>>]
    BY <1>13, <1>16
<1>19. masks.outer = Masked(n, {92}) /\ masks.inner = Masked(n, {54})
    BY <1>13, <1>14, <1>15, <1>16
<1> HIDE DEF Key, Masked
<1> QED
    BY <1>6, <1>17, <1>18, <1>19, Zenon
-----------------------------------------------------------------------------
(* The first block of what an object stands for.                           *)
Begins(u, k) ==
    /\ \E S : u \in Seq(S)
    /\ Len(u) >= Block
    /\ \A i \in 1 .. Block : u[i] = k[i]

LEMMA AppendBegins ==
    ASSUME BlockHashAssumption, NEW u, NEW k, Begins(u, k), NEW S, NEW t \in Seq(S)
    PROVE  Begins(u \o t, k)
<1>1. Block \in Nat
    BY DEF BlockHashAssumption
<1>2. PICK R : u \in Seq(R)
    BY DEF Begins
<1>3. PICK w : w = u \o t
    OBVIOUS
<1>4. /\ w \in Seq(R \cup S) /\ Len(w) = Len(u) + Len(t)
      /\ \A i \in 1 .. Len(u) : w[i] = u[i]
    BY <1>2, <1>3, Concatenated
<1>5. Len(u) \in Nat /\ Len(t) \in Nat /\ Len(u) >= Block
    BY <1>2 DEF Begins
<1>6. Len(w) >= Block
    BY <1>1, <1>4, <1>5
<1>7. \A i \in 1 .. Block : w[i] = k[i]
    <2>1. \A i \in 1 .. Block : i \in 1 .. Len(u)
        BY <1>1, <1>5
    <2> QED
        BY <1>4, <2>1 DEF Begins
<1> QED
    BY <1>3, <1>4, <1>6, <1>7 DEF Begins

LEMMA EndedBegins ==
    ASSUME BlockHashAssumption, NEW u, NEW k, Begins(u, k), NEW z \in Nat
    PROVE  Begins(Ended(u, z), k)
<1>1. PICK one, zeros, end :
        /\ one = <<One>> /\ zeros = [i \in 1 .. z |-> Zero] /\ end = LengthBytes(Len(u))
    OBVIOUS
<1>2. one \in Seq({One})
    BY <1>1
<1>3. PICK Z : zeros \in Seq(Z)
    <2>1. zeros = [i \in 1 .. z |-> zeros[i]]
        BY <1>1
    <2>2. zeros \in Seq({zeros[i] : i \in 1 .. z})
        BY <2>1, FunIsSeq
    <2> QED
        BY <2>2
<1>4. PICK E : end \in Seq(E)
    <2>1. LengthLen \in Nat
        BY DEF BlockHashAssumption
    <2>2. end = [i \in 1 .. LengthLen |-> end[i]]
        BY <1>1 DEF LengthBytes
    <2>3. end \in Seq({end[i] : i \in 1 .. LengthLen})
        BY <2>1, <2>2, FunIsSeq
    <2> QED
        BY <2>3
<1>5. Begins(u \o one, k)
    BY <1>2, AppendBegins
<1>6. Begins((u \o one) \o zeros, k)
    BY <1>3, <1>5, AppendBegins
<1>7. Begins(((u \o one) \o zeros) \o end, k)
    BY <1>4, <1>6, AppendBegins
<1> QED
    BY <1>1, <1>7 DEF Ended

LEMMA FirstBlock ==
    ASSUME BlockHashAssumption, NEW h, NEW u, Represents(h, u), NEW k, Begins(u, k)
    PROVE  h.s[1] = [i \in 1 .. Block |-> k[i]]
<1>1. PICK S : u \in Seq(S)
    BY DEF Begins
<1>2. PICK l, q : l = Len(u) /\ q = l \div Block
    OBVIOUS
<1>3. Block \in Nat \ {0} /\ l \in Nat /\ l >= Block
    BY <1>1, <1>2 DEF BlockHashAssumption, Begins
<1>4. q \in Nat /\ q # 0
    <2>1. q \in Nat /\ l % Block \in 0 .. Block - 1 /\ l = q * Block + (l % Block)
        BY <1>2, <1>3, DivMod
    <2>2. ASSUME q = 0 PROVE FALSE
        <3>1. q * Block = 0
            BY <1>3, <2>2
        <3> QED
            BY <1>3, <2>1, <3>1
    <2> QED
        BY <2>1, <2>2
<1>5. h.s = [i \in 1 .. q |-> [j \in 1 .. Block |-> u[(i - 1) * Block + j]]]
    BY <1>1, <1>2, BlocksAre DEF Represents
<1>6. 1 \in 1 .. q
    BY <1>4
<1>7. h.s[1] = [j \in 1 .. Block |-> u[(1 - 1) * Block + j]]
    BY <1>5, <1>6
<1>8. \A j \in 1 .. Block : (1 - 1) * Block + j = j
    BY <1>3
<1>9. h.s[1] = [j \in 1 .. Block |-> u[j]]
    BY <1>7, <1>8
<1> QED
    BY <1>9 DEF Begins
-----------------------------------------------------------------------------
LEMMA DataBytesFacts ==
    ASSUME NEW from \in Nat, NEW n \in Nat
    PROVE  \E S : DataBytes(from, n) \in Seq(S)
<1>1. PICK b : b = DataBytes(from, n)
    OBVIOUS
<1>2. b = [i \in 1 .. n |-> b[i]]
    BY <1>1 DEF DataBytes
<1>3. b \in Seq({b[i] : i \in 1 .. n})
    BY <1>2, FunIsSeq
<1> QED
    BY <1>1, <1>3

Follows(l, n, p) == l \in Nat /\ n \in Nat /\ p = l + n

LEMMA DataBytesJoin ==
    ASSUME NEW l, NEW n, NEW p, Follows(l, n, p)
    PROVE  DataBytes(0, l) \o DataBytes(l, n) = DataBytes(0, p)
<1>1. l \in Nat /\ n \in Nat /\ p \in Nat /\ p = l + n
    BY DEF Follows
<1>2. PICK f, g, u : f = DataBytes(0, l) /\ g = DataBytes(l, n) /\ u = f \o g
    OBVIOUS
<1>3. f = [i \in 1 .. l |-> <<"data", i>>] /\ g = [i \in 1 .. n |-> <<"data", l + i>>]
    BY <1>1, <1>2 DEF DataBytes
<1>4. PICK F, G : f \in Seq(F) /\ g \in Seq(G) /\ Len(f) = l /\ Len(g) = n
    <2>1. f = [i \in 1 .. l |-> f[i]] /\ g = [i \in 1 .. n |-> g[i]]
        BY <1>3
    <2> QED
        BY <1>1, <2>1, FunIsSeq
<1>5. /\ u \in Seq(F \cup G) /\ Len(u) = Len(f) + Len(g)
      /\ \A i \in 1 .. Len(f) : u[i] = f[i]
      /\ \A i \in 1 .. Len(g) : u[Len(f) + i] = g[i]
    <2>1. f \in Seq(F) /\ g \in Seq(G) /\ u = f \o g
        BY <1>2, <1>4
    <2> QED
        BY <2>1, Concatenated
<1>6. u = [i \in 1 .. p |-> u[i]]
    BY <1>1, <1>4, <1>5
<1>7. ASSUME NEW i \in 1 .. p
      PROVE  u[i] = <<"data", i>>
    <2>1. CASE i <= l
        <3>1. i \in 1 .. l
            BY <1>1, <2>1
        <3> QED
            BY <1>3, <1>4, <1>5, <3>1
    <2>2. CASE ~(i <= l)
        <3>1. PICK j : j = i - l
            OBVIOUS
        <3>2. j \in 1 .. n /\ i = l + j
            BY <1>1, <2>2, <3>1
        <3>3. g[j] = <<"data", l + j>>
            BY <1>3, <3>2
        <3>4. u[l + j] = g[j]
            BY <1>4, <1>5, <3>2
        <3> QED
            BY <3>2, <3>3, <3>4
    <2> QED
        BY <2>1, <2>2
<1>8. DataBytes(0, p) = [i \in 1 .. p |-> <<"data", i>>]
    BY <1>1 DEF DataBytes
<1> QED
    BY <1>2, <1>6, <1>7, <1>8
-----------------------------------------------------------------------------
InnerKey == Masked(keylen, {54})
OuterKey == Masked(keylen, {92})

(* Both objects stand for something that begins with their key: while the  *)
(* digest is not written, for the key and the message, and for the key.    *)
KeyIn(g, k) == \E u : Represents(g, u) /\ Begins(u, k)

HInv ==
    /\ keylen \in Nat /\ written \in Nat
    /\ KeyIn(inner, InnerKey) /\ KeyIn(outer, OuterKey)
    /\ digest = <<>> =>
          /\ Represents(inner, InnerKey \o DataBytes(0, written))
          /\ Represents(outer, OuterKey)
    /\ IsHmac

LEMMA KeyFacts ==
    ASSUME BlockHashAssumption, NEW n \in Nat
    PROVE  \A x \in {54, 92} :
              /\ \E S : Masked(n, {x}) \in Seq(S)
              /\ Begins(Masked(n, {x}), Masked(n, {x}))
<1>1. PICK k : /\ Masked(n, {92}) = [i \in 1 .. Block |-> <<k[i], {92}>>]
               /\ Masked(n, {54}) = [i \in 1 .. Block |-> <<k[i], {54}>>]
    <2>1. PICK masks : masks = Masks(Plain(BlockKey(n, TRUE)))
        OBVIOUS
    <2>2. \E k : /\ Key(k)
                 /\ Masked(n, {92}) = [i \in 1 .. Block |-> <<k[i], {92}>>]
                 /\ Masked(n, {54}) = [i \in 1 .. Block |-> <<k[i], {54}>>]
        BY <2>1, MasksAre, Zenon
    <2> QED
        BY <2>2, Zenon
<1>2. Block \in Nat
    BY DEF BlockHashAssumption
<1> TAKE x \in {54, 92}
<1>3. PICK m : m = Masked(n, {x})
    OBVIOUS
<1>4. m = [i \in 1 .. Block |-> m[i]]
    <2>1. CASE x = 92
        <3>1. m = [i \in 1 .. Block |-> <<k[i], {92}>>]
            BY <1>1, <1>3, <2>1
        <3> QED
            BY <3>1
    <2>2. CASE x = 54
        <3>1. m = [i \in 1 .. Block |-> <<k[i], {54}>>]
            BY <1>1, <1>3, <2>2
        <3> QED
            BY <3>1
    <2> QED
        BY <2>1, <2>2
<1>5. m \in Seq({m[i] : i \in 1 .. Block}) /\ Len(m) = Block
    BY <1>2, <1>4, FunIsSeq
<1>6. Begins(m, m)
    BY <1>2, <1>5 DEF Begins
<1> QED
    BY <1>3, <1>5, <1>6

LEMMA KeysApartFrom ==
    ASSUME BlockHashAssumption, HInv
    PROVE  KeysApart
<1>1. PICK k : /\ Key(k)
               /\ OuterKey = [i \in 1 .. Block |-> <<k[i], {92}>>]
               /\ InnerKey = [i \in 1 .. Block |-> <<k[i], {54}>>]
    BY MasksAre DEF HInv, InnerKey, OuterKey
<1>2. PICK a, b : a = inner.s[1] /\ b = outer.s[1]
    OBVIOUS
<1>3. a = [i \in 1 .. Block |-> InnerKey[i]] /\ b = [i \in 1 .. Block |-> OuterKey[i]]
    BY <1>2, FirstBlock DEF HInv, KeyIn
<1>4. \A i \in 1 .. Block : a[i] = <<k[i], {54}>> /\ b[i] = <<k[i], {92}>>
    BY <1>1, <1>3
<1>5. a # b
    <2>1. 1 \in 1 .. Block
        BY DEF BlockHashAssumption
    <2>2. a[1] = <<k[1], {54}>> /\ b[1] = <<k[1], {92}>>
        BY <1>4, <2>1
    <2>3. {54} # {92}
        OBVIOUS
    <2> QED
        BY <2>2, <2>3
<1>6. \A i \in 1 .. Block : k[i] # Junk
    BY <1>1 DEF Key
<1>7. \A i \in 1 .. Block :
         /\ b[i][2] = {92} /\ a[i][2] = {54}
         /\ b[i][1] = a[i][1] /\ b[i][1] # Junk
    BY <1>4, <1>6
<1> QED
    BY <1>2, <1>5, <1>7 DEF KeysApart

(* What the standard says, in the words above.                             *)
LEMMA HmacIs ==
    ASSUME BlockHashAssumption, NEW n \in Nat, NEW data
    PROVE  HmacOf(KeyBytes(n), data) =
             Padded(Masked(n, {92}) \o DigestBytes(Padded(Masked(n, {54}) \o data)))
<1>1. Len(KeyBytes(n)) = n
    BY KeyBytesFacts
<1>2. Short(n) = IF Len(KeyBytes(n)) > Block THEN DigestBytes(Padded(KeyBytes(n)))
                 ELSE KeyBytes(n)
    BY <1>1 DEF Short
<1> QED
    BY <1>2 DEF HmacOf, Masked, Wide

LEMMA InitHInv ==
    ASSUME BlockHashAssumption, MaxKey \in Nat, Init
    PROVE  HInv
<1>1. keylen \in Nat /\ written = 0 /\ digest = <<>>
    BY DEF Init
<1>2. PICK masks : masks = Masks(Plain(BlockKey(keylen, direct)))
    OBVIOUS
<1>3. outer = Write(NewHash, masks.outer, direct) /\ inner = Write(NewHash, masks.inner, direct)
    BY <1>2 DEF Init
<1>4. masks.outer = OuterKey /\ masks.inner = InnerKey
    BY <1>1, <1>2, MasksAre DEF OuterKey, InnerKey
<1>5. PICK S, R : InnerKey \in Seq(S) /\ OuterKey \in Seq(R)
    BY <1>1, KeyFacts DEF OuterKey, InnerKey
<1>6. Begins(InnerKey, InnerKey) /\ Begins(OuterKey, OuterKey)
    BY <1>1, KeyFacts DEF OuterKey, InnerKey
<1>7. \A T : \A x \in Seq(T) : <<>> \in Seq(T) /\ <<>> \o x = x /\ x \o <<>> = x
    OBVIOUS
<1>8. Represents(Write(NewHash, InnerKey, direct), <<>> \o InnerKey)
    BY <1>5, <1>7, NewRepresents, WriteRepresents
<1>9. Represents(Write(NewHash, OuterKey, direct), <<>> \o OuterKey)
    BY <1>5, <1>7, NewRepresents, WriteRepresents
<1>10. Represents(inner, InnerKey) /\ Represents(outer, OuterKey)
    BY <1>3, <1>4, <1>5, <1>7, <1>8, <1>9
<1>11. DataBytes(0, 0) = <<>>
    BY DEF DataBytes
<1>12. InnerKey \o DataBytes(0, 0) = InnerKey
    BY <1>5, <1>7, <1>11
<1> QED
    BY <1>1, <1>6, <1>10, <1>12 DEF HInv, KeyIn, IsHmac

LEMMA WriteHInv ==
    ASSUME BlockHashAssumption, MaxBytes \in Nat, HInv, WriteBytes
    PROVE  HInv'
<1>1. PICK n \in 1 .. MaxBytes - written :
        /\ inner' = Write(inner, DataBytes(written, n), direct)
        /\ written' = written + n
    BY DEF WriteBytes
<1>2. /\ digest = <<>> /\ digest' = digest /\ outer' = outer
      /\ keylen' = keylen /\ InnerKey' = InnerKey /\ OuterKey' = OuterKey
    BY DEF WriteBytes, InnerKey, OuterKey
<1>3. written \in Nat /\ n \in Nat /\ keylen \in Nat /\ 0 \in Nat
    BY <1>1 DEF HInv
<1>4. PICK w : w = written
    OBVIOUS
<1>5. PICK S : InnerKey \in Seq(S)
    BY <1>3, KeyFacts DEF InnerKey
<1>6. PICK A, B : DataBytes(0, w) \in Seq(A) /\ DataBytes(w, n) \in Seq(B)
    BY <1>3, <1>4, DataBytesFacts
<1>7. Represents(inner, InnerKey \o DataBytes(0, w))
    BY <1>2, <1>4 DEF HInv
<1>8. PICK U : InnerKey \o DataBytes(0, w) \in Seq(U)
    <2>1. PICK x : x = InnerKey \o DataBytes(0, w)
        OBVIOUS
    <2>2. x \in Seq(S \cup A)
        BY <1>5, <1>6, <2>1, Concatenated
    <2> QED
        BY <2>1, <2>2
<1>9. Represents(inner', (InnerKey \o DataBytes(0, w)) \o DataBytes(w, n))
    BY <1>1, <1>4, <1>6, <1>7, <1>8, WriteRepresents
<1>10. PICK p : p = w + n
    OBVIOUS
<1>11. DataBytes(0, w) \o DataBytes(w, n) = DataBytes(0, p)
    <2>1. Follows(w, n, p)
        BY <1>3, <1>4, <1>10 DEF Follows
    <2> QED
        BY <2>1, DataBytesJoin
<1>12. (InnerKey \o DataBytes(0, w)) \o DataBytes(w, n)
       = InnerKey \o (DataBytes(0, w) \o DataBytes(w, n))
    <2>1. PICK x, y, z : x = InnerKey /\ y = DataBytes(0, w) /\ z = DataBytes(w, n)
        OBVIOUS
    <2>2. PICK V : V = S \cup A \cup B
        OBVIOUS
    <2>3. x \in Seq(V) /\ y \in Seq(V) /\ z \in Seq(V)
        BY <1>5, <1>6, <2>1, <2>2
    <2>4. (x \o y) \o z = x \o (y \o z)
        BY <2>3, ConcatAssociative
    <2> QED
        BY <2>1, <2>4
<1>13. Represents(inner', InnerKey \o DataBytes(0, p))
    BY <1>9, <1>11, <1>12
<1>14. written' = p /\ p \in Nat
    BY <1>1, <1>3, <1>4, <1>10
<1>15. PICK C : DataBytes(0, p) \in Seq(C)
    BY <1>3, <1>14, DataBytesFacts
<1>16. Begins(InnerKey \o DataBytes(0, p), InnerKey)
    BY <1>3, <1>15, KeyFacts, AppendBegins DEF InnerKey
<1>17. KeyIn(inner', InnerKey)
    BY <1>13, <1>16 DEF KeyIn
<1> QED
    BY <1>2, <1>3, <1>13, <1>14, <1>17 DEF HInv, IsHmac

LEMMA FinalizeHInv ==
    ASSUME BlockHashAssumption, HInv, FinalizeHmac
    PROVE  HInv'
<1>1. /\ digest = <<>> /\ keylen' = keylen /\ written' = written
      /\ inner' = Finalize(inner, direct)
      /\ outer' = Finalize(Write(outer, DigestBytes(inner'.s), direct), direct)
      /\ digest' = outer'.s /\ InnerKey' = InnerKey /\ OuterKey' = OuterKey
    BY DEF FinalizeHmac, InnerKey, OuterKey
<1>2. keylen \in Nat /\ written \in Nat /\ 0 \in Nat /\ Block \in Nat
    BY DEF HInv, BlockHashAssumption
<1>3. PICK m : m = InnerKey \o DataBytes(0, written)
    OBVIOUS
<1>4. PICK A : DataBytes(0, written) \in Seq(A)
    BY <1>2, DataBytesFacts
<1>5. Begins(m, InnerKey)
    BY <1>2, <1>3, <1>4, KeyFacts, AppendBegins DEF InnerKey
<1>6. PICK M : m \in Seq(M)
    BY <1>5 DEF Begins
<1>7. Represents(inner, m) /\ Represents(outer, OuterKey)
    BY <1>1, <1>3 DEF HInv
<1>8. inner'.s = Padded(m)
    BY <1>1, <1>6, <1>7, FinalizeIs
<1>9. KeyIn(inner', InnerKey)
    <2>1. PICK z \in 0 .. Block - 1 : Represents(inner', Ended(m, z))
        BY <1>1, <1>6, <1>7, FinalizeRepresents
    <2>2. z \in Nat
        BY <1>2
    <2>3. Begins(Ended(m, z), InnerKey)
        BY <1>5, <2>2, EndedBegins
    <2> QED
        BY <2>1, <2>3 DEF KeyIn
<1>10. PICK d : d = DigestBytes(inner'.s)
    OBVIOUS
<1>11. PICK D : d \in Seq(D)
    BY <1>10, DigestIsBytes
<1>12. PICK x, w : x = OuterKey \o d /\ w = Write(outer, d, direct)
    OBVIOUS
<1>13. PICK S : OuterKey \in Seq(S)
    BY <1>2, KeyFacts DEF OuterKey
<1>14. Represents(w, x)
    BY <1>7, <1>11, <1>12, <1>13, WriteRepresents
<1>15. Begins(x, OuterKey)
    BY <1>2, <1>11, <1>12, KeyFacts, AppendBegins DEF OuterKey
<1>16. PICK X : x \in Seq(X)
    BY <1>15 DEF Begins
<1>17. outer' = Finalize(w, direct)
    BY <1>1, <1>10, <1>12
<1>18. outer'.s = Padded(x)
    BY <1>14, <1>16, <1>17, FinalizeIs
<1>19. KeyIn(outer', OuterKey)
    <2>1. PICK z \in 0 .. Block - 1 : Represents(outer', Ended(x, z))
        BY <1>14, <1>16, <1>17, FinalizeRepresents
    <2>2. z \in Nat
        BY <1>2
    <2>3. Begins(Ended(x, z), OuterKey)
        BY <1>15, <2>2, EndedBegins
    <2> QED
        BY <2>1, <2>3 DEF KeyIn
<1>20. digest' # <<>>
    <2>1. Leaves(outer', Len(x))
        BY <1>14, <1>16, <1>17, FinalizeLeaves
    <2>2. Len(x) + 1 + LengthLen <= Block * Len(outer'.s) /\ Len(x) \in Nat
          /\ LengthLen \in Nat
        BY <1>16, <2>1 DEF Leaves, BlockHashAssumption
    <2>3. ASSUME outer'.s = <<>> PROVE FALSE
        <3>1. Len(outer'.s) = 0
            BY <2>3
        <3>2. Block * Len(outer'.s) = 0
            BY <1>2, <3>1
        <3> QED
            BY <2>2, <3>2
    <2> QED
        BY <1>1, <2>3
<1>21. digest' = HmacOf(KeyBytes(keylen), DataBytes(0, written))
    <2>1. HmacOf(KeyBytes(keylen), DataBytes(0, written)) =
            Padded(OuterKey \o DigestBytes(Padded(InnerKey \o DataBytes(0, written))))
        BY <1>2, HmacIs DEF OuterKey, InnerKey
    <2>2. HmacOf(KeyBytes(keylen), DataBytes(0, written)) = Padded(x)
        BY <1>3, <1>8, <1>10, <1>12, <2>1
    <2> QED
        BY <1>1, <1>18, <2>2
<1>22. IsHmac'
    BY <1>1, <1>21 DEF IsHmac
<1> QED
    BY <1>1, <1>2, <1>9, <1>19, <1>20, <1>22 DEF HInv

LEMMA NextHInv ==
    ASSUME BlockHashAssumption, MaxBytes \in Nat
    PROVE  HInv /\ [Next]_vars => HInv'
<1> SUFFICES ASSUME HInv, [Next]_vars PROVE HInv'
    OBVIOUS
<1>1. CASE WriteBytes
    BY <1>1, WriteHInv
<1>2. CASE FinalizeHmac
    BY <1>2, FinalizeHInv
<1>3. CASE UNCHANGED vars
    BY <1>3 DEF vars, HInv, IsHmac, InnerKey, OuterKey
<1> QED
    BY <1>1, <1>2, <1>3 DEF Next

(* CHMAC_SHA512 and secp256k1_hmac_sha256 compute the HMAC of RFC 2104, of *)
(* keys and messages of any length, however the message is cut into        *)
(* writes.                                                                 *)
THEOREM HmacIsStandard ==
    ASSUME BlockHashAssumption, MaxKey \in Nat, MaxBytes \in Nat
    PROVE  Spec => []IsHmac
<1>1. Init => HInv
    BY InitHInv
<1>2. HInv /\ [Next]_vars => HInv'
    BY NextHInv
<1>3. HInv => IsHmac
    BY DEF HInv
<1> QED
    BY <1>1, <1>2, <1>3, PTL DEF Spec

(* The first block of each object is its own masked key for ever, and is   *)
(* made of the key and zeros alone.                                        *)
THEOREM KeysStayApart ==
    ASSUME BlockHashAssumption, MaxKey \in Nat, MaxBytes \in Nat
    PROVE  Spec => []KeysApart
<1>1. Init => HInv
    BY InitHInv
<1>2. HInv /\ [Next]_vars => HInv'
    BY NextHInv
<1>3. HInv => KeysApart
    BY KeysApartFrom
<1> QED
    BY <1>1, <1>2, <1>3, PTL DEF Spec
=============================================================================
