-------------------------- MODULE Secp256k1_proofs -------------------------
(***************************************************************************)
(* What libsecp256k1 promises over any curve of a prime order: the         *)
(* sessions of MuSig with any number of signers, every hash and every      *)
(* order of the calls; the calls of ECDSA with any answers of the nonce    *)
(* function; Schnorr signatures; the secret and the public form of a key   *)
(* under every series of changes; and scratch spaces of every size.  Sums  *)
(* and products are reckoned modulo the order.                             *)
(***************************************************************************)
EXTENDS Ecmult, MuSig, Ecdsa, FiniteSetTheorems, WellFoundedInduction, TLAPS

Scalar32 == 0 .. Order - 1
Key == 1 .. Order - 1

(* x and y are equal modulo the order.                                     *)
Cong(x, y) == \E q \in Int : x = y + q * Order

(* The order is a number greater than one.                                 *)
LEMMA OrderFacts == Order \in Nat /\ Order > 1
BY OppositesAssumption

(* A number is congruent to its remainder, which is a scalar.              *)
LEMMA CongMod ==
    ASSUME NEW x \in Int
    PROVE  x % Order \in Scalar32 /\ Cong(x % Order, x)
<1>1. PICK o \in Nat : o = Order /\ o > 1
    BY OrderFacts
<1>2. PICK r, d : r = x % o /\ d = x \div o
    OBVIOUS
<1>3. r \in 0 .. o - 1 /\ d \in Int /\ x = d * o + r
    BY <1>1, <1>2
<1>4. r = x + (-d) * o /\ -d \in Int
    <2>1. (-d) * o = -(d * o)
        BY <1>1, <1>3
    <2> QED
        BY <1>1, <1>3, <2>1
<1> QED
    BY <1>1, <1>2, <1>3, <1>4 DEF Cong, Scalar32

(* Congruence is an equivalence that sums and products respect.            *)
LEMMA CongRefl ==
    ASSUME NEW x \in Int
    PROVE  Cong(x, x)
BY OrderFacts DEF Cong

(* Congruence is symmetric,                                                *)
LEMMA CongSym ==
    ASSUME NEW x \in Int, NEW y \in Int, Cong(x, y)
    PROVE  Cong(y, x)
<1>1. PICK o \in Nat : o = Order
    BY OrderFacts
<1>2. PICK q \in Int : x = y + q * o
    BY <1>1 DEF Cong
<1>3. y = x + (-q) * o /\ -q \in Int
    <2>1. (-q) * o = -(q * o)
        BY <1>1, <1>2
    <2> QED
        BY <1>1, <1>2, <2>1
<1> QED
    BY <1>1, <1>3 DEF Cong

(* transitive,                                                             *)
LEMMA CongTrans ==
    ASSUME NEW x \in Int, NEW y \in Int, NEW z \in Int, Cong(x, y), Cong(y, z)
    PROVE  Cong(x, z)
<1>1. PICK o \in Nat : o = Order
    BY OrderFacts
<1>2. PICK q \in Int : x = y + q * o
    BY <1>1 DEF Cong
<1>3. PICK p \in Int : y = z + p * o
    BY <1>1 DEF Cong
<1>4. (q + p) * o = q * o + p * o /\ q * o \in Int /\ p * o \in Int /\ q + p \in Int
    BY <1>1, <1>2, <1>3
<1>5. x = z + (q + p) * o
    BY <1>2, <1>3, <1>4
<1> QED
    BY <1>1, <1>4, <1>5 DEF Cong

(* and preserved by sums,                                                  *)
LEMMA CongAdd ==
    ASSUME NEW x \in Int, NEW y \in Int, NEW u \in Int, NEW v \in Int,
           Cong(x, y), Cong(u, v)
    PROVE  Cong(x + u, y + v)
<1>1. PICK o \in Nat : o = Order
    BY OrderFacts
<1>2. PICK q \in Int : x = y + q * o
    BY <1>1 DEF Cong
<1>3. PICK p \in Int : u = v + p * o
    BY <1>1 DEF Cong
<1>4. (q + p) * o = q * o + p * o /\ q * o \in Int /\ p * o \in Int /\ q + p \in Int
    BY <1>1, <1>2, <1>3
<1>5. x + u = (y + v) + (q + p) * o
    BY <1>2, <1>3, <1>4
<1> QED
    BY <1>1, <1>4, <1>5 DEF Cong

(* products,                                                               *)
LEMMA CongTimes ==
    ASSUME NEW x \in Int, NEW y \in Int, NEW k \in Int, Cong(x, y)
    PROVE  Cong(k * x, k * y) /\ Cong(x * k, y * k)
<1>1. PICK o \in Nat : o = Order
    BY OrderFacts
<1>2. PICK q \in Int : x = y + q * o
    BY <1>1 DEF Cong
<1>3. k * x = k * y + (k * q) * o /\ k * q \in Int
    <2>1. k * (y + q * o) = k * y + (k * q) * o
        BY <1>1, <1>2
    <2> QED
        BY <1>2, <2>1
<1>4. k * x = x * k /\ k * y = y * k
    OBVIOUS
<1> QED
    BY <1>1, <1>3, <1>4 DEF Cong

(* opposites                                                               *)
LEMMA CongNegate ==
    ASSUME NEW x \in Int, NEW y \in Int, Cong(x, y)
    PROVE  Cong(-x, -y)
<1>1. Cong((-1) * x, (-1) * y)
    BY CongTimes
<1> QED
    BY <1>1

(* and differences.                                                        *)
LEMMA CongMinus ==
    ASSUME NEW x \in Int, NEW y \in Int, NEW u \in Int, NEW v \in Int,
           Cong(x, y), Cong(u, v)
    PROVE  Cong(x - u, y - v)
<1>1. Cong(-u, -v)
    BY CongNegate
<1>2. Cong(x + (-u), y + (-v))
    BY <1>1, CongAdd
<1> QED
    BY <1>2

(* Congruent scalars are equal.                                            *)
LEMMA CongEqual ==
    ASSUME NEW x \in Scalar32, NEW y \in Scalar32, Cong(x, y)
    PROVE  x = y
<1>1. PICK o \in Nat : o = Order /\ o > 1
    BY OrderFacts
<1>2. x \in 0 .. o - 1 /\ y \in 0 .. o - 1
    BY <1>1 DEF Scalar32
<1>3. PICK q \in Int : x = y + q * o
    BY <1>1 DEF Cong
<1>4. ASSUME q >= 1 PROVE FALSE
    <2>1. q * o >= o
        <3>1. q * o = o + (q - 1) * o
            BY <1>1, <1>3
        <3>2. (q - 1) * o >= 0
            BY <1>1, <1>3, <1>4
        <3> QED
            BY <1>1, <1>3, <3>1, <3>2
    <2> QED
        BY <1>1, <1>2, <1>3, <2>1
<1>5. ASSUME q <= -1 PROVE FALSE
    <2>1. q * o <= -o
        <3>1. q * o = (q + 1) * o - o
            BY <1>1, <1>3
        <3>2. (q + 1) * o <= 0
            BY <1>1, <1>3, <1>5
        <3> QED
            BY <1>1, <1>3, <3>1, <3>2
    <2> QED
        BY <1>1, <1>2, <1>3, <2>1
<1>6. q = 0
    BY <1>3, <1>4, <1>5
<1> QED
    BY <1>1, <1>2, <1>3, <1>6

(* Remainders are equal exactly if the numbers are congruent.              *)
LEMMA CongIff ==
    ASSUME NEW x \in Int, NEW y \in Int
    PROVE  Cong(x, y) <=> x % Order = y % Order
<1>1. PICK a \in Scalar32 : a = x % Order /\ Cong(a, x)
    BY CongMod
<1>2. PICK b \in Scalar32 : b = y % Order /\ Cong(b, y)
    BY CongMod
<1>3. a \in Int /\ b \in Int
    BY DEF Scalar32
<1>4. ASSUME Cong(x, y) PROVE a = b
    <2>1. Cong(a, y)
        BY <1>1, <1>3, <1>4, CongTrans
    <2>2. Cong(a, b)
        BY <1>2, <1>3, <2>1, CongSym, CongTrans
    <2> QED
        BY <2>2, CongEqual
<1>5. ASSUME a = b PROVE Cong(x, y)
    BY <1>1, <1>2, <1>3, <1>5, CongSym, CongTrans
<1> QED
    BY <1>1, <1>2, <1>4, <1>5

(* A scalar that is congruent to zero is zero.                             *)
LEMMA CongZero ==
    ASSUME NEW x \in Int
    PROVE  Cong(x, 0) <=> x % Order = 0
<1>1. 0 \in Scalar32
    BY OrderFacts DEF Scalar32
<1>2. PICK a \in Scalar32 : a = x % Order /\ Cong(a, x)
    BY CongMod
<1>3. a \in Int
    BY DEF Scalar32
<1>4. ASSUME Cong(x, 0) PROVE a = 0
    BY <1>1, <1>2, <1>3, <1>4, CongTrans, CongEqual
<1>5. ASSUME a = 0 PROVE Cong(x, 0)
    BY <1>2, <1>3, <1>5, CongSym
<1> QED
    BY <1>2, <1>4, <1>5

(* A difference vanishes exactly if both sides are congruent.              *)
LEMMA CongDifference ==
    ASSUME NEW x \in Int, NEW y \in Int, NEW z \in Int, Cong(x, y)
    PROVE  Cong(x - z, 0) <=> Cong(z, y)
<1>0. x - z \in Int /\ y - z \in Int /\ x - z + z = x /\ z - z = 0 /\ 0 + z = z /\ 0 \in Int
    OBVIOUS
<1>1. Cong(z, z)
    BY CongRefl
<1>2. ASSUME Cong(x - z, 0) PROVE Cong(z, y)
    <2>1. Cong((x - z) + z, 0 + z)
        BY <1>0, <1>1, <1>2, CongAdd
    <2>2. Cong(x, z)
        BY <1>0, <2>1
    <2> QED
        BY <2>2, CongSym, CongTrans
<1>3. ASSUME Cong(z, y) PROVE Cong(x - z, 0)
    <2>1. Cong(x, z)
        BY <1>3, CongSym, CongTrans
    <2>2. Cong(x - z, z - z)
        BY <1>1, <2>1, CongMinus
    <2> QED
        BY <1>0, <2>2
<1> QED
    BY <1>2, <1>3

(* What a remainder replaces.                                              *)
LEMMA CongModOf ==
    ASSUME NEW x \in Int, NEW y \in Int, Cong(x, y)
    PROVE  Cong(x % Order, y) /\ Cong(x, y % Order)
<1>1. PICK a \in Scalar32 : a = x % Order /\ Cong(a, x)
    BY CongMod
<1>2. PICK b \in Scalar32 : b = y % Order /\ Cong(b, y)
    BY CongMod
<1>3. a \in Int /\ b \in Int
    BY DEF Scalar32
<1>4. Cong(a, y) /\ Cong(x, b)
    BY <1>1, <1>2, <1>3, CongSym, CongTrans
<1> QED
    BY <1>1, <1>2, <1>4
-----------------------------------------------------------------------------
(* Signs.                                                                  *)
Sign(negate) == IF negate THEN -1 ELSE 1

(* A sign is one or minus one.                                             *)
LEMMA SignFacts ==
    ASSUME NEW a \in BOOLEAN, NEW b \in BOOLEAN
    PROVE  Sign(a) \in Int /\ Sign(a # b) = Sign(a) * Sign(b) /\ Sign(a) * Sign(a) = 1
BY DEF Sign

(* The opposite of a number is a scalar congruent to minus the number.     *)
LEMMA MinusFacts ==
    ASSUME NEW n \in Int
    PROVE  Minus(n) \in Scalar32 /\ Cong(Minus(n), -n)
BY CongMod DEF Minus

(* Negating a scalar is multiplying it by minus one.                       *)
LEMMA SignForFacts ==
    ASSUME NEW b \in BOOLEAN, NEW n \in Int
    PROVE  SignFor(b, n) \in Int /\ Cong(SignFor(b, n), Sign(b) * n)
<1>1. CASE b
    <2>1. Minus(n) \in Int
        BY MinusFacts DEF Scalar32
    <2>2. Sign(b) * n = -n
        BY <1>1 DEF Sign
    <2> QED
        BY <1>1, <2>1, <2>2, MinusFacts DEF SignFor
<1>2. CASE ~b
    <2>1. Sign(b) * n = n
        BY <1>2 DEF Sign
    <2> QED
        BY <1>2, <2>1, CongRefl DEF SignFor
<1> QED
    BY <1>1, <1>2
-----------------------------------------------------------------------------
(* Keys and their coordinates.                                             *)
LEMMA KeyFacts ==
    /\ Key \subseteq Scalar32 /\ Scalar32 \subseteq Int
    /\ \A n \in Scalar32 : n # 0 <=> n \in Key
BY OrderFacts DEF Key, Scalar32

(* The opposite of a key is a key, and the opposite of that the key.       *)
LEMMA MinusKey ==
    ASSUME NEW k \in Key
    PROVE  Minus(k) = Order - k /\ Minus(k) \in Key
<1>1. PICK o \in Nat : o = Order /\ o > 1
    BY OrderFacts
<1>2. k \in 1 .. o - 1
    BY <1>1 DEF Key
<1>3. o - k \in 0 .. o - 1 /\ o - k \in 1 .. o - 1 /\ o - k = -k + 1 * o
    BY <1>1, <1>2
<1>4. Cong(o - k, -k)
    BY <1>1, <1>3 DEF Cong
<1>5. Cong(Minus(k), -k) /\ Minus(k) \in Scalar32
    BY <1>2, MinusFacts
<1>6. Cong(Minus(k), o - k)
    <2>1. PICK m, d, n : m = Minus(k) /\ d = o - k /\ n = -k
        OBVIOUS
    <2>2. m \in Int
        BY <1>5, <2>1, KeyFacts
    <2>4. d \in Int /\ n \in Int
        BY <1>1, <1>2, <2>1
    <2>3. Cong(n, d)
        BY <1>4, <2>1, <2>4, CongSym
    <2> QED
        BY <1>5, <2>1, <2>2, <2>3, <2>4, CongTrans
<1>7. Minus(k) = o - k
    BY <1>1, <1>3, <1>5, <1>6, CongEqual DEF Scalar32
<1> QED
    BY <1>1, <1>3, <1>7 DEF Key

(* The coordinates of a key and its opposite.                              *)
LEMMA PointFacts ==
    ASSUME NEW k \in Key
    PROVE  /\ X(k) \in Residue /\ X(Minus(k)) = X(k) /\ (OddY(Minus(k)) <=> ~OddY(k))
           /\ OddY(k) \in BOOLEAN
           /\ Y(k) \in Residue /\ Multiple[k] = <<X(k), Y(k)>>
           /\ \A l \in Key : X(k) = X(l) /\ (OddY(k) <=> OddY(l)) => k = l
<1>1. Minus(k) = Order - k /\ Minus(k) \in Key
    BY MinusKey
<1>2. /\ Multiple[k] \in Residue \X Residue
      /\ \A l \in Key : X(k) = X(l) <=> l \in {k, Order - k}
      /\ OddY(Order - k) <=> ~OddY(k)
    BY OppositesAssumption DEF Key
<1>3. OddY(k) \in BOOLEAN
    BY DEF OddY
<1>4. X(k) \in Residue /\ Y(k) \in Residue /\ Multiple[k] = <<X(k), Y(k)>>
    BY <1>2 DEF X, Y
<1> QED
    BY <1>1, <1>2, <1>3, <1>4

(* The key with the even y is the key or its opposite.                     *)
LEMMA EvenYFacts ==
    ASSUME NEW k \in Key
    PROVE  /\ EvenY(k) \in Key /\ ~OddY(EvenY(k)) /\ X(EvenY(k)) = X(k)
           /\ Cong(EvenY(k), Sign(OddY(k)) * k)
<1>1. k \in Int /\ OddY(k) \in BOOLEAN
    BY KeyFacts, PointFacts
<1>2. CASE OddY(k)
    <2>1. EvenY(k) = Minus(k) /\ Sign(OddY(k)) * k = -k
        BY <1>1, <1>2 DEF EvenY, Sign
    <2>2. Cong(Minus(k), -k)
        BY <1>1, MinusFacts
    <2> QED
        BY <1>2, <2>1, <2>2, MinusKey, PointFacts
<1>3. CASE ~OddY(k)
    <2>1. EvenY(k) = k /\ Sign(OddY(k)) * k = k
        BY <1>1, <1>3 DEF EvenY, Sign
    <2> QED
        BY <1>1, <1>3, <2>1, CongRefl
<1> QED
    BY <1>2, <1>3

(* Of two keys with one x coordinate, those with the even y are one.       *)
LEMMA SameX ==
    ASSUME NEW k \in Key, NEW l \in Key, X(k) = X(l)
    PROVE  EvenY(k) = EvenY(l)
<1>1. /\ EvenY(k) \in Key /\ ~OddY(EvenY(k)) /\ X(EvenY(k)) = X(k)
      /\ EvenY(l) \in Key /\ ~OddY(EvenY(l)) /\ X(EvenY(l)) = X(l)
    BY EvenYFacts
<1> QED
    BY <1>1, PointFacts
-----------------------------------------------------------------------------
(* Sums over the signers.  A sum is a recursive function of the number of  *)
(* terms, and what holds of it is proved from the least number for which   *)
(* it would not.                                                           *)

(* A set of numbers that is not empty has a least element.                 *)
LEMMA NatMinimum ==
    ASSUME NEW T, T \subseteq Nat, T # {}
    PROVE  \E m \in T : \A n \in T : m <= n
<1> DEFINE Less == OpToRel(<, Nat)
<1>1. \A x, y \in Nat : x < y => <<x, y>> \in Less
    BY DEF OpToRel
<1>2. IsWellFoundedOn(Less, Nat)
    BY NatLessThanWellFounded
<1> HIDE DEF Less
<1>3. PICK m \in T : \A n \in T : ~(<<n, m>> \in Less)
    BY <1>2, WFMin, Zenon
<1>4. ASSUME NEW n \in T
      PROVE  m <= n
    <2>1. m \in Nat /\ n \in Nat
        OBVIOUS
    <2>2. ~(n < m)
        BY <1>1, <1>3, <2>1
    <2> QED
        BY <2>1, <2>2
<1> QED
    BY <1>4

(* s[i] is the sum of the first i terms of f.                              *)
AreSums(s, f, n) ==
    s = [i \in 0 .. n |-> IF i = 0 THEN 0 ELSE (s[i - 1] + f[i]) % Order]

(* The sums that Total is made of exist and are scalars.                   *)
LEMMA SumsExist ==
    ASSUME NEW f, NEW l \in Nat
    PROVE  \E s : AreSums(s, f, l)
<1> DEFINE T == {m \in Nat : ~ \E s : AreSums(s, f, m)}
<1> SUFFICES T = {}
    OBVIOUS
<1>1. SUFFICES ASSUME T # {} PROVE FALSE
    OBVIOUS
<1>2. PICK m \in T : \A n \in T : m <= n
    BY <1>1, NatMinimum
<1>3. CASE m = 0
    <2>1. AreSums([i \in 0 .. 0 |-> 0], f, 0)
        BY DEF AreSums
    <2> QED
        BY <1>2, <1>3, <2>1
<1>4. CASE m # 0
    <2>1. m - 1 \in Nat /\ m - 1 \notin T
        BY <1>2, <1>4
    <2>2. PICK s : AreSums(s, f, m - 1)
        BY <2>1
    <2> DEFINE r == [i \in 0 .. m |-> IF i = m THEN (s[m - 1] + f[m]) % Order ELSE s[i]]
    <2>3. AreSums(r, f, m)
        BY <1>4, <2>1, <2>2 DEF AreSums
    <2> QED
        BY <1>2, <2>3
<1> QED
    BY <1>3, <1>4

(* There is at least one signer.                                           *)
LEMMA Signing == NumSigners \in Nat /\ NumSigners > 0 /\ Signers = 1 .. NumSigners
BY MuSigAssumption DEF Signers

(* The total is the last of the sums, each of which is a scalar and the    *)
(* one before it with a term added.                                        *)
LEMMA TotalSums ==
    ASSUME NEW f \in [Signers -> Int]
    PROVE  \E s \in [0 .. NumSigners -> Scalar32] :
              /\ s[0] = 0 /\ Total(f) = s[NumSigners]
              /\ \A i \in Signers : Cong(s[i], s[i - 1] + f[i])
<1>1. PICK n \in Nat : n = NumSigners /\ n > 0 /\ Signers = 1 .. n
    BY Signing
<1>2. PICK s : s = CHOOSE sums : AreSums(sums, f, n)
    OBVIOUS
<1>3. AreSums(s, f, n)
    BY <1>1, <1>2, SumsExist
<1>4. Total(f) = s[n]
    BY <1>1, <1>2 DEF Total, AreSums
<1>5. s[0] = 0 /\ \A i \in 1 .. n : s[i] = (s[i - 1] + f[i]) % Order
    BY <1>3 DEF AreSums
<1>6. \A i \in 0 .. n : s[i] \in Scalar32
    <2> DEFINE T == {i \in 0 .. n : s[i] \notin Scalar32}
    <2>1. SUFFICES ASSUME T # {} PROVE FALSE
        OBVIOUS
    <2>2. T \subseteq Nat
        OBVIOUS
    <2>3. PICK i \in T : \A j \in T : i <= j
        BY <2>1, <2>2, NatMinimum
    <2>4. CASE i = 0
        BY <1>5, <2>3, <2>4, OrderFacts DEF Scalar32
    <2>5. CASE i # 0
        <3>1. i \in 1 .. n /\ i - 1 \in 0 .. n /\ i - 1 \notin T
            BY <2>3, <2>5
        <3>2. s[i - 1] \in Int /\ f[i] \in Int
            BY <1>1, <3>1, KeyFacts
        <3>3. s[i] \in Scalar32
            BY <1>5, <3>1, <3>2, CongMod
        <3> QED
            BY <2>3, <3>3
    <2> QED
        BY <2>4, <2>5
<1>7. ASSUME NEW i \in 1 .. n PROVE Cong(s[i], s[i - 1] + f[i])
    <2>1. i - 1 \in 0 .. n /\ f[i] \in Int
        BY <1>1, <1>7
    <2>2. s[i - 1] \in Int
        BY <1>6, <2>1, KeyFacts
    <2> QED
        BY <1>5, <2>1, <2>2, CongMod
<1>8. s \in [0 .. n -> Scalar32]
    BY <1>3, <1>6 DEF AreSums
<1> QED
    BY <1>1, <1>4, <1>5, <1>7, <1>8

(* Total is a scalar for scalars.                                          *)
LEMMA TotalType ==
    ASSUME NEW f \in [Signers -> Int]
    PROVE  Total(f) \in Scalar32
BY TotalSums, Signing

(* The total is the last of partial sums, for any terms.                   *)
LEMMA TotalSteps ==
    ASSUME NEW f \in [Signers -> Int], NEW n, n = NumSigners
    PROVE  \E s \in [0 .. n -> Int] :
              /\ s[0] = 0 /\ Total(f) = s[n]
              /\ \A i \in Signers : Cong(s[i], s[i - 1] + f[i])
<1>1. PICK s \in [0 .. NumSigners -> Scalar32] :
              /\ s[0] = 0 /\ Total(f) = s[NumSigners]
              /\ \A i \in Signers : Cong(s[i], s[i - 1] + f[i])
    BY TotalSums
<1>2. s \in [0 .. n -> Int]
    BY KeyFacts
<1> QED
    BY <1>1, <1>2

(* A total of combinations is the combination of the totals.               *)
LEMMA TotalLinear ==
    ASSUME NEW f \in [Signers -> Int], NEW g \in [Signers -> Int],
           NEW h \in [Signers -> Int], NEW k \in [Signers -> Int],
           NEW a \in Int, NEW b \in Int, NEW c \in Int,
           \A i \in Signers : Cong(f[i], a * g[i] + b * h[i] + c * k[i])
    PROVE  Cong(Total(f), a * Total(g) + b * Total(h) + c * Total(k))
<1>0. PICK n : n = NumSigners
    OBVIOUS
<1>1. n \in Nat /\ n > 0 /\ Signers = 1 .. n
    BY <1>0, Signing
<1>f. PICK sf \in [0 .. n -> Int] : /\ sf[0] = 0 /\ Total(f) = sf[n]
                                    /\ \A i \in Signers : Cong(sf[i], sf[i - 1] + f[i])
    BY <1>0, TotalSteps, Zenon
<1>g. PICK sg \in [0 .. n -> Int] : /\ sg[0] = 0 /\ Total(g) = sg[n]
                                    /\ \A i \in Signers : Cong(sg[i], sg[i - 1] + g[i])
    BY <1>0, TotalSteps, Zenon
<1>h. PICK sh \in [0 .. n -> Int] : /\ sh[0] = 0 /\ Total(h) = sh[n]
                                    /\ \A i \in Signers : Cong(sh[i], sh[i - 1] + h[i])
    BY <1>0, TotalSteps, Zenon
<1>k. PICK sk \in [0 .. n -> Int] : /\ sk[0] = 0 /\ Total(k) = sk[n]
                                    /\ \A i \in Signers : Cong(sk[i], sk[i - 1] + k[i])
    BY <1>0, TotalSteps, Zenon
<1> DEFINE Right(i) == a * sg[i] + b * sh[i] + c * sk[i]
           T == {i \in 0 .. n : ~Cong(sf[i], Right(i))}
<1>2. ASSUME NEW i \in 1 .. n, i - 1 \notin T PROVE i \notin T
    <2>1. i - 1 \in 0 .. n /\ i \in 0 .. n /\ i \in Signers
        BY <1>1
    <2>2. PICK p, r, s, t \in Int : p = sf[i - 1] /\ r = sg[i - 1] /\ s = sh[i - 1] /\ t = sk[i - 1]
        BY <2>1
    <2>3. PICK w, x, y, z \in Int : w = f[i] /\ x = g[i] /\ y = h[i] /\ z = k[i]
        BY <2>1
    <2>4. PICK p2, r2, s2, t2 \in Int : p2 = sf[i] /\ r2 = sg[i] /\ s2 = sh[i] /\ t2 = sk[i]
        BY <2>1
    <2>5. /\ Cong(p, a * r + b * s + c * t)
          /\ Cong(w, a * x + b * y + c * z)
          /\ Cong(p2, p + w) /\ Cong(r2, r + x) /\ Cong(s2, s + y) /\ Cong(t2, t + z)
        BY <1>2, <1>f, <1>g, <1>h, <1>k, <2>1, <2>2, <2>3, <2>4
    <2>6. PICK ar, bs, ct, ax, by, cz \in Int :
              /\ ar = a * r /\ bs = b * s /\ ct = c * t
              /\ ax = a * x /\ by = b * y /\ cz = c * z
        OBVIOUS
    <2>7. a * (r + x) = ar + ax /\ b * (s + y) = bs + by /\ c * (t + z) = ct + cz
        BY <2>6
    <2>8. Cong(a * r2, ar + ax) /\ Cong(b * s2, bs + by) /\ Cong(c * t2, ct + cz)
        <3>1. r + x \in Int /\ s + y \in Int /\ t + z \in Int
            OBVIOUS
        <3>2. Cong(a * r2, a * (r + x))
            BY <2>5, <3>1, CongTimes
        <3>3. Cong(b * s2, b * (s + y))
            BY <2>5, <3>1, CongTimes
        <3>4. Cong(c * t2, c * (t + z))
            BY <2>5, <3>1, CongTimes
        <3> QED
            BY <2>7, <3>2, <3>3, <3>4
    <2>9. PICK u1, u2, u3 \in Int : u1 = a * r2 /\ u2 = b * s2 /\ u3 = c * t2
        OBVIOUS
    <2>10. Cong(u1 + u2, (ar + ax) + (bs + by))
        BY <2>8, <2>9, CongAdd
    <2>11. Cong((u1 + u2) + u3, ((ar + ax) + (bs + by)) + (ct + cz))
        BY <2>8, <2>9, <2>10, CongAdd
    <2>12. Cong(p + w, (ar + bs + ct) + (ax + by + cz))
        BY <2>5, <2>6, CongAdd
    <2>13. ((ar + ax) + (bs + by)) + (ct + cz) = (ar + bs + ct) + (ax + by + cz)
        OBVIOUS
    <2>14. Cong(p + w, u1 + u2 + u3)
        <3>1. Cong((ar + bs + ct) + (ax + by + cz), (u1 + u2) + u3)
            BY <2>11, <2>13, CongSym
        <3> QED
            BY <2>12, <3>1, CongTrans
    <2>15. Cong(p2, u1 + u2 + u3)
        BY <2>5, <2>14, CongTrans
    <2> QED
        BY <2>1, <2>4, <2>9, <2>15
<1>3. 0 \notin T
    <2>1. Right(0) = 0
        BY <1>g, <1>h, <1>k
    <2> QED
        BY <1>f, <2>1, CongRefl
<1>4. T = {}
    <2>1. SUFFICES ASSUME T # {} PROVE FALSE
        OBVIOUS
    <2>2. T \subseteq Nat
        OBVIOUS
    <2>3. PICK i \in T : \A j \in T : i <= j
        BY <2>1, <2>2, NatMinimum
    <2>4. i # 0
        BY <1>3, <2>3
    <2>5. i \in 1 .. n /\ i - 1 \notin T
        BY <2>3, <2>4
    <2> QED
        BY <1>2, <2>3, <2>5
<1>5. n \in 0 .. n
    BY <1>1
<1> QED
    BY <1>4, <1>5, <1>f, <1>g, <1>h, <1>k

(* Totals of functions that are congruent but for one signer differ by     *)
(* what the functions differ there.                                        *)
LEMMA TotalOneOff ==
    ASSUME NEW f \in [Signers -> Int], NEW g \in [Signers -> Int], NEW m \in Signers,
           \A i \in Signers : i # m => Cong(f[i], g[i])
    PROVE  Cong(Total(f), Total(g) + (f[m] - g[m]))
<1>0. PICK n : n = NumSigners
    OBVIOUS
<1>1. n \in Nat /\ n > 0 /\ Signers = 1 .. n
    BY <1>0, Signing
<1>f. PICK sf \in [0 .. n -> Int] : /\ sf[0] = 0 /\ Total(f) = sf[n]
                                    /\ \A i \in Signers : Cong(sf[i], sf[i - 1] + f[i])
    BY <1>0, TotalSteps, Zenon
<1>g. PICK sg \in [0 .. n -> Int] : /\ sg[0] = 0 /\ Total(g) = sg[n]
                                    /\ \A i \in Signers : Cong(sg[i], sg[i - 1] + g[i])
    BY <1>0, TotalSteps, Zenon
<1> DEFINE d == f[m] - g[m]
           Right(i) == sg[i] + (IF i >= m THEN d ELSE 0)
           T == {i \in 0 .. n : ~Cong(sf[i], Right(i))}
<1>2. ASSUME NEW i \in 1 .. n, i - 1 \notin T PROVE i \notin T
    <2>1. i - 1 \in 0 .. n /\ i \in 0 .. n /\ i \in Signers
        BY <1>1
    <2>2. PICK p, r \in Int : p = sf[i - 1] /\ r = sg[i - 1]
        BY <2>1
    <2>3. PICK w, x \in Int : w = f[i] /\ x = g[i]
        BY <2>1
    <2>4. PICK p2, r2 \in Int : p2 = sf[i] /\ r2 = sg[i]
        BY <2>1
    <2>5. PICK e, e2 \in Int : /\ e = (IF i - 1 >= m THEN d ELSE 0)
                               /\ e2 = (IF i >= m THEN d ELSE 0)
        <3>1. d \in Int /\ m \in Int
            BY <1>1
        <3> QED
            BY <3>1
    <2>6. Cong(p, r + e) /\ Cong(p2, p + w) /\ Cong(r2, r + x)
        BY <1>2, <1>f, <1>g, <2>1, <2>2, <2>3, <2>4, <2>5
    <2>7. Cong(e + w, x + e2)
        <3>1. CASE i = m
            <4>1. e = 0 /\ e2 = w - x
                BY <1>1, <2>3, <2>5, <3>1
            <4>2. e + w = x + e2
                BY <4>1
            <4> QED
                BY <4>2, CongRefl
        <3>2. CASE i # m
            <4>1. Cong(w, x) /\ e = e2
                BY <1>1, <2>1, <2>3, <2>5, <3>2
            <4>2. Cong(e + w, e + x)
                BY <4>1, CongRefl, CongAdd
            <4>3. e + x = x + e2
                BY <4>1
            <4> QED
                BY <4>2, <4>3
        <3> QED
            BY <3>1, <3>2
    <2>r. Cong(w, w) /\ Cong(r, r) /\ Cong(e2, e2)
        BY CongRefl
    <2>s. r + e \in Int /\ e + w \in Int /\ x + e2 \in Int /\ r + x \in Int
        OBVIOUS
    <2>8. Cong(p + w, (r + e) + w)
        BY <2>6, <2>r, <2>s, CongAdd
    <2>9. Cong(r + (e + w), r + (x + e2))
        BY <2>7, <2>r, <2>s, CongAdd
    <2>10. (r + e) + w = r + (e + w) /\ r + (x + e2) = (r + x) + e2
        OBVIOUS
    <2>11. Cong(p2, (r + x) + e2)
        BY <2>6, <2>8, <2>9, <2>10, CongTrans
    <2>t. Cong(r + x, r2)
        BY <2>6, <2>s, CongSym
    <2>12. Cong((r + x) + e2, r2 + e2)
        BY <2>r, <2>s, <2>t, CongAdd
    <2>13. Cong(p2, r2 + e2)
        BY <2>11, <2>12, CongTrans
    <2> QED
        BY <2>1, <2>4, <2>5, <2>13
<1>3. 0 \notin T
    <2>1. Right(0) = 0
        BY <1>1, <1>g
    <2> QED
        BY <1>f, <2>1, CongRefl
<1>4. T = {}
    <2>1. SUFFICES ASSUME T # {} PROVE FALSE
        OBVIOUS
    <2>2. T \subseteq Nat
        OBVIOUS
    <2>3. PICK i \in T : \A j \in T : i <= j
        BY <2>1, <2>2, NatMinimum
    <2>4. i # 0
        BY <1>3, <2>3
    <2>5. i \in 1 .. n /\ i - 1 \notin T
        BY <2>3, <2>4
    <2> QED
        BY <1>2, <2>3, <2>5
<1>5. n \in 0 .. n /\ n >= m
    BY <1>1
<1> QED
    BY <1>4, <1>5, <1>f, <1>g
-----------------------------------------------------------------------------
(* What the operations of MuSig answer.                                    *)
NoncePairs == [1 .. 2 -> Scalar32]

(* What a hash is reduced to.                                              *)
LEMMA ReducedFacts ==
    ASSUME NEW n \in Bytes32
    PROVE  Reduced(n) \in Scalar32 /\ Cong(Reduced(n), n)
<1>1. n \in Int
    BY OppositesAssumption DEF Bytes32
<1> QED
    BY <1>1, CongMod DEF Reduced

(* A key that is valid is its own public key, and no other is.             *)
LEMMA CreatedKey ==
    /\ \A k \in Key : PubkeyCreate(k).key = k
    /\ \A n \in Bytes32 : \A k \in Key : PubkeyCreate(n).key = k => n = k
<1>1. PICK o \in Nat : o = Order /\ o > 1
    BY OrderFacts
<1>2. ASSUME NEW k \in Key PROVE PubkeyCreate(k).key = k
    <2>1. k \in 1 .. o - 1
        BY <1>1 DEF Key
    <2>2. ValidSeckey(k)
        BY <1>1, <2>1 DEF ValidSeckey, Overflows
    <2> QED
        BY <2>2 DEF PubkeyCreate, When, Done
<1>3. ASSUME NEW n \in Bytes32, NEW k \in Key, PubkeyCreate(n).key = k PROVE n = k
    <2>1. k # 0
        BY <1>1 DEF Key
    <2>2. CASE ValidSeckey(n)
        BY <1>3, <2>2 DEF PubkeyCreate, When, Done
    <2>3. CASE ~ValidSeckey(n)
        BY <1>3, <2>1, <2>3 DEF PubkeyCreate, When, Failed, Null
    <2> QED
        BY <2>2, <2>3
<1> QED
    BY <1>2, <1>3

(* The public keys of a ring are its keys.                                 *)
LEMMA PubkeysAreKeys ==
    ASSUME keys \in [Signers -> Key]
    PROVE  Pubkeys = keys
BY CreatedKey DEF Pubkeys

(* The hash of the keys is one of 32 bytes.                                *)
LEMMA PksHashType ==
    ASSUME NEW pks \in [Signers -> Key]
    PROVE  PksHash(pks) \in Bytes32
<1>1. [i \in Signers |-> pks[i]] = pks
    OBVIOUS
<1>2. pks \in [Signers -> 1 .. Order - 1]
    BY DEF Key
<1> QED
    BY <1>1, <1>2, HashAssumption DEF PksHash

(* A coefficient is a scalar.                                              *)
LEMMA CoefType ==
    ASSUME NEW second, NEW hash \in Bytes32, NEW pk \in Key
    PROVE  KeyAggCoef(second, hash, pk) \in Scalar32
<1>1. 1 \in Scalar32
    BY OrderFacts DEF Scalar32
<1>2. Hash("coefficient", <<hash, pk>>) \in Bytes32
    BY HashAssumption DEF Key
<1>3. Reduced(Hash("coefficient", <<hash, pk>>)) \in Scalar32
    BY <1>2, ReducedFacts
<1> QED
    BY <1>1, <1>3 DEF KeyAggCoef

(* The cache of these keys, however it was tweaked.                        *)
Caches(ks) ==
    [pk : Key, second : {Second(ks)}, hash : {PksHash(ks)}, parity : BOOLEAN, tweak : Scalar32]

(* The aggregated key is the sum of the keys with their coefficients.      *)
LEMMA PubkeyAggFacts ==
    ASSUME NEW ks \in [Signers -> Key]
    PROVE  /\ PubkeyAgg(ks).pk \in Scalar32
           /\ PubkeyAgg(ks).pk # 0 => PubkeyAgg(ks) \in Caches(ks)
           /\ PubkeyAgg(ks).pk =
                Total([i \in Signers |->
                         (KeyAggCoef(Second(ks), PksHash(ks), ks[i]) * ks[i]) % Order])
           /\ PubkeyAgg(ks).parity = FALSE /\ PubkeyAgg(ks).tweak = 0
<1> DEFINE f == [i \in Signers |-> (KeyAggCoef(Second(ks), PksHash(ks), ks[i]) * ks[i]) % Order]
           agg == [pk |-> Total(f), second |-> Second(ks), hash |-> PksHash(ks),
                   parity |-> FALSE, tweak |-> 0]
<1>1. f \in [Signers -> Int]
    <2>1. ASSUME NEW i \in Signers
          PROVE  (KeyAggCoef(Second(ks), PksHash(ks), ks[i]) * ks[i]) % Order \in Int
        <3>1. KeyAggCoef(Second(ks), PksHash(ks), ks[i]) \in Int /\ ks[i] \in Int
            BY PksHashType, CoefType, KeyFacts
        <3>2. KeyAggCoef(Second(ks), PksHash(ks), ks[i]) * ks[i] \in Int
            BY <3>1
        <3> QED
            BY <3>2, CongMod, KeyFacts
    <2> QED
        BY <2>1
<1>2. PubkeyAgg(ks) = agg
    BY DEF PubkeyAgg
<1>3. Total(f) \in Scalar32 /\ 0 \in Scalar32
    BY <1>1, TotalType, OrderFacts DEF Scalar32
<1> HIDE DEF f
<1>4. agg.pk = Total(f) /\ agg.parity = FALSE /\ agg.tweak = 0
    OBVIOUS
<1>5. ASSUME Total(f) # 0 PROVE agg \in Caches(ks)
    <2>1. Total(f) \in Key
        BY <1>3, <1>5, KeyFacts
    <2> QED
        BY <1>3, <2>1 DEF Caches
<1> HIDE DEF agg
<1> QED
    BY <1>2, <1>3, <1>4, <1>5 DEF f

(* A challenge is a scalar.                                                *)
LEMMA ChallengeType ==
    ASSUME NEW r \in Residue, NEW pk \in Residue, NEW msg \in Messages
    PROVE  Challenge(r, msg, pk) \in Scalar32
<1>1. Hash("challenge", <<r, pk, msg>>) \in Bytes32
    BY HashAssumption
<1> QED
    BY <1>1, ReducedFacts DEF Challenge

(* Nonces are pairs of scalars.                                            *)
LEMMA NoncesType ==
    ASSUME NEW c \in DOMAIN Draws, NEW sk \in 1 .. Order, NEW pk \in Key, NEW x \in Residue
    PROVE  NoncesFor(Draws[c], sk, pk, x) \in NoncePairs
<1>1. ASSUME NEW j \in 1 .. 2
      PROVE  Reduced(Hash("nonce", <<Draws[c], sk, pk, x, j>>)) \in Scalar32
    <2>1. Hash("nonce", <<Draws[c], sk, pk, x, j>>) \in Bytes32
        BY HashAssumption DEF Key
    <2> QED
        BY <2>1, ReducedFacts
<1> QED
    BY <1>1 DEF NoncesFor, NoncePairs

(* The effective nonce of two scalars.                                     *)
LEMMA EffectiveFacts ==
    ASSUME NEW k, k[1] \in Int, k[2] \in Int, NEW b \in Int
    PROVE  Effective(k, b) \in Scalar32 /\ Cong(Effective(k, b), k[1] + b * k[2])
<1>1. k[1] + b * k[2] \in Int
    OBVIOUS
<1> QED
    BY <1>1, CongMod DEF Effective
-----------------------------------------------------------------------------
(* A tweak, plain or x-only, keeps what the cache knows of the key in step *)
(* with the key.                                                           *)
InStep(c, agg) == c.pk = (SignFor(c.parity, agg) + c.tweak) % Order

(* A tweak that is added, plain or x-only, keeps key and tweak in step.    *)
LEMMA TweakKeepsStep ==
    ASSUME NEW ks, NEW c \in Caches(ks), NEW t \in Bytes32, NEW xonly \in BOOLEAN,
           NEW agg \in Int, InStep(c, agg)
    PROVE  TweakAdd(c, t, xonly) \in Caches(ks) /\ InStep(TweakAdd(c, t, xonly), agg)
<1> DEFINE flip == xonly /\ OddY(c.pk)
           n == IF flip THEN Minus(c.pk) ELSE c.pk
           u == IF flip THEN Minus(c.tweak) ELSE c.tweak
           key == (n + t) % Order
           new == [c EXCEPT !.pk = key, !.parity = (@ # flip), !.tweak = (u + t) % Order]
<1>1. /\ c.pk \in Key /\ c.parity \in BOOLEAN /\ c.tweak \in Scalar32
      /\ c = [pk |-> c.pk, second |-> Second(ks), hash |-> PksHash(ks),
              parity |-> c.parity, tweak |-> c.tweak]
    BY DEF Caches
<1>2. c.pk \in Int /\ c.tweak \in Int /\ t \in Int
    BY <1>1, KeyFacts, OppositesAssumption DEF Bytes32
<1>3. flip \in BOOLEAN /\ n = SignFor(flip, c.pk) /\ u = SignFor(flip, c.tweak)
    BY DEF SignFor, OddY
<1>4. PICK g \in Int : g = Sign(flip)
    BY <1>3, SignFacts
<1>5. n \in Int /\ u \in Int /\ Cong(n, g * c.pk) /\ Cong(u, g * c.tweak)
    BY <1>2, <1>3, <1>4, SignForFacts
<1>6. TweakAdd(c, t, xonly) = IF ~Overflows(t) /\ key # 0 THEN new ELSE c
    <2>1. TweakAdded(n, t) = IF ~Overflows(t) /\ key # 0 THEN Done(key) ELSE Failed
        BY DEF TweakAdded, When
    <2> HIDE DEF key, n
    <2>2. CASE ~Overflows(t) /\ key # 0
        <3>1. TweakAdded(n, t).ok /\ TweakAdded(n, t).key = key
            BY <2>1, <2>2 DEF Done
        <3> USE DEF n
        <3>2. TweakAdd(c, t, xonly) =
                [c EXCEPT !.pk = TweakAdded(n, t).key, !.parity = (@ # flip),
                          !.tweak = (u + t) % Order]
            BY <1>1, <3>1 DEF TweakAdd
        <3> QED
            BY <2>2, <3>1, <3>2
    <2>3. CASE ~(~Overflows(t) /\ key # 0)
        <3>1. ~TweakAdded(n, t).ok
            BY <2>1, <2>3 DEF Failed
        <3> USE DEF n
        <3>2. TweakAdd(c, t, xonly) = c
            BY <3>1 DEF TweakAdd
        <3> QED
            BY <2>3, <3>2
    <2> QED
        BY <2>2, <2>3
<1>7. ASSUME key # 0
      PROVE  new \in Caches(ks) /\ InStep(new, agg)
    <2>1. key \in Scalar32 /\ Cong(key, n + t) /\ n + t \in Int
        BY <1>2, <1>5, CongMod
    <2>2. PICK k \in Key : k = key
        BY <1>7, <2>1, KeyFacts
    <2>3. PICK v \in Scalar32 : v = (u + t) % Order /\ Cong(v, u + t)
        BY <1>2, <1>5, CongMod
    <2>4. PICK p \in BOOLEAN : p = (c.parity # flip)
        BY <1>1, <1>3
    <2>5. new = [c EXCEPT !.pk = k, !.parity = p, !.tweak = v]
        BY <1>1, <2>2, <2>3, <2>4
    <2>6. new \in Caches(ks) /\ new.pk = k /\ new.parity = p /\ new.tweak = v
        BY <1>1, <2>5 DEF Caches
    <2>7. PICK o \in Int : o = Sign(c.parity) /\ Sign(p) = o * g
        BY <1>1, <1>3, <1>4, <2>4, SignFacts
    <2>8. PICK a \in Int : a = SignFor(p, agg) /\ Cong(a, (o * g) * agg)
        BY <2>7, SignForFacts
    <2>9. PICK b \in Int : b = SignFor(c.parity, agg) /\ Cong(b, o * agg)
        BY <1>1, <2>7, SignForFacts
    <2> PICK w \in Int : w = c.tweak
        BY <1>2
    <2> PICK q \in Int : q = c.pk
        BY <1>2
    <2>10. Cong(q, b + w)
        BY <2>9, CongMod DEF InStep
    <2>11. b + w \in Int /\ g * b \in Int /\ g * w \in Int /\ g * q \in Int /\ g * (o * agg) \in Int
        OBVIOUS
    <2>12. Cong(n, g * (b + w))
        <3>1. Cong(g * q, g * (b + w)) /\ g * (b + w) \in Int
            BY <2>10, <2>11, CongTimes
        <3> QED
            BY <1>5, <2>11, <3>1, CongTrans
    <2>13. Cong(n, g * b + g * w)
        <3>1. g * (b + w) = g * b + g * w
            OBVIOUS
        <3> QED
            BY <2>12, <3>1
    <2>14. Cong(g * b, a)
        <3>4. o * agg \in Int
            OBVIOUS
        <3>1. Cong(g * b, g * (o * agg))
            BY <2>9, <3>4, CongTimes
        <3>2. g * (o * agg) = (o * g) * agg
            OBVIOUS
        <3>3. Cong((o * g) * agg, a) /\ (o * g) * agg \in Int
            BY <2>8, CongSym
        <3> QED
            BY <2>11, <3>1, <3>2, <3>3, CongTrans
    <2>15. Cong(g * w, u)
        BY <1>5, <2>11, CongSym
    <2>16. Cong(n, a + u)
        <3>1. Cong(g * b + g * w, a + u)
            BY <1>5, <2>11, <2>14, <2>15, CongAdd
        <3>2. g * b + g * w \in Int /\ a + u \in Int
            BY <1>5, <2>11
        <3> QED
            BY <1>5, <2>13, <3>1, <3>2, CongTrans
    <2>17. Cong(k, a + v)
        <3>1. Cong(t, t) /\ Cong(a, a)
            BY <1>2, CongRefl
        <3>8. a + u \in Int
            BY <1>5
        <3>2. Cong(n + t, (a + u) + t)
            BY <1>2, <1>5, <2>16, <3>1, <3>8, CongAdd
        <3>3. (a + u) + t = a + (u + t) /\ u + t \in Int /\ a + (u + t) \in Int
            BY <1>2, <1>5
        <3>4. Cong(u + t, v) /\ v \in Int
            BY <2>3, <3>3, CongSym, KeyFacts
        <3>5. Cong(a + (u + t), a + v) /\ a + v \in Int
            BY <3>1, <3>3, <3>4, CongAdd
        <3>6. Cong(n + t, a + v)
            BY <2>1, <3>2, <3>3, <3>5, CongTrans
        <3>7. k \in Int
            BY KeyFacts
        <3> QED
            BY <2>1, <2>2, <3>5, <3>6, <3>7, CongTrans
    <2>18. k = (a + v) % Order
        <3>1. v \in Int /\ k \in Int /\ k \in Scalar32
            BY KeyFacts
        <3>2. a + v \in Int
            BY <3>1
        <3>3. PICK z \in Scalar32 : z = (a + v) % Order /\ Cong(z, a + v)
            BY <3>2, CongMod
        <3>4. z \in Int
            BY KeyFacts
        <3>5. Cong(k, z)
            BY <2>17, <3>1, <3>2, <3>3, <3>4, CongSym, CongTrans
        <3> QED
            BY <3>1, <3>3, <3>5, CongEqual
    <2> QED
        BY <2>6, <2>8, <2>18 DEF InStep
<1> HIDE DEF new, key
<1> QED
    BY <1>6, <1>7
-----------------------------------------------------------------------------
(* What one signer adds to the signature.                                  *)
Share(c, ses, pk, k) ==
    Sign(Negated(c)) * (ses.e * (CoefIn(c, pk) * pk)) + Sign(ses.parity) * (k[1] + ses.b * k[2])

(* Whether a signer negates the key, from the key's y and the parity.      *)
LEMMA NegatedType ==
    ASSUME NEW ks, NEW c \in Caches(ks)
    PROVE  /\ Negated(c) \in BOOLEAN /\ OddY(c.pk) \in BOOLEAN /\ c.parity \in BOOLEAN
           /\ c.pk \in Key /\ Negated(c) = (OddY(c.pk) # c.parity)
BY DEF Negated, OddY, Caches

(* A signer's coefficient of the aggregate is a number.                    *)
LEMMA CoefInType ==
    ASSUME NEW ks \in [Signers -> Key], NEW c \in Caches(ks), NEW pk \in Key
    PROVE  CoefIn(c, pk) \in Scalar32
<1>1. c.hash = PksHash(ks) /\ PksHash(ks) \in Bytes32
    BY PksHashType DEF Caches
<1> QED
    BY <1>1, CoefType DEF CoefIn

(* The two nonces of a pair are numbers.                                   *)
LEMMA NoncePairFacts ==
    ASSUME NEW k \in NoncePairs
    PROVE  k[1] \in Int /\ k[2] \in Int
<1>1. k[1] \in Scalar32 /\ k[2] \in Scalar32
    BY DEF NoncePairs
<1> QED
    BY <1>1, KeyFacts

(* PartialSign makes the signer's share, for the key that was aggregated.  *)
LEMMA PartialSignFacts ==
    ASSUME NEW ks \in [Signers -> Key], NEW c \in Caches(ks), NEW ses,
           ses.parity \in BOOLEAN, ses.e \in Int, ses.b \in Int,
           NEW sk \in Key, NEW k \in NoncePairs
    PROVE  /\ PartialSign(sk, k, c, ses) \in Scalar32
           /\ Cong(PartialSign(sk, k, c, ses), Share(c, ses, sk, k))
           /\ Share(c, ses, sk, k) \in Int
<1>1. PICK e, b, x, coef \in Int : e = ses.e /\ b = ses.b /\ x = sk /\ coef = CoefIn(c, sk)
    BY CoefInType, KeyFacts
<1>2. PICK k1, k2 \in Int : k1 = k[1] /\ k2 = k[2]
    BY NoncePairFacts
<1>3. PICK g, h \in Int : g = Sign(Negated(c)) /\ h = Sign(ses.parity)
    BY NegatedType, SignFacts
<1>4. PICK d \in Int : d = SignFor(Negated(c), sk) /\ Cong(d, g * x)
    BY <1>1, <1>3, NegatedType, SignForFacts
<1>5. PICK m1 \in Int : m1 = SignFor(ses.parity, k[1]) /\ Cong(m1, h * k1)
    BY <1>2, <1>3, SignForFacts
<1>6. PICK m2 \in Int : m2 = SignFor(ses.parity, k[2]) /\ Cong(m2, h * k2)
    BY <1>2, <1>3, SignForFacts
<1> DEFINE kk == [j \in 1 .. 2 |-> SignFor(ses.parity, k[j])]
<1>7. kk[1] = m1 /\ kk[2] = m2
    BY <1>5, <1>6
<1> HIDE DEF kk
<1>8. PICK f \in Int : f = Effective(kk, ses.b) /\ Cong(f, m1 + b * m2)
    BY <1>1, <1>7, EffectiveFacts, KeyFacts
<1>9. PartialSign(sk, k, c, ses) = (e * coef * d + f) % Order
    BY <1>1, <1>4, <1>8, CreatedKey DEF PartialSign, kk
<1>10. Share(c, ses, sk, k) = g * (e * (coef * x)) + h * (k1 + b * k2)
    BY <1>1, <1>2, <1>3 DEF Share
<1>11. PICK u \in Int : u = e * coef
    OBVIOUS
<1>12. Cong(u * d, u * (g * x)) /\ u * (g * x) \in Int /\ u * d \in Int
    <2>1. g * x \in Int
        OBVIOUS
    <2>2. Cong(u * d, u * (g * x))
        BY <1>4, <2>1, CongTimes
    <2> QED
        BY <2>2
<1>13. u * (g * x) = g * (e * (coef * x))
    BY <1>11
<1>14. Cong(b * m2, b * (h * k2)) /\ b * m2 \in Int /\ b * (h * k2) \in Int
    <2>1. h * k2 \in Int
        OBVIOUS
    <2>2. Cong(b * m2, b * (h * k2))
        BY <1>6, <2>1, CongTimes
    <2> QED
        BY <2>2
<1>15. h * k1 \in Int /\ h * k1 + b * (h * k2) = h * (k1 + b * k2) /\ h * (k1 + b * k2) \in Int
    OBVIOUS
<1>16. Cong(m1 + b * m2, h * (k1 + b * k2)) /\ m1 + b * m2 \in Int
    <2>1. Cong(m1 + b * m2, h * k1 + b * (h * k2))
        BY <1>5, <1>14, <1>15, CongAdd
    <2> QED
        BY <1>14, <1>15, <2>1
<1>17. Cong(f, h * (k1 + b * k2))
    BY <1>8, <1>15, <1>16, CongTrans
<1>18. PICK y, z, w \in Int : y = u * d /\ z = g * (e * (coef * x)) /\ w = h * (k1 + b * k2)
    OBVIOUS
<1>19. Cong(y + f, z + w) /\ y + f \in Int /\ z + w \in Int
    <2>1. Cong(y, z) /\ Cong(f, w)
        BY <1>12, <1>13, <1>17, <1>18
    <2>2. Cong(y + f, z + w)
        BY <2>1, CongAdd
    <2> QED
        BY <2>2
<1>20. (y + f) % Order \in Scalar32 /\ Cong((y + f) % Order, z + w)
    BY <1>19, CongMod, CongModOf
<1> QED
    BY <1>9, <1>10, <1>11, <1>18, <1>19, <1>20

(* A partial signature verifies exactly if it is the signer's share.       *)
LEMMA VerifyFacts ==
    ASSUME NEW ks \in [Signers -> Key], NEW c \in Caches(ks), NEW ses,
           ses.parity \in BOOLEAN, ses.e \in Int, ses.b \in Int,
           NEW pk \in Key, NEW k \in NoncePairs, NEW s \in Int
    PROVE  /\ PartialSigVerify(s, k, pk, c, ses) <=> Cong(s, Share(c, ses, pk, k))
           /\ Share(c, ses, pk, k) \in Int
<1>1. PICK e, b, x, coef \in Int : e = ses.e /\ b = ses.b /\ x = pk /\ coef = CoefIn(c, pk)
    BY CoefInType, KeyFacts
<1>2. PICK k1, k2 \in Int : k1 = k[1] /\ k2 = k[2]
    BY NoncePairFacts
<1>3. PICK g, h \in Int : g = Sign(Negated(c)) /\ h = Sign(ses.parity)
    BY NegatedType, SignFacts
<1>4. PICK u \in Int : u = e * coef
    OBVIOUS
<1>5. PICK d \in Int : d = SignFor(Negated(c), u) /\ Cong(d, g * u)
    BY <1>3, NegatedType, SignForFacts
<1>6. PICK f \in Int : f = Effective(k, ses.b) /\ Cong(f, k1 + b * k2)
    BY <1>1, <1>2, EffectiveFacts, KeyFacts
<1>7. PICK m \in Int : m = SignFor(ses.parity, f) /\ Cong(m, h * f)
    BY <1>3, SignForFacts
<1>8. PartialSigVerify(s, k, pk, c, ses) <=> (d * x + m - s) % Order = 0
    BY <1>1, <1>4, <1>5, <1>6, <1>7 DEF PartialSigVerify
<1>9. Share(c, ses, pk, k) = g * (e * (coef * x)) + h * (k1 + b * k2)
    BY <1>1, <1>2, <1>3 DEF Share
<1>10. Cong(d * x, g * (e * (coef * x)))
    <2>1. g * u \in Int
        OBVIOUS
    <2>2. Cong(d * x, (g * u) * x)
        BY <1>5, <2>1, CongTimes
    <2>3. (g * u) * x = g * (e * (coef * x))
        BY <1>4
    <2> QED
        BY <2>2, <2>3
<1>11. Cong(m, h * (k1 + b * k2))
    <2>1. k1 + b * k2 \in Int /\ h * f \in Int /\ h * (k1 + b * k2) \in Int
        OBVIOUS
    <2>2. Cong(h * f, h * (k1 + b * k2))
        BY <1>6, <2>1, CongTimes
    <2> QED
        BY <1>7, <2>1, <2>2, CongTrans
<1>12. PICK y, z, w \in Int : y = d * x /\ z = g * (e * (coef * x)) /\ w = h * (k1 + b * k2)
    OBVIOUS
<1>13. Cong(y + m, z + w)
    BY <1>10, <1>11, <1>12, CongAdd
<1>14. y + m \in Int /\ z + w \in Int /\ y + m - s \in Int
    OBVIOUS
<1>15. Cong(y + m - s, 0) <=> Cong(s, z + w)
    BY <1>13, <1>14, CongDifference
<1>16. Cong(y + m - s, 0) <=> (y + m - s) % Order = 0
    BY <1>14, CongZero
<1> QED
    BY <1>8, <1>9, <1>12, <1>14, <1>15, <1>16
-----------------------------------------------------------------------------
(* What a session knows: its nonce is that of a key, and of the total of   *)
(* the announced nonces if that is not infinite.                           *)
NonceTotal(ns, j) == Total([i \in Signers |-> ns[i][j]])

(* The aggregated nonces are scalars.                                      *)
LEMMA NonceTotalType ==
    ASSUME NEW ns \in [Signers -> NoncePairs], NEW j \in 1 .. 2
    PROVE  NonceTotal(ns, j) \in Scalar32
<1>1. [i \in Signers |-> ns[i][j]] \in [Signers -> Int]
    BY KeyFacts DEF NoncePairs
<1> QED
    BY <1>1, TotalType DEF NonceTotal

IsSession(ses, ns, msg, c) == ses = SessionOf(ns, msg, c)

(* What a session holds: scalars, and whether its nonce has an odd y.      *)
LEMMA SessionFacts ==
    ASSUME NEW ks \in [Signers -> Key], NEW c \in Caches(ks),
           NEW ns \in [Signers -> NoncePairs], NEW msg \in Messages,
           NEW ses, IsSession(ses, ns, msg, c)
    PROVE  /\ ses.nonces = ns /\ ses.msg = msg /\ ses.parity \in BOOLEAN
           /\ ses.e \in Scalar32 /\ ses.b \in Scalar32 /\ ses.part \in Int
           /\ Cong(ses.part, Sign(OddY(c.pk)) * (ses.e * c.tweak))
           /\ \E r \in Key :
                /\ (ses.parity <=> OddY(r)) /\ ses.nonce = X(r)
                /\ ses.e = Challenge(X(r), msg, X(c.pk))
                /\ ~ses.infinite => Cong(r, NonceTotal(ns, 1) + ses.b * NonceTotal(ns, 2))
<1>1. PICK n1, n2 \in Scalar32 : n1 = NonceTotal(ns, 1) /\ n2 = NonceTotal(ns, 2)
    BY NonceTotalType
<1>2. PICK q \in Key : q = c.pk /\ c.tweak \in Int
    BY KeyFacts DEF Caches
<1>3. X(q) \in Residue
    BY PointFacts
<1> DEFINE agg == [j \in 1 .. 2 |-> Total([i \in Signers |-> ns[i][j]])]
           b == Reduced(Hash("noncecoef", <<agg[1], agg[2], X(c.pk), msg>>))
           r == IF Effective(agg, b) = 0 THEN 1 ELSE Effective(agg, b)
           e == Challenge(X(r), msg, X(c.pk))
           part == SignFor(OddY(c.pk), (e * c.tweak) % Order)
<1>4. agg[1] = n1 /\ agg[2] = n2
    BY <1>1 DEF NonceTotal
<1> HIDE DEF agg
<1>5. b \in Scalar32
    <2>1. Hash("noncecoef", <<n1, n2, X(q), msg>>) \in Bytes32
        BY <1>3, HashAssumption DEF Scalar32
    <2> QED
        BY <1>2, <1>4, <2>1, ReducedFacts
<1>6. ses = [parity |-> OddY(r), nonce |-> X(r), b |-> b, e |-> e, part |-> part,
             nonces |-> ns, msg |-> msg, infinite |-> Effective(agg, b) = 0]
    BY DEF IsSession, SessionOf, agg
<1> HIDE DEF b
<1>7. /\ Effective(agg, b) \in Scalar32
      /\ Cong(Effective(agg, b), n1 + b * n2)
    <2>1. n1 \in Int /\ n2 \in Int /\ b \in Int
        BY <1>5, KeyFacts
    <2> QED
        BY <1>4, <2>1, EffectiveFacts
<1>8. r \in Key /\ (Effective(agg, b) # 0 => r = Effective(agg, b))
    <2>1. 1 \in Key
        BY OrderFacts DEF Key
    <2> QED
        BY <1>7, <2>1, KeyFacts
<1> HIDE DEF r
<1>9. X(r) \in Residue /\ OddY(r) \in BOOLEAN
    BY <1>8, PointFacts
<1>10. e \in Scalar32
    BY <1>2, <1>3, <1>9, ChallengeType
<1>e. e = Challenge(X(r), msg, X(c.pk))
    OBVIOUS
<1> HIDE DEF e
<1>11. part \in Int /\ Cong(part, Sign(OddY(c.pk)) * (e * c.tweak))
    <2>1. PICK et \in Int : et = e * c.tweak
        BY <1>2, <1>10, KeyFacts
    <2>2. PICK m \in Int : m = et % Order /\ Cong(m, et)
        BY CongMod, KeyFacts
    <2>3. PICK s \in Int : s = Sign(OddY(c.pk)) /\ OddY(c.pk) \in BOOLEAN
        BY <1>2, PointFacts, SignFacts
    <2>4. part \in Int /\ Cong(part, s * m)
        BY <2>1, <2>2, <2>3, SignForFacts
    <2>5. Cong(s * m, s * et)
        BY <2>2, CongTimes
    <2>6. s * m \in Int /\ s * et \in Int
        OBVIOUS
    <2>7. Cong(part, s * et)
        BY <2>4, <2>5, <2>6, CongTrans
    <2> QED
        BY <2>1, <2>3, <2>4, <2>7
<1> HIDE DEF part
<1>12. /\ ses.nonces = ns /\ ses.msg = msg /\ ses.parity = OddY(r) /\ ses.nonce = X(r)
       /\ ses.b = b /\ ses.e = e /\ ses.part = part /\ ses.infinite = (Effective(agg, b) = 0)
    BY <1>6
<1>13. ~ses.infinite => Cong(r, NonceTotal(ns, 1) + ses.b * NonceTotal(ns, 2))
    BY <1>1, <1>7, <1>8, <1>12
<1> QED
    BY <1>5, <1>8, <1>9, <1>10, <1>e, <1>11, <1>12, <1>13
-----------------------------------------------------------------------------
(* The shares of all add up to those of the aggregated key and nonce.      *)
ShareTotal(c, ses, agg, n1, n2) ==
    Sign(Negated(c)) * (ses.e * agg) + Sign(ses.parity) * (n1 + ses.b * n2)

(* The shares of all signers add up to one of the aggregated key.          *)
LEMMA SharesAddUp ==
    ASSUME NEW ks \in [Signers -> Key], NEW c \in Caches(ks),
           NEW ns \in [Signers -> NoncePairs], NEW ses,
           ses.parity \in BOOLEAN, ses.e \in Int, ses.b \in Int,
           NEW ss \in [Signers -> Int],
           \A i \in Signers : Cong(ss[i], Share(c, ses, ks[i], ns[i]))
    PROVE  Cong(Total(ss), ShareTotal(c, ses, PubkeyAgg(ks).pk, NonceTotal(ns, 1), NonceTotal(ns, 2)))
<1>1. PICK s, h \in Int : s = Sign(Negated(c)) /\ h = Sign(ses.parity)
    BY NegatedType, SignFacts
<1>2. PICK e, b \in Int : e = ses.e /\ b = ses.b
    OBVIOUS
<1> DEFINE g == [i \in Signers |-> (KeyAggCoef(Second(ks), PksHash(ks), ks[i]) * ks[i]) % Order]
           n1 == [i \in Signers |-> ns[i][1]]
           n2 == [i \in Signers |-> ns[i][2]]
<1>3. PICK se, hb \in Int : se = s * e /\ hb = h * b
    OBVIOUS
<1>4. ASSUME NEW i \in Signers
      PROVE  /\ g[i] \in Int /\ n1[i] \in Int /\ n2[i] \in Int
             /\ Cong(ss[i], se * g[i] + h * n1[i] + hb * n2[i])
    <2>1. PICK coef, x \in Int : coef = CoefIn(c, ks[i]) /\ x = ks[i]
        BY CoefInType, KeyFacts
    <2>2. coef = KeyAggCoef(Second(ks), PksHash(ks), ks[i])
        BY <2>1 DEF CoefIn, Caches
    <2>3. PICK k1, k2 \in Int : k1 = ns[i][1] /\ k2 = ns[i][2]
        BY NoncePairFacts
    <2>4. PICK cx \in Int : cx = coef * x
        OBVIOUS
    <2>5. PICK m \in Int : m = cx % Order /\ Cong(cx, m)
        BY CongMod, CongSym, KeyFacts
    <2>6. g[i] = m /\ n1[i] = k1 /\ n2[i] = k2
        BY <2>1, <2>2, <2>3, <2>4, <2>5
    <2>7. Share(c, ses, ks[i], ns[i]) = s * (e * cx) + h * (k1 + b * k2)
        BY <1>1, <1>2, <2>1, <2>3, <2>4 DEF Share
    <2>8. s * (e * cx) + h * (k1 + b * k2) = se * cx + (h * k1 + hb * k2)
        BY <1>3
    <2>9. Cong(se * cx, se * m)
        BY <2>5, CongTimes
    <2>10. PICK y, z, w \in Int : y = se * cx /\ z = se * m /\ w = h * k1 + hb * k2
        OBVIOUS
    <2>11. Cong(y + w, z + w)
        <3>1. Cong(w, w) /\ Cong(y, z)
            BY <2>9, <2>10, CongRefl
        <3> QED
            BY <3>1, CongAdd
    <2>12. z + w = se * m + h * k1 + hb * k2
        BY <2>10
    <2>13. Cong(ss[i], y + w) /\ ss[i] \in Int
        BY <2>7, <2>8, <2>10
    <2>14. Cong(ss[i], z + w)
        <3>1. y + w \in Int /\ z + w \in Int
            OBVIOUS
        <3> QED
            BY <2>11, <2>13, <3>1, CongTrans
    <2> QED
        BY <2>6, <2>12, <2>14
<1>5. g \in [Signers -> Int] /\ n1 \in [Signers -> Int] /\ n2 \in [Signers -> Int]
    BY <1>4
<1>6. /\ Total(g) = PubkeyAgg(ks).pk
      /\ Total(n1) = NonceTotal(ns, 1) /\ Total(n2) = NonceTotal(ns, 2)
    BY PubkeyAggFacts DEF NonceTotal
<1> HIDE DEF g, n1, n2
<1>7. Cong(Total(ss), se * Total(g) + h * Total(n1) + hb * Total(n2))
    BY <1>4, <1>5, TotalLinear
<1>8. PICK tg, t1, t2 \in Int : tg = Total(g) /\ t1 = Total(n1) /\ t2 = Total(n2)
    BY <1>5, TotalType, KeyFacts
<1>9. se * tg + h * t1 + hb * t2 = s * (e * tg) + h * (t1 + b * t2)
    BY <1>3
<1> QED
    BY <1>1, <1>2, <1>6, <1>7, <1>8, <1>9 DEF ShareTotal
-----------------------------------------------------------------------------
(* The key and the nonce that a signature verifies with are those with an  *)
(* even y: what verification reckons is the nonce and what the partial     *)
(* signatures are off their shares by.                                     *)
LEMMA SignatureSum ==
    ASSUME NEW ks \in [Signers -> Key], NEW c \in Caches(ks), InStep(c, PubkeyAgg(ks).pk),
           NEW ses, ses.parity \in BOOLEAN, ses.e \in Int, ses.b \in Int, ses.part \in Int,
           Cong(ses.part, Sign(OddY(c.pk)) * (ses.e * c.tweak))
    PROVE  \A r \in Key, n1, n2, total, off \in Int :
              /\ Cong(r, n1 + ses.b * n2) /\ (ses.parity <=> OddY(r))
              /\ Cong(total, ShareTotal(c, ses, PubkeyAgg(ks).pk, n1, n2) + off)
              => Cong(ses.part + total - ses.e * EvenY(c.pk), EvenY(r) + off)
<1> SUFFICES ASSUME NEW r \in Key, NEW n1 \in Int, NEW n2 \in Int,
                    NEW total \in Int, NEW off \in Int,
                    Cong(r, n1 + ses.b * n2), ses.parity <=> OddY(r),
                    Cong(total, ShareTotal(c, ses, PubkeyAgg(ks).pk, n1, n2) + off)
             PROVE  Cong(ses.part + total - ses.e * EvenY(c.pk), EvenY(r) + off)
    OBVIOUS
<1>1. PICK e, b, part, tw, agg, q, rr \in Int :
          /\ e = ses.e /\ b = ses.b /\ part = ses.part /\ tw = c.tweak
          /\ agg = PubkeyAgg(ks).pk /\ q = c.pk /\ rr = r
    <2>1. c.tweak \in Int /\ c.pk \in Int /\ r \in Int /\ PubkeyAgg(ks).pk \in Int
        BY PubkeyAggFacts, KeyFacts DEF Caches
    <2> QED
        BY <2>1
<1>2. c.pk \in Key /\ c.parity \in BOOLEAN /\ OddY(c.pk) \in BOOLEAN
      /\ Negated(c) = (OddY(c.pk) # c.parity)
    BY NegatedType
<1>3. PICK o, p, h \in Int : o = Sign(OddY(c.pk)) /\ p = Sign(c.parity) /\ h = Sign(ses.parity)
    BY <1>2, SignFacts
<1>4. Sign(Negated(c)) = o * p
    BY <1>2, <1>3, SignFacts
<1>5. PICK n \in Int : n = n1 + b * n2 /\ Cong(rr, n)
    BY <1>1
<1>6. Cong(part, o * (e * tw)) /\ Cong(total, (o * p) * (e * agg) + h * n + off)
    BY <1>1, <1>3, <1>4, <1>5 DEF ShareTotal
<1>7. Cong(q, p * agg + tw)
    <2>1. PICK m \in Int : m = SignFor(c.parity, agg) /\ Cong(m, p * agg)
        BY <1>2, <1>3, SignForFacts
    <2>2. m + tw \in Int /\ p * agg \in Int /\ p * agg + tw \in Int
        OBVIOUS
    <2>3. Cong(q, m + tw)
        BY <1>1, <2>1, <2>2, CongMod DEF InStep
    <2>4. Cong(m + tw, p * agg + tw)
        BY <2>1, <2>2, CongRefl, CongAdd
    <2> QED
        BY <2>2, <2>3, <2>4, CongTrans
<1>8. PICK oe \in Int : oe = o * e
    OBVIOUS
<1>9. PICK Q, Agg \in Int : Q = EvenY(c.pk) /\ Agg = EvenY(r) /\ Cong(Q, o * q) /\ Cong(Agg, h * rr)
    <2>1. EvenY(c.pk) \in Int /\ Cong(EvenY(c.pk), o * q)
        BY <1>1, <1>2, <1>3, EvenYFacts, KeyFacts
    <2>2. EvenY(r) \in Int /\ Cong(EvenY(r), h * rr)
        <3>1. h = Sign(OddY(r))
            BY <1>3 DEF Sign
        <3> QED
            BY <1>1, <3>1, EvenYFacts, KeyFacts
    <2> QED
        BY <2>1, <2>2
<1>10. PICK x, y, z, v \in Int : x = oe * q /\ y = h * n /\ z = o * (e * tw) /\ v = (o * p) * (e * agg)
    OBVIOUS
<1>11. Cong(e * Q, x)
    <2>1. o * q \in Int
        OBVIOUS
    <2>2. Cong(e * Q, e * (o * q))
        BY <1>9, <2>1, CongTimes
    <2>3. e * (o * q) = x
        BY <1>8, <1>10
    <2> QED
        BY <2>2, <2>3
<1>12. Cong(x, z + v)
    <2>1. p * agg + tw \in Int
        OBVIOUS
    <2>2. Cong(oe * q, oe * (p * agg + tw))
        BY <1>7, <2>1, CongTimes
    <2>3. oe * (p * agg + tw) = z + v
        BY <1>8, <1>10
    <2> QED
        BY <1>10, <2>2, <2>3
<1>13. Cong(y, Agg)
    <2>1. Cong(h * rr, h * n)
        BY <1>5, CongTimes
    <2>2. h * rr \in Int
        OBVIOUS
    <2>3. Cong(Agg, y)
        BY <1>9, <1>10, <2>1, <2>2, CongTrans
    <2> QED
        BY <2>3, CongSym
<1>14. Cong(part + total, z + (v + y + off))
    <2>1. v + y + off \in Int
        OBVIOUS
    <2>2. Cong(part, z) /\ Cong(total, v + y + off)
        BY <1>6, <1>10
    <2> QED
        BY <2>1, <2>2, CongAdd
<1>15. PICK eQ \in Int : eQ = e * Q
    OBVIOUS
<1>16. Cong(eQ, z + v)
    <2>1. z + v \in Int
        OBVIOUS
    <2> QED
        BY <1>11, <1>12, <1>15, <2>1, CongTrans
<1>17. Cong((part + total) - eQ, (z + (v + y + off)) - (z + v))
    <2>1. part + total \in Int /\ z + (v + y + off) \in Int /\ z + v \in Int
        OBVIOUS
    <2> QED
        BY <1>14, <1>16, <2>1, CongMinus
<1>18. (z + (v + y + off)) - (z + v) = y + off
    OBVIOUS
<1>19. Cong(y + off, Agg + off)
    BY <1>13, CongRefl, CongAdd
<1>20. Cong(part + total - eQ, Agg + off)
    <2>1. part + total - eQ \in Int /\ y + off \in Int /\ Agg + off \in Int
        OBVIOUS
    <2> QED
        BY <1>17, <1>18, <1>19, <2>1, CongTrans
<1> QED
    BY <1>1, <1>9, <1>15, <1>20

(* The signature is valid exactly if the partial signatures are off by a   *)
(* multiple of the order.                                                  *)
LEMMA SignatureFacts ==
    ASSUME NEW ks \in [Signers -> Key], NEW c \in Caches(ks), InStep(c, PubkeyAgg(ks).pk),
           NEW ns \in [Signers -> NoncePairs], NEW msg \in Messages,
           NEW ses, IsSession(ses, ns, msg, c), ~ses.infinite
    PROVE  \A ss \in [Signers -> Int], delta \in Int :
              Cong(Total(ss), ShareTotal(c, ses, PubkeyAgg(ks).pk,
                                         NonceTotal(ns, 1), NonceTotal(ns, 2)) + delta)
              => (SchnorrVerify(PartialSigAgg(ses, ss), msg, EvenY(c.pk)) <=> Cong(delta, 0))
<1>1. /\ ses.parity \in BOOLEAN /\ ses.e \in Int /\ ses.b \in Int /\ ses.part \in Int
      /\ Cong(ses.part, Sign(OddY(c.pk)) * (ses.e * c.tweak))
    BY SessionFacts, KeyFacts
<1>s. \A r \in Key, n1, n2, total, d \in Int :
         /\ Cong(r, n1 + ses.b * n2) /\ (ses.parity <=> OddY(r))
         /\ Cong(total, ShareTotal(c, ses, PubkeyAgg(ks).pk, n1, n2) + d)
         => Cong(ses.part + total - ses.e * EvenY(c.pk), EvenY(r) + d)
    BY <1>1, SignatureSum
<1> SUFFICES ASSUME NEW ss \in [Signers -> Int], NEW delta \in Int,
                    Cong(Total(ss), ShareTotal(c, ses, PubkeyAgg(ks).pk,
                                               NonceTotal(ns, 1), NonceTotal(ns, 2)) + delta)
             PROVE  SchnorrVerify(PartialSigAgg(ses, ss), msg, EvenY(c.pk)) <=> Cong(delta, 0)
    OBVIOUS
<1>2. PICK r \in Key :
          /\ (ses.parity <=> OddY(r)) /\ ses.nonce = X(r)
          /\ ses.e = Challenge(X(r), msg, X(c.pk))
          /\ Cong(r, NonceTotal(ns, 1) + ses.b * NonceTotal(ns, 2))
    BY SessionFacts
<1>3. NonceTotal(ns, 1) \in Int /\ NonceTotal(ns, 2) \in Int /\ Total(ss) \in Int
    <2>1. NonceTotal(ns, 1) \in Scalar32 /\ NonceTotal(ns, 2) \in Scalar32
        BY NonceTotalType
    <2>2. Total(ss) \in Scalar32
        BY TotalType
    <2> QED
        BY <2>1, <2>2, KeyFacts
<1>4. c.pk \in Key
    BY NegatedType
<1>5. /\ EvenY(c.pk) \in Key /\ X(EvenY(c.pk)) = X(c.pk)
      /\ EvenY(r) \in Key /\ ~OddY(EvenY(r)) /\ X(EvenY(r)) = X(r)
    BY <1>4, EvenYFacts
<1>6. PICK e, Q, Agg, sum \in Int : /\ e = ses.e /\ Q = EvenY(c.pk) /\ Agg = EvenY(r)
                                  /\ sum = ses.part + Total(ss)
    <2>1. EvenY(c.pk) \in Int /\ EvenY(r) \in Int
        BY <1>5, KeyFacts
    <2> QED
        BY <1>1, <1>3, <2>1
<1>7. Cong(sum - e * Q, Agg + delta)
    <2>1. PICK n1, n2, total \in Int :
              n1 = NonceTotal(ns, 1) /\ n2 = NonceTotal(ns, 2) /\ total = Total(ss)
        BY <1>3
    <2>2. Cong(r, n1 + ses.b * n2)
        BY <1>2, <2>1
    <2>3. Cong(total, ShareTotal(c, ses, PubkeyAgg(ks).pk, n1, n2) + delta)
        BY <2>1
    <2>4. ses.parity <=> OddY(r)
        BY <1>2
    <2>5. Cong(ses.part + total - ses.e * EvenY(c.pk), EvenY(r) + delta)
        BY <1>s, <2>2, <2>3, <2>4
    <2> QED
        BY <1>1, <1>6, <2>1, <2>5
<1>8. PICK s \in Scalar32 : s = sum % Order /\ Cong(s, sum)
    BY <1>6, CongMod
<1>9. s \in Int
    BY KeyFacts
<1>10. PICK eQ \in Int : eQ = e * Q
    OBVIOUS
<1>11. PICK z \in Scalar32 : z = (s - eQ) % Order /\ Cong(z, s - eQ)
    <2>1. s - eQ \in Int
        BY <1>9
    <2> QED
        BY <2>1, CongMod
<1>12. z \in Int
    BY KeyFacts
<1>13. Cong(z, Agg + delta)
    <2>1. Cong(s - eQ, sum - eQ)
        BY <1>8, <1>9, CongRefl, CongMinus
    <2>2. s - eQ \in Int /\ sum - eQ \in Int /\ Agg + delta \in Int
        BY <1>9
    <2>3. Cong(z, sum - eQ)
        BY <1>11, <1>12, <2>1, <2>2, CongTrans
    <2>4. Cong(sum - eQ, Agg + delta)
        BY <1>7, <1>10
    <2> QED
        BY <1>12, <2>2, <2>3, <2>4, CongTrans
<1>14. SchnorrVerify(PartialSigAgg(ses, ss), msg, EvenY(c.pk)) <=>
         X(r) < FieldPrime /\ ~Overflows(s) /\ z # 0 /\ ~OddY(z) /\ X(z) = X(r)
    <2>1. PartialSigAgg(ses, ss) = [r |-> X(r), s |-> s]
        BY <1>2, <1>6, <1>8 DEF PartialSigAgg, Sig
    <2>2. PartialSigAgg(ses, ss).r = X(r) /\ PartialSigAgg(ses, ss).s = s
        BY <2>1
    <2>3. Challenge(X(r), msg, X(EvenY(c.pk))) * EvenY(c.pk) = eQ
        BY <1>2, <1>5, <1>6, <1>10
    <2> QED
        BY <1>11, <2>2, <2>3 DEF SchnorrVerify
<1>15. X(r) < FieldPrime /\ ~Overflows(s)
    <2>1. PICK o \in Nat : o = Order
        BY OrderFacts
    <2>2. s \in 0 .. o - 1
        BY <2>1 DEF Scalar32
    <2>3. ~Overflows(s)
        BY <2>1, <2>2 DEF Overflows
    <2>4. X(r) \in Residue
        BY PointFacts
    <2> QED
        BY <2>3, <2>4, FieldAssumption DEF Residue
<1>16. z # 0 /\ ~OddY(z) /\ X(z) = X(r) <=> z = Agg
    <2>1. ASSUME z # 0, ~OddY(z), X(z) = X(r) PROVE z = Agg
        <3>1. z \in Key /\ X(z) = X(EvenY(r))
            BY <1>5, <2>1, KeyFacts
        <3>2. EvenY(z) = EvenY(EvenY(r))
            BY <1>5, <3>1, SameX
        <3> QED
            BY <1>5, <1>6, <2>1, <3>2 DEF EvenY
    <2>2. ASSUME z = Agg PROVE z # 0 /\ ~OddY(z) /\ X(z) = X(r)
        BY <1>5, <1>6, <2>2, KeyFacts
    <2> QED
        BY <2>1, <2>2
<1>17. z = Agg <=> Cong(delta, 0)
    <2>0. Cong(Agg, Agg) /\ Agg + delta \in Int /\ Agg + delta - Agg = delta /\ Agg + 0 = Agg /\ Agg - Agg = 0
        BY CongRefl
    <2>1. ASSUME z = Agg PROVE Cong(delta, 0)
        <3>1. Cong(Agg + delta, Agg)
            BY <1>12, <1>13, <2>0, <2>1, CongSym
        <3>2. Cong(Agg + delta - Agg, Agg - Agg)
            BY <2>0, <3>1, CongMinus
        <3> QED
            BY <2>0, <3>2
    <2>2. ASSUME Cong(delta, 0) PROVE z = Agg
        <3>1. Cong(Agg + delta, Agg + 0) /\ 0 \in Int
            BY <2>0, <2>2, CongAdd
        <3>2. Cong(z, Agg)
            BY <1>12, <1>13, <2>0, <3>1, CongTrans
        <3>3. Agg \in Scalar32
            BY <1>5, <1>6, KeyFacts
        <3> QED
            BY <3>2, <3>3, CongEqual
    <2> QED
        BY <2>1, <2>2
<1> QED
    BY <1>14, <1>15, <1>16, <1>17

(* Partial signatures that all verify make a valid signature, and ones of  *)
(* which all but one verify make none.                                     *)
Wrong(c, ses, ks, ns, ss) ==
    {i \in Signers : ~PartialSigVerify(ss[i], ns[i], ks[i], c, ses)}

(* Signatures from partial ones that all verify, or all but one.           *)
LEMMA AggregateFacts ==
    ASSUME NEW ks \in [Signers -> Key], NEW c \in Caches(ks), InStep(c, PubkeyAgg(ks).pk),
           NEW ns \in [Signers -> NoncePairs], NEW msg \in Messages,
           NEW ses, IsSession(ses, ns, msg, c), ~ses.infinite
    PROVE  \A ss \in [Signers -> Int] :
              /\ Cardinality(Wrong(c, ses, ks, ns, ss)) = 0
                 => SchnorrVerify(PartialSigAgg(ses, ss), msg, EvenY(c.pk))
              /\ Cardinality(Wrong(c, ses, ks, ns, ss)) = 1
                 => ~SchnorrVerify(PartialSigAgg(ses, ss), msg, EvenY(c.pk))
<1>1. \A ss \in [Signers -> Int], delta \in Int :
         Cong(Total(ss), ShareTotal(c, ses, PubkeyAgg(ks).pk,
                                    NonceTotal(ns, 1), NonceTotal(ns, 2)) + delta)
         => (SchnorrVerify(PartialSigAgg(ses, ss), msg, EvenY(c.pk)) <=> Cong(delta, 0))
    BY SignatureFacts
<1>2. ses.parity \in BOOLEAN /\ ses.e \in Int /\ ses.b \in Int
    BY SessionFacts, KeyFacts
<1> DEFINE sh == [i \in Signers |-> Share(c, ses, ks[i], ns[i])]
<1>3. \A i \in Signers : \A s \in Int :
         /\ PartialSigVerify(s, ns[i], ks[i], c, ses) <=> Cong(s, sh[i])
         /\ sh[i] \in Int
    <2> SUFFICES ASSUME NEW i \in Signers, NEW s \in Int
                 PROVE  /\ PartialSigVerify(s, ns[i], ks[i], c, ses) <=> Cong(s, sh[i])
                        /\ sh[i] \in Int
        OBVIOUS
    <2>1. ks[i] \in Key /\ ns[i] \in NoncePairs /\ sh[i] = Share(c, ses, ks[i], ns[i])
        OBVIOUS
    <2> HIDE DEF sh
    <2> QED
        BY <1>2, <2>1, VerifyFacts
<1>4. sh \in [Signers -> Int]
    BY <1>3
<1>5. PICK t \in Int : t = ShareTotal(c, ses, PubkeyAgg(ks).pk, NonceTotal(ns, 1), NonceTotal(ns, 2))
    <2>1. Sign(Negated(c)) \in Int /\ Sign(ses.parity) \in Int
        BY <1>2, NegatedType, SignFacts
    <2>2. PubkeyAgg(ks).pk \in Int /\ NonceTotal(ns, 1) \in Int /\ NonceTotal(ns, 2) \in Int
        <3>1. PubkeyAgg(ks).pk \in Scalar32
            BY PubkeyAggFacts
        <3>2. NonceTotal(ns, 1) \in Scalar32 /\ NonceTotal(ns, 2) \in Scalar32
            BY NonceTotalType
        <3> QED
            BY <3>1, <3>2, KeyFacts
    <2> QED
        BY <1>2, <2>1, <2>2 DEF ShareTotal
<1>6. \A ss \in [Signers -> Int] : (\A i \in Signers : Cong(ss[i], sh[i])) => Cong(Total(ss), t)
    BY <1>2, <1>5, SharesAddUp
<1>7. Cong(Total(sh), t) /\ Total(sh) \in Int
    BY <1>4, <1>6, CongRefl, TotalType, KeyFacts
<1> HIDE DEF sh
<1> TAKE ss \in [Signers -> Int]
<1>8. IsFiniteSet(Wrong(c, ses, ks, ns, ss)) /\ Wrong(c, ses, ks, ns, ss) \subseteq Signers
    <2>1. IsFiniteSet(Signers)
        BY Signing, FS_Interval
    <2> QED
        BY <2>1, FS_Subset DEF Wrong
<1>9. \A i \in Signers : i \in Wrong(c, ses, ks, ns, ss) <=> ~Cong(ss[i], sh[i])
    BY <1>3 DEF Wrong
<1>10. Total(ss) \in Int
    BY TotalType, KeyFacts
<1>11. ASSUME Cardinality(Wrong(c, ses, ks, ns, ss)) = 0
       PROVE  SchnorrVerify(PartialSigAgg(ses, ss), msg, EvenY(c.pk))
    <2>1. Wrong(c, ses, ks, ns, ss) = {}
        BY <1>8, <1>11, FS_EmptySet
    <2>2. Cong(Total(ss), t)
        BY <1>6, <1>9, <2>1
    <2>3. t + 0 = t /\ Cong(0, 0) /\ 0 \in Int
        BY CongRefl
    <2> QED
        BY <1>1, <1>5, <2>2, <2>3
<1>12. ASSUME Cardinality(Wrong(c, ses, ks, ns, ss)) = 1
       PROVE  ~SchnorrVerify(PartialSigAgg(ses, ss), msg, EvenY(c.pk))
    <2>1. PICK m : Wrong(c, ses, ks, ns, ss) = {m}
        BY <1>8, <1>12, FS_Singleton
    <2>2. m \in Signers /\ ~Cong(ss[m], sh[m]) /\ \A i \in Signers : i # m => Cong(ss[i], sh[i])
        BY <1>8, <1>9, <2>1
    <2>3. PICK delta \in Int : delta = ss[m] - sh[m]
        BY <1>4, <2>2
    <2>4. Cong(Total(ss), Total(sh) + delta)
        BY <1>4, <2>2, <2>3, TotalOneOff
    <2>5. Cong(Total(sh) + delta, t + delta)
        BY <1>7, CongRefl, CongAdd
    <2>6. Cong(Total(ss), t + delta)
        <3>1. Total(sh) + delta \in Int /\ t + delta \in Int
            BY <1>7
        <3> QED
            BY <1>10, <2>4, <2>5, <3>1, CongTrans
    <2>7. ~Cong(delta, 0)
        <3>1. ss[m] \in Int /\ sh[m] \in Int
            BY <1>4, <2>2
        <3>2. Cong(ss[m], ss[m])
            BY <3>1, CongRefl
        <3>3. Cong(ss[m] - sh[m], 0) <=> Cong(sh[m], ss[m])
            BY <3>1, <3>2, CongDifference
        <3> QED
            BY <2>2, <2>3, <3>1, <3>3, CongSym
    <2> QED
        BY <1>1, <1>5, <2>6, <2>7
<1> QED
    BY <1>11, <1>12
-----------------------------------------------------------------------------
(* The invariant.  A session belongs to the cache as it is, since the key  *)
(* is not tweaked any more.  The random bytes that made a nonce are in no  *)
(* buffer any more, so the nonce cannot be made again; a nonce is held by  *)
(* one signer, and by none once it has signed.                             *)
MuSigTypes ==
    /\ keys \in KeyRings /\ cache \in Caches(keys)
    /\ drawn \in 0 .. Len(Draws)
    /\ secrand \in [Signers -> {0} \cup {Draws[d] : d \in 1 .. drawn}]
    /\ secnonce \in [Signers -> {Nil} \cup [k : NoncePairs, pk : Key]]
    /\ \A i \in Signers : secnonce[i] # Nil => secnonce[i].pk = keys[i]
    /\ pubnonce \in [Signers -> {Nil} \cup NoncePairs]
    /\ partial \in [Signers -> {NoPartial} \cup Scalar32]
    /\ session # Nil =>
         \E ns \in [Signers -> NoncePairs], msg \in Messages : IsSession(session, ns, msg, cache)

KeyInStep == InStep(cache, PubkeyAgg(keys).pk)

(* k was made of random bytes that are in no buffer. *)
Spent(k) ==
    \E d \in 1 .. drawn, j \in Signers :
        /\ k = NoncesFor(Draws[d], keys[j], keys[j], X(cache.pk))
        /\ \A i \in Signers : secrand[i] # Draws[d]

NoncesUsedUp ==
    /\ \A i, j \in Signers : secrand[i] # 0 /\ secrand[i] = secrand[j] => i = j
    /\ \A i \in Signers : secnonce[i] # Nil => Spent(secnonce[i].k)
    /\ \A i, j \in Signers :
          secnonce[i] # Nil /\ secnonce[j] # Nil /\ secnonce[i].k = secnonce[j].k => i = j
    /\ \A m \in made : Spent(m.k) /\ \A i \in Signers : secnonce[i] # Nil => secnonce[i].k # m.k
    /\ NonceOnce

MuSigIInv == MuSigTypes /\ KeyInStep /\ NoncesUsedUp

(* What the types say of the objects of a signer.                          *)
LEMMA TypeFacts ==
    ASSUME MuSigTypes
    PROVE  /\ keys \in [Signers -> Key] /\ Pubkeys = keys
           /\ cache.pk \in Key /\ X(cache.pk) \in Residue
           /\ DOMAIN Draws = 1 .. Len(Draws) /\ Len(Draws) \in Nat
           /\ \A d \in DOMAIN Draws : Draws[d] # 0
           /\ drawn \in Int /\ 0 \in Scalar32
<1>1. keys \in [Signers -> 1 .. Order - 1]
    BY MuSigAssumption DEF MuSigTypes
<1>2. keys \in [Signers -> Key]
    BY <1>1 DEF Key
<1>3. cache.pk \in Key
    BY DEF MuSigTypes, Caches
<1>4. \A d \in DOMAIN Draws : Draws[d] # 0
    <2>1. Draws \in Seq(Bytes32 \ {0})
        BY DrawsAssumption
    <2> QED
        BY <2>1
<1>5. DOMAIN Draws = 1 .. Len(Draws) /\ Len(Draws) \in Nat
    BY DrawsAssumption
<1>6. drawn \in Int
    BY <1>5 DEF MuSigTypes
<1> QED
    BY <1>2, <1>3, <1>4, <1>5, <1>6, PubkeysAreKeys, PointFacts, OrderFacts DEF Scalar32

(* The random bytes in a buffer are of one draw.                           *)
LEMMA BufferFacts ==
    ASSUME MuSigTypes, NEW i \in Signers, secrand[i] # 0
    PROVE  \E d \in 1 .. drawn : d \in DOMAIN Draws /\ secrand[i] = Draws[d]
<1>1. PICK d \in 1 .. drawn : secrand[i] = Draws[d]
    BY DEF MuSigTypes
<1>2. d \in DOMAIN Draws
    BY TypeFacts DEF MuSigTypes
<1> QED
    BY <1>1, <1>2

(* The invariant holds before the first call.                              *)
LEMMA InitHolds ==
    ASSUME MuSigInit, made = {}
    PROVE  MuSigIInv
<1>1. keys \in [Signers -> Key]
    BY MuSigAssumption DEF MuSigInit, Key
<1>2. Pubkeys = keys
    BY <1>1, PubkeysAreKeys
<1>3. cache = PubkeyAgg(keys) /\ cache.pk # 0
    BY <1>2 DEF MuSigInit
<1>4. cache \in Caches(keys)
    BY <1>1, <1>3, PubkeyAggFacts
<1>5. KeyInStep
    <2>1. PICK a \in Scalar32 : a = PubkeyAgg(keys).pk
        BY <1>1, PubkeyAggFacts
    <2>2. cache.pk = a /\ cache.parity = FALSE /\ cache.tweak = 0
        BY <1>1, <1>3, <2>1, PubkeyAggFacts
    <2>3. a \in Int /\ a + 0 = a
        BY KeyFacts
    <2>4. a % Order = a
        <3>1. PICK r \in Scalar32 : r = a % Order /\ Cong(r, a)
            BY <2>3, CongMod
        <3> QED
            BY <3>1, CongEqual
    <2> QED
        BY <2>1, <2>2, <2>3, <2>4 DEF KeyInStep, InStep, SignFor
<1>6. MuSigTypes
    <2>1. Len(Draws) \in Nat
        BY DrawsAssumption
    <2> QED
        BY <1>4, <2>1 DEF MuSigInit, MuSigTypes
<1>7. NoncesUsedUp
    BY DEF MuSigInit, NoncesUsedUp, NonceOnce
<1> QED
    BY <1>5, <1>6, <1>7 DEF MuSigIInv
-----------------------------------------------------------------------------
(* Types and the key, one operation after the other.                       *)
LEMMA TweakCallKeepsTypes ==
    ASSUME MuSigTypes, KeyInStep,
           NEW t \in Tweaks, NEW xonly \in BOOLEAN, PubkeyTweakAddCall(t, xonly)
    PROVE  MuSigTypes' /\ KeyInStep'
<1>1. /\ cache' = TweakAdd(cache, t, xonly) /\ session = Nil
      /\ UNCHANGED <<keys, secrand, drawn, secnonce, pubnonce, partial, session>>
    BY DEF PubkeyTweakAddCall
<1>2. t \in Bytes32 /\ PubkeyAgg(keys).pk \in Int /\ cache \in Caches(keys)
    BY MuSigAssumption, TypeFacts, PubkeyAggFacts, KeyFacts DEF MuSigTypes
<1>3. InStep(cache, PubkeyAgg(keys).pk)
    BY DEF KeyInStep
<1>4. cache' \in Caches(keys) /\ InStep(cache', PubkeyAgg(keys).pk)
    BY <1>1, <1>2, <1>3, TweakKeepsStep
<1>5. MuSigTypes'
    BY <1>1, <1>4 DEF MuSigTypes
<1>6. KeyInStep'
    BY <1>1, <1>4 DEF KeyInStep
<1> QED
    BY <1>5, <1>6

(* What the other operations leave alone.                                  *)
LEMMA KeyStays ==
    ASSUME MuSigTypes, KeyInStep, UNCHANGED <<keys, cache>>
    PROVE  KeyInStep' /\ keys' \in KeyRings /\ cache' \in Caches(keys')
BY DEF KeyInStep, MuSigTypes

(* A call that leaves the cache and the session alone keeps what is known  *)
(* of the session.                                                         *)
LEMMA SessionStays ==
    ASSUME MuSigTypes, UNCHANGED <<cache, session>>
    PROVE  session' # Nil =>
             \E ns \in [Signers -> NoncePairs], msg \in Messages :
                IsSession(session', ns, msg, cache')
BY DEF MuSigTypes

(* Drawing bytes keeps every variable in its type,                         *)
LEMMA DrawKeepsTypes ==
    ASSUME MuSigTypes, KeyInStep, NEW i \in Signers, Draw(i)
    PROVE  MuSigTypes' /\ KeyInStep'
<1>1. /\ drawn < DrawsLeft /\ drawn' = drawn + 1
      /\ secrand' = [secrand EXCEPT ![i] = Draws[drawn']]
      /\ UNCHANGED <<keys, cache, tweaks, secnonce, pubnonce, partial, session>>
    BY DEF Draw
<1>2. drawn \in Int /\ Len(Draws) \in Nat /\ DrawsLeft <= Len(Draws) /\ DrawsLeft \in Int
    BY TypeFacts DEF DrawsLeft
<1>3. drawn' \in 0 .. Len(Draws) /\ drawn' \in 1 .. drawn'
    BY <1>1, <1>2 DEF MuSigTypes
<1>4. secrand' \in [Signers -> {0} \cup {Draws[d] : d \in 1 .. drawn'}]
    <2>1. 1 .. drawn \subseteq 1 .. drawn'
        BY <1>1, <1>2
    <2>2. secrand \in [Signers -> {0} \cup {Draws[d] : d \in 1 .. drawn'}]
        BY <2>1 DEF MuSigTypes
    <2>3. Draws[drawn'] \in {0} \cup {Draws[d] : d \in 1 .. drawn'}
        BY <1>3
    <2> QED
        BY <1>1, <2>2, <2>3
<1> QED
    BY <1>1, <1>3, <1>4, KeyStays, SessionStays DEF MuSigTypes

(* The nonces that any key would get are pairs of scalars.                 *)
LEMMA MadeNonces ==
    ASSUME MuSigTypes, NEW i \in Signers, secrand[i] # 0, NEW sk \in {keys[i], Order}
    PROVE  Nonces(secrand[i], sk, Pubkeys[i]) \in NoncePairs
<1>1. PICK d \in DOMAIN Draws : secrand[i] = Draws[d]
    BY BufferFacts
<1>2. Pubkeys[i] \in Key /\ Pubkeys[i] = keys[i] /\ X(cache.pk) \in Residue
    BY TypeFacts
<1>3. sk \in 1 .. Order
    BY <1>2, OrderFacts DEF Key
<1> QED
    BY <1>1, <1>2, <1>3, NoncesType DEF Nonces

(* so does secp256k1_musig_nonce_gen,                                      *)
LEMMA NonceGenKeepsTypes ==
    ASSUME MuSigTypes, KeyInStep, NEW i \in Signers, NonceGen(i)
    PROVE  MuSigTypes' /\ KeyInStep'
<1>1. UNCHANGED <<keys, cache, tweaks, drawn, partial, session>>
    BY DEF NonceGen
<1>2. Pubkeys[i] = keys[i] /\ keys[i] \in Key
    BY TypeFacts
<1>3. CASE secrand[i] = 0
    <2>1. secnonce' = [secnonce EXCEPT ![i] = Nil] /\ UNCHANGED <<pubnonce, secrand>>
        BY <1>3 DEF NonceGen
    <2> QED
        BY <1>1, <2>1, KeyStays, SessionStays DEF MuSigTypes
<1>4. CASE secrand[i] # 0
    <2>1. PICK k \in NoncePairs : k = Nonces(secrand[i], keys[i], Pubkeys[i])
        BY <1>4, MadeNonces
    <2>2. /\ secnonce' = [secnonce EXCEPT ![i] = [k |-> k, pk |-> keys[i]]]
          /\ pubnonce' = [pubnonce EXCEPT ![i] = k]
          /\ secrand' = [secrand EXCEPT ![i] = 0]
        BY <1>2, <1>4, <2>1 DEF NonceGen
    <2>3. [k |-> k, pk |-> keys[i]] \in [k : NoncePairs, pk : Key]
        BY <1>2
    <2>4. secnonce' \in [Signers -> {Nil} \cup [k : NoncePairs, pk : Key]]
        BY <2>2, <2>3 DEF MuSigTypes
    <2>5. \A j \in Signers : secnonce'[j] # Nil => secnonce'[j].pk = keys'[j]
        BY <1>1, <2>2 DEF MuSigTypes
    <2>6. pubnonce' \in [Signers -> {Nil} \cup NoncePairs]
        BY <2>2 DEF MuSigTypes
    <2>7. secrand' \in [Signers -> {0} \cup {Draws[d] : d \in 1 .. drawn'}]
        BY <1>1, <2>2 DEF MuSigTypes
    <2> QED
        BY <1>1, <2>4, <2>5, <2>6, <2>7, KeyStays, SessionStays DEF MuSigTypes
<1> QED
    BY <1>3, <1>4

(* also with a key that is not valid,                                      *)
LEMMA InvalidKeyKeepsTypes ==
    ASSUME MuSigTypes, KeyInStep, NEW i \in Signers, NonceGenInvalidKey(i)
    PROVE  MuSigTypes' /\ KeyInStep'
<1>1. /\ secrand[i] # 0
      /\ secnonce' = [secnonce EXCEPT ![i] = Nil]
      /\ pubnonce' = [pubnonce EXCEPT ![i] = Nonces(secrand[i], Order, Pubkeys[i])]
      /\ UNCHANGED <<keys, cache, tweaks, secrand, drawn, partial, session>>
    BY DEF NonceGenInvalidKey
<1>2. Nonces(secrand[i], Order, Pubkeys[i]) \in NoncePairs
    BY <1>1, MadeNonces
<1>3. pubnonce' \in [Signers -> {Nil} \cup NoncePairs]
    BY <1>1, <1>2 DEF MuSigTypes
<1> QED
    BY <1>1, <1>3, KeyStays, SessionStays DEF MuSigTypes

(* secp256k1_musig_nonce_process,                                          *)
LEMMA ProcessKeepsTypes ==
    ASSUME MuSigTypes, KeyInStep, NEW msg \in Messages, NonceProcess(msg)
    PROVE  MuSigTypes' /\ KeyInStep'
<1>1. /\ \A i \in Signers : pubnonce[i] # Nil
      /\ session' = SessionOf(pubnonce, msg, cache)
      /\ partial' = [i \in Signers |-> NoPartial]
      /\ UNCHANGED <<keys, cache, tweaks, secrand, drawn, secnonce, pubnonce>>
    BY DEF NonceProcess
<1>2. pubnonce \in [Signers -> NoncePairs]
    BY <1>1 DEF MuSigTypes
<1>3. IsSession(session', pubnonce, msg, cache')
    BY <1>1 DEF IsSession
<1> QED
    BY <1>1, <1>2, <1>3, KeyStays DEF MuSigTypes

(* A secret key that makes the partial signature is the signer's.          *)
LEMMA SignerKey ==
    ASSUME MuSigTypes, NEW i \in Signers, NEW sk \in Seckeys, secnonce[i] # Nil,
           PubkeyCreate(sk).key = secnonce[i].pk
    PROVE  sk = keys[i] /\ keys[i] \in Key /\ secnonce[i].k \in NoncePairs
<1>1. keys[i] \in Key /\ secnonce[i].pk = keys[i] /\ secnonce[i].k \in NoncePairs
    <2>1. secnonce[i] \in [k : NoncePairs, pk : Key]
        BY DEF MuSigTypes
    <2> QED
        BY <2>1, TypeFacts DEF MuSigTypes
<1>2. sk \in Bytes32
    BY MuSigAssumption
<1> QED
    BY <1>1, <1>2, CreatedKey

(* What a session holds, when there is one.                                *)
LEMMA SessionTypes ==
    ASSUME MuSigTypes, session # Nil
    PROVE  session.parity \in BOOLEAN /\ session.e \in Int /\ session.b \in Int
           /\ session.nonces \in [Signers -> NoncePairs]
<1>1. PICK ns \in [Signers -> NoncePairs], msg \in Messages : IsSession(session, ns, msg, cache)
    BY DEF MuSigTypes
<1>2. cache \in Caches(keys) /\ keys \in [Signers -> Key]
    BY TypeFacts DEF MuSigTypes
<1>3. /\ session.parity \in BOOLEAN /\ session.e \in Scalar32 /\ session.b \in Scalar32
      /\ session.nonces = ns
    BY <1>1, <1>2, SessionFacts
<1> QED
    BY <1>3, KeyFacts

(* The types are kept by secp256k1_musig_partial_sign                      *)
LEMMA SignKeepsTypes ==
    ASSUME MuSigTypes, KeyInStep, NEW i \in Signers, NEW sk \in Seckeys, PartialSignCall(i, sk)
    PROVE  MuSigTypes' /\ KeyInStep'
<1>1. /\ session # Nil /\ secnonce[i] # Nil
      /\ secnonce' = [secnonce EXCEPT ![i] = Nil]
      /\ partial' = IF PubkeyCreate(sk).key # secnonce[i].pk THEN partial
                    ELSE [partial EXCEPT ![i] = PartialSign(sk, secnonce[i].k, cache, session)]
      /\ UNCHANGED <<keys, cache, tweaks, secrand, drawn, pubnonce, session>>
    BY DEF PartialSignCall
<1>2. partial' \in [Signers -> {NoPartial} \cup Scalar32]
    <2>1. CASE PubkeyCreate(sk).key # secnonce[i].pk
        BY <1>1, <2>1 DEF MuSigTypes
    <2>2. CASE PubkeyCreate(sk).key = secnonce[i].pk
        <3>1. sk \in Key /\ secnonce[i].k \in NoncePairs
            BY <1>1, <2>2, SignerKey
        <3>2. session.parity \in BOOLEAN /\ session.e \in Int /\ session.b \in Int
            BY <1>1, SessionTypes
        <3>3. cache \in Caches(keys) /\ keys \in [Signers -> Key]
            BY TypeFacts DEF MuSigTypes
        <3>4. PartialSign(sk, secnonce[i].k, cache, session) \in Scalar32
            BY <3>1, <3>2, <3>3, PartialSignFacts
        <3> QED
            BY <1>1, <2>2, <3>4 DEF MuSigTypes
    <2> QED
        BY <2>1, <2>2
<1>3. /\ secnonce' \in [Signers -> {Nil} \cup [k : NoncePairs, pk : Key]]
      /\ \A j \in Signers : secnonce'[j] # Nil => secnonce'[j].pk = keys'[j]
    BY <1>1 DEF MuSigTypes
<1> QED
    BY <1>1, <1>2, <1>3, KeyStays, SessionStays DEF MuSigTypes

(* and by the parsing of a partial signature received.                     *)
LEMMA ParseKeepsTypes ==
    ASSUME MuSigTypes, KeyInStep, NEW i \in Signers, NEW n \in Received, PartialSigParse(i, n)
    PROVE  MuSigTypes' /\ KeyInStep'
<1>1. /\ partial' = IF Overflows(n) THEN partial ELSE [partial EXCEPT ![i] = n]
      /\ UNCHANGED <<keys, cache, tweaks, secrand, drawn, secnonce, pubnonce, session>>
    BY DEF PartialSigParse
<1>2. ~Overflows(n) => n \in Scalar32
    <2>1. n \in 0 .. Top /\ Top \in Nat
        BY MuSigAssumption, OppositesAssumption DEF Bytes32
    <2> QED
        BY <2>1, OrderFacts DEF Overflows, Scalar32
<1>3. partial' \in [Signers -> {NoPartial} \cup Scalar32]
    BY <1>1, <1>2 DEF MuSigTypes
<1> QED
    BY <1>1, <1>3, KeyStays, SessionStays DEF MuSigTypes
-----------------------------------------------------------------------------
(* Nonces: only a partial signature that is made adds to what was signed.  *)
PartialSigned == {[k |-> secnonce[i].k, e |-> session.e, b |-> session.b] :
             i \in {j \in Signers : HasSigned(j)}}

(* A step in which no signer signs adds nothing to the history.            *)
LEMMA NothingSigned ==
    ASSUME \A j \in Signers : ~HasSigned(j), made' = made \cup PartialSigned
    PROVE  made' = made
BY DEF PartialSigned

StillSpent(k) ==
    \E d \in 1 .. drawn', j \in Signers :
        /\ k = NoncesFor(Draws[d], keys'[j], keys'[j], X(cache'.pk))
        /\ \A i \in Signers : secrand'[i] # Draws[d]

(* A nonce whose bytes are drawn stays so.                                 *)
LEMMA SpentStays ==
    ASSUME MuSigTypes, UNCHANGED <<keys, cache>>, drawn' \in Int, drawn <= drawn',
           \A d \in 1 .. drawn :
              (\A i \in Signers : secrand[i] # Draws[d]) => \A i \in Signers : secrand'[i] # Draws[d],
           NEW k, Spent(k)
    PROVE  StillSpent(k)
<1>1. PICK d \in 1 .. drawn, j \in Signers :
          /\ k = NoncesFor(Draws[d], keys[j], keys[j], X(cache.pk))
          /\ \A i \in Signers : secrand[i] # Draws[d]
    BY DEF Spent
<1>2. d \in 1 .. drawn'
    BY TypeFacts
<1> QED
    BY <1>1, <1>2 DEF Spent, StillSpent

(* What NoncesUsedUp says of one step.                                      *)
LEMMA FreshParts ==
    ASSUME \A i, j \in Signers : secrand'[i] # 0 /\ secrand'[i] = secrand'[j] => i = j,
           \A i \in Signers : secnonce'[i] # Nil => StillSpent(secnonce'[i].k),
           \A i, j \in Signers :
              secnonce'[i] # Nil /\ secnonce'[j] # Nil /\ secnonce'[i].k = secnonce'[j].k => i = j,
           \A m \in made' :
              StillSpent(m.k) /\ \A i \in Signers : secnonce'[i] # Nil => secnonce'[i].k # m.k,
           NonceOnce'
    PROVE  NoncesUsedUp'
BY DEF NoncesUsedUp, Spent, StillSpent

(* No secret nonce comes to be, and none signs.                            *)
LEMMA FreshStays ==
    ASSUME NoncesUsedUp, made' = made,
           \A k : Spent(k) => StillSpent(k),
           \A i, j \in Signers : secrand'[i] # 0 /\ secrand'[i] = secrand'[j] => i = j,
           \A i \in Signers : secnonce'[i] # Nil => secnonce'[i] = secnonce[i]
    PROVE  NoncesUsedUp'
<1>1. \A i \in Signers : secnonce'[i] # Nil => StillSpent(secnonce'[i].k)
    BY DEF NoncesUsedUp
<1>2. \A m \in made' :
         StillSpent(m.k) /\ \A i \in Signers : secnonce'[i] # Nil => secnonce'[i].k # m.k
    BY DEF NoncesUsedUp
<1>3. \A i, j \in Signers :
         secnonce'[i] # Nil /\ secnonce'[j] # Nil /\ secnonce'[i].k = secnonce'[j].k => i = j
    BY DEF NoncesUsedUp
<1>4. NonceOnce'
    BY DEF NoncesUsedUp, NonceOnce
<1> QED
    BY <1>1, <1>2, <1>3, <1>4, FreshParts

(* An operation that leaves the buffers and the secret nonces as they are. *)
LEMMA FreshUntouched ==
    ASSUME MuSigTypes, NoncesUsedUp, UNCHANGED <<keys, cache, secrand, drawn, secnonce, made>>
    PROVE  NoncesUsedUp'
<1>1. \A k : Spent(k) => StillSpent(k)
    BY DEF Spent, StillSpent
<1>2. \A i, j \in Signers : secrand'[i] # 0 /\ secrand'[i] = secrand'[j] => i = j
    BY DEF NoncesUsedUp
<1> QED
    BY <1>1, <1>2, FreshStays

(* A tweak leaves the nonces as they are.                                  *)
LEMMA TweakCallKeepsFresh ==
    ASSUME MuSigTypes, NoncesUsedUp, made' = made \cup PartialSigned,
           NEW t \in Tweaks, NEW xonly \in BOOLEAN, PubkeyTweakAddCall(t, xonly)
    PROVE  NoncesUsedUp'
<1>1. drawn = 0 /\ UNCHANGED <<keys, secrand, drawn, secnonce, pubnonce, partial, session>>
    BY DEF PubkeyTweakAddCall
<1>2. made' = made
    BY <1>1, NothingSigned DEF HasSigned
<1>3. \A k : ~Spent(k)
    BY <1>1 DEF Spent, StillSpent
<1>4. \A i, j \in Signers : secrand'[i] # 0 /\ secrand'[i] = secrand'[j] => i = j
    BY <1>1 DEF NoncesUsedUp
<1> QED
    BY <1>1, <1>2, <1>3, <1>4, FreshStays

(* Bytes that are drawn are new: no nonce was made of them.                *)
LEMMA DrawKeepsFresh ==
    ASSUME MuSigTypes, NoncesUsedUp, made' = made \cup PartialSigned, NEW i \in Signers, Draw(i)
    PROVE  NoncesUsedUp'
<1>1. /\ drawn < DrawsLeft /\ drawn' = drawn + 1
      /\ secrand' = [secrand EXCEPT ![i] = Draws[drawn']]
      /\ UNCHANGED <<keys, cache, tweaks, secnonce, pubnonce, partial, session>>
    BY DEF Draw
<1>2. made' = made
    BY <1>1, NothingSigned DEF HasSigned
<1>3. /\ drawn \in Int /\ drawn' \in Int /\ drawn <= drawn' /\ drawn' \notin 1 .. drawn
      /\ drawn' \in DOMAIN Draws /\ 1 .. drawn \subseteq DOMAIN Draws
    <2>1. drawn \in 0 .. Len(Draws) /\ Len(Draws) \in Nat /\ DOMAIN Draws = 1 .. Len(Draws)
        BY TypeFacts DEF MuSigTypes
    <2>2. DrawsLeft <= Len(Draws) /\ DrawsLeft \in Int
        BY <2>1 DEF DrawsLeft
    <2> QED
        BY <1>1, <2>1, <2>2
<1>4. \A d \in 1 .. drawn : Draws[d] # Draws[drawn']
    BY <1>3, DrawsAssumption
<1>5. \A j \in Signers : secrand'[j] = IF j = i THEN Draws[drawn'] ELSE secrand[j]
    BY <1>1 DEF MuSigTypes
<1>6. \A k : Spent(k) => StillSpent(k)
    <2>1. \A d \in 1 .. drawn :
             (\A j \in Signers : secrand[j] # Draws[d]) => \A j \in Signers : secrand'[j] # Draws[d]
        BY <1>4, <1>5
    <2> QED
        BY <1>1, <1>3, <2>1, SpentStays
<1>7. \A j, l \in Signers : secrand'[j] # 0 /\ secrand'[j] = secrand'[l] => j = l
    <2>1. \A j \in Signers : secrand[j] # Draws[drawn']
        <3> SUFFICES ASSUME NEW j \in Signers, secrand[j] = Draws[drawn'] PROVE FALSE
            OBVIOUS
        <3>1. secrand[j] # 0
            BY <1>3, TypeFacts
        <3>2. PICK d \in 1 .. drawn : secrand[j] = Draws[d]
            BY <3>1, BufferFacts
        <3> QED
            BY <1>4, <3>2
    <2> QED
        BY <1>5, <2>1 DEF NoncesUsedUp
<1>8. \A j \in Signers : secnonce'[j] # Nil => secnonce'[j] = secnonce[j]
    BY <1>1
<1> QED
    BY <1>2, <1>6, <1>7, <1>8, FreshStays

(* A nonce is made of a buffer that is zeroed with the same call.          *)
LEMMA NonceGenKeepsFresh ==
    ASSUME MuSigTypes, NoncesUsedUp, made' = made \cup PartialSigned, NEW i \in Signers, NonceGen(i)
    PROVE  NoncesUsedUp'
<1>1. UNCHANGED <<keys, cache, tweaks, drawn, partial, session>>
    BY DEF NonceGen
<1>2. made' = made
    BY <1>1, NothingSigned DEF HasSigned
<1>3. drawn \in Int
    BY TypeFacts
<1>4. CASE secrand[i] = 0
    <2>1. secnonce' = [secnonce EXCEPT ![i] = Nil] /\ UNCHANGED <<pubnonce, secrand>>
        BY <1>4 DEF NonceGen
    <2>2. \A k : Spent(k) => StillSpent(k)
        BY <1>1, <2>1 DEF Spent, StillSpent
    <2>3. \A j \in Signers : secnonce'[j] # Nil => secnonce'[j] = secnonce[j]
        BY <2>1 DEF MuSigTypes
    <2>4. \A j, l \in Signers : secrand'[j] # 0 /\ secrand'[j] = secrand'[l] => j = l
        BY <2>1 DEF NoncesUsedUp
    <2> QED
        BY <1>2, <2>2, <2>3, <2>4, FreshStays
<1>5. CASE secrand[i] # 0
    <2>1. PICK d \in 1 .. drawn : d \in DOMAIN Draws /\ secrand[i] = Draws[d]
        BY <1>5, BufferFacts
    <2>2. Pubkeys[i] = keys[i] /\ Draws[d] # 0
        BY <2>1, TypeFacts
    <2>3. PICK k : k = NoncesFor(Draws[d], keys[i], keys[i], X(cache.pk))
        OBVIOUS
    <2>4. /\ secnonce' = [secnonce EXCEPT ![i] = [k |-> k, pk |-> keys[i]]]
          /\ secrand' = [secrand EXCEPT ![i] = 0]
        BY <1>5, <2>1, <2>2, <2>3 DEF NonceGen, Nonces
    <2>5. /\ \A j \in Signers : secrand'[j] = IF j = i THEN 0 ELSE secrand[j]
          /\ secnonce'[i] = [k |-> k, pk |-> keys[i]]
          /\ \A j \in Signers \ {i} : secnonce'[j] = secnonce[j]
        BY <2>4 DEF MuSigTypes
    <2>6. \A n : Spent(n) => StillSpent(n)
        <3>1. \A c \in 1 .. drawn :
                 (\A j \in Signers : secrand[j] # Draws[c])
                    => \A j \in Signers : secrand'[j] # Draws[c]
            <4>1. \A c \in 1 .. drawn : c \in DOMAIN Draws /\ Draws[c] # 0
                BY TypeFacts DEF MuSigTypes
            <4> QED
                BY <2>5, <4>1
        <3> QED
            BY <1>1, <1>3, <3>1, SpentStays
    <2>7. StillSpent(k)
        <3>1. \A j \in Signers : secrand'[j] # Draws[d]
            BY <2>1, <2>2, <2>5 DEF NoncesUsedUp
        <3> QED
            BY <1>1, <2>3, <3>1 DEF Spent, StillSpent
    <2>8. ~Spent(k)
        <3> SUFFICES ASSUME Spent(k) PROVE FALSE
            OBVIOUS
        <3>1. PICK c \in 1 .. drawn, j \in Signers :
                  /\ k = NoncesFor(Draws[c], keys[j], keys[j], X(cache.pk))
                  /\ \A l \in Signers : secrand[l] # Draws[c]
            BY DEF Spent, StillSpent
        <3>2. c \in DOMAIN Draws /\ X(cache.pk) \in Residue /\ keys \in KeyRings
            BY TypeFacts DEF MuSigTypes
        <3>3. NoncesFor(Draws[c], keys[j], keys[j], X(cache.pk))
                = NoncesFor(Draws[d], keys[i], keys[i], X(cache.pk)) => c = d
            BY <2>1, <3>2, DrawsAssumption
        <3> QED
            BY <2>1, <2>3, <3>1, <3>3
    <2>9. secnonce'[i].k = k
        BY <2>5
    <2>10. \A j \in Signers \ {i} : secnonce'[j] # Nil => Spent(secnonce'[j].k) /\ secnonce'[j].k # k
        BY <2>5, <2>8 DEF NoncesUsedUp
    <2>11. \A j \in Signers : secnonce'[j] # Nil => StillSpent(secnonce'[j].k)
        BY <2>6, <2>7, <2>9, <2>10
    <2>12. \A j, l \in Signers :
              secnonce'[j] # Nil /\ secnonce'[l] # Nil /\ secnonce'[j].k = secnonce'[l].k => j = l
        <3> SUFFICES ASSUME NEW j \in Signers, NEW l \in Signers,
                            secnonce'[j] # Nil, secnonce'[l] # Nil, secnonce'[j].k = secnonce'[l].k
                     PROVE  j = l
            OBVIOUS
        <3>1. CASE j = i \/ l = i
            BY <2>9, <2>10, <3>1
        <3>2. CASE j # i /\ l # i
            BY <2>5, <3>2 DEF NoncesUsedUp
        <3> QED
            BY <3>1, <3>2
    <2>13. \A m \in made' :
              StillSpent(m.k) /\ \A j \in Signers : secnonce'[j] # Nil => secnonce'[j].k # m.k
        <3> SUFFICES ASSUME NEW m \in made
                     PROVE  /\ StillSpent(m.k)
                            /\ \A j \in Signers : secnonce'[j] # Nil => secnonce'[j].k # m.k
            BY <1>2
        <3>1. Spent(m.k) /\ \A j \in Signers : secnonce[j] # Nil => secnonce[j].k # m.k
            BY DEF NoncesUsedUp
        <3>2. PICK n : n = m.k
            OBVIOUS
        <3>3. StillSpent(n) /\ n # k
            BY <2>6, <2>8, <3>1, <3>2
        <3> QED
            BY <2>5, <2>9, <3>1, <3>2, <3>3
    <2>14. \A j, l \in Signers : secrand'[j] # 0 /\ secrand'[j] = secrand'[l] => j = l
        BY <2>5 DEF NoncesUsedUp
    <2>15. NonceOnce'
        BY <1>2 DEF NoncesUsedUp, NonceOnce
    <2> QED
        BY <2>11, <2>12, <2>13, <2>14, <2>15, FreshParts
<1> QED
    BY <1>4, <1>5

(* Bytes are used up also by a key that is not valid.                      *)
LEMMA InvalidKeyKeepsFresh ==
    ASSUME MuSigTypes, NoncesUsedUp, made' = made \cup PartialSigned,
           NEW i \in Signers, NonceGenInvalidKey(i)
    PROVE  NoncesUsedUp'
<1>1. /\ secnonce' = [secnonce EXCEPT ![i] = Nil]
      /\ UNCHANGED <<keys, cache, tweaks, secrand, drawn, partial, session>>
    BY DEF NonceGenInvalidKey
<1>2. made' = made
    BY <1>1, NothingSigned DEF HasSigned
<1>3. \A k : Spent(k) => StillSpent(k)
    BY <1>1 DEF Spent, StillSpent
<1>4. \A j \in Signers : secnonce'[j] # Nil => secnonce'[j] = secnonce[j]
    BY <1>1 DEF MuSigTypes
<1>5. \A j, l \in Signers : secrand'[j] # 0 /\ secrand'[j] = secrand'[l] => j = l
    BY <1>1 DEF NoncesUsedUp
<1> QED
    BY <1>2, <1>3, <1>4, <1>5, FreshStays

(* The nonce that signs was held by one signer, who holds it no more.      *)
LEMMA SignKeepsFresh ==
    ASSUME MuSigTypes, NoncesUsedUp, made' = made \cup PartialSigned,
           NEW i \in Signers, NEW sk \in Seckeys, PartialSignCall(i, sk)
    PROVE  NoncesUsedUp'
<1>1. /\ secnonce[i] # Nil /\ secnonce' = [secnonce EXCEPT ![i] = Nil]
      /\ UNCHANGED <<keys, cache, tweaks, secrand, drawn, pubnonce, session>>
    BY DEF PartialSignCall
<1>2. /\ secnonce'[i] = Nil
      /\ \A j \in Signers \ {i} : secnonce'[j] = secnonce[j]
    BY <1>1 DEF MuSigTypes
<1>3. \A k : Spent(k) => StillSpent(k)
    BY <1>1 DEF Spent, StillSpent
<1>4. PICK s : s = [k |-> secnonce[i].k, e |-> session.e, b |-> session.b]
    OBVIOUS
<1>5. s.k = secnonce[i].k
    BY <1>4
<1>6. made' \subseteq made \cup {s}
    BY <1>2, <1>4 DEF PartialSigned, HasSigned
<1>7. Spent(s.k) /\ \A m \in made : m.k # s.k
    BY <1>1, <1>5 DEF NoncesUsedUp
<1>8. \A j \in Signers : secnonce'[j] # Nil => j # i /\ secnonce'[j] = secnonce[j]
    BY <1>2
<1>9. \A j \in Signers : secnonce'[j] # Nil => StillSpent(secnonce'[j].k)
    BY <1>3, <1>8 DEF NoncesUsedUp
<1>10. \A j, l \in Signers :
          secnonce'[j] # Nil /\ secnonce'[l] # Nil /\ secnonce'[j].k = secnonce'[l].k => j = l
    BY <1>8 DEF NoncesUsedUp
<1>11. \A m \in made' :
          StillSpent(m.k) /\ \A j \in Signers : secnonce'[j] # Nil => secnonce'[j].k # m.k
    <2> SUFFICES ASSUME NEW m \in made \cup {s}
                 PROVE  /\ StillSpent(m.k)
                        /\ \A j \in Signers : secnonce'[j] # Nil => secnonce'[j].k # m.k
        BY <1>6
    <2>1. Spent(m.k)
        BY <1>7 DEF NoncesUsedUp
    <2>2. \A j \in Signers : secnonce'[j] # Nil => secnonce'[j].k # m.k
        <3>1. CASE m = s
            BY <1>1, <1>5, <1>8, <3>1 DEF NoncesUsedUp
        <3>2. CASE m \in made
            BY <1>8, <3>2 DEF NoncesUsedUp
        <3> QED
            BY <3>1, <3>2
    <2>3. PICK n : n = m.k
        OBVIOUS
    <2>4. StillSpent(n)
        BY <1>3, <2>1, <2>3
    <2> QED
        BY <2>2, <2>3, <2>4
<1>12. NonceOnce'
    BY <1>6, <1>7 DEF NoncesUsedUp, NonceOnce
<1>13. \A j, l \in Signers : secrand'[j] # 0 /\ secrand'[j] = secrand'[l] => j = l
    BY <1>1 DEF NoncesUsedUp
<1> QED
    BY <1>9, <1>10, <1>11, <1>12, <1>13, FreshParts
-----------------------------------------------------------------------------
(* One step of MuSig is one of its operations.                             *)
LEMMA StepCases ==
    ASSUME MuSigStep
    PROVE  /\ made' = made \cup PartialSigned
           /\ \/ \E t \in Tweaks, xonly \in BOOLEAN : PubkeyTweakAddCall(t, xonly)
              \/ \E i \in Signers : Draw(i)
              \/ \E i \in Signers : NonceGen(i)
              \/ \E i \in Signers : NonceGenInvalidKey(i)
              \/ \E msg \in Messages : NonceProcess(msg)
              \/ \E i \in Signers, sk \in Seckeys : PartialSignCall(i, sk)
              \/ \E i \in Signers, n \in Received : PartialSigParse(i, n)
BY DEF MuSigStep, MuSigNext, PartialSigned

(* Every step keeps the types, and the key in step with its tweaks.        *)
LEMMA StepKeepsTypes ==
    ASSUME MuSigTypes, KeyInStep, [MuSigStep]_<<musig, made>>
    PROVE  MuSigTypes' /\ KeyInStep'
<1>1. CASE MuSigStep
    BY <1>1, StepCases, TweakCallKeepsTypes, DrawKeepsTypes, NonceGenKeepsTypes,
       InvalidKeyKeepsTypes, ProcessKeepsTypes, SignKeepsTypes, ParseKeepsTypes
<1>2. CASE UNCHANGED <<musig, made>>
    BY <1>2, KeyStays, SessionStays DEF MuSigTypes, musig
<1> QED
    BY <1>1, <1>2

(* Every step keeps what is said of the nonces.                            *)
LEMMA StepKeepsFresh ==
    ASSUME MuSigTypes, NoncesUsedUp, [MuSigStep]_<<musig, made>>
    PROVE  NoncesUsedUp'
<1>1. CASE MuSigStep
    <2>1. made' = made \cup PartialSigned
        BY <1>1, StepCases
    <2>2. ASSUME NEW msg \in Messages, NonceProcess(msg) PROVE NoncesUsedUp'
        <3>1. UNCHANGED <<keys, cache, secrand, drawn, secnonce>>
            BY <2>2 DEF NonceProcess
        <3>2. made' = made
            BY <2>1, <3>1, NothingSigned DEF HasSigned
        <3> QED
            BY <3>1, <3>2, FreshUntouched
    <2>3. ASSUME NEW i \in Signers, NEW n \in Received, PartialSigParse(i, n) PROVE NoncesUsedUp'
        <3>1. UNCHANGED <<keys, cache, secrand, drawn, secnonce>>
            BY <2>3 DEF PartialSigParse
        <3>2. made' = made
            BY <2>1, <3>1, NothingSigned DEF HasSigned
        <3> QED
            BY <3>1, <3>2, FreshUntouched
    <2> QED
        BY <1>1, <2>1, <2>2, <2>3, StepCases, TweakCallKeepsFresh, DrawKeepsFresh,
           NonceGenKeepsFresh, InvalidKeyKeepsFresh, SignKeepsFresh
<1>2. CASE UNCHANGED <<musig, made>>
    BY <1>2, FreshUntouched DEF musig
<1> QED
    BY <1>1, <1>2

(* Sessions keep to the invariant, whatever is called in whatever order.   *)
THEOREM MuSigInvariant == MuSigSpec => []MuSigIInv
<1>1. MuSigInit /\ made = {} => MuSigIInv
    BY InitHolds
<1>2. MuSigIInv /\ [MuSigStep]_<<musig, made>> => MuSigIInv'
    BY StepKeepsTypes, StepKeepsFresh DEF MuSigIInv
<1> QED
    BY <1>1, <1>2, PTL DEF MuSigSpec
-----------------------------------------------------------------------------
(* What the properties say of a state, in terms of the lemmas above.       *)
LEMMA VerifiesIs ==
    ASSUME MuSigTypes, NEW ns, session.nonces = ns
    PROVE  \A i \in Signers :
              Verifies(i) <=> PartialSigVerify(partial[i], ns[i], keys[i], cache, session)
BY TypeFacts DEF Verifies

(* The partial signatures of a state on course add up.                     *)
LEMMA InvariantAggregates ==
    ASSUME MuSigTypes, KeyInStep
    PROVE  Aggregates
<1> SUFFICES ASSUME session # Nil, \A i \in Signers : partial[i] # NoPartial, ~session.infinite
             PROVE  /\ Cardinality({i \in Signers : ~Verifies(i)}) = 0
                       => SchnorrVerify(PartialSigAgg(session, partial), session.msg, EvenY(cache.pk))
                    /\ Cardinality({i \in Signers : ~Verifies(i)}) = 1
                       => ~SchnorrVerify(PartialSigAgg(session, partial), session.msg, EvenY(cache.pk))
    BY DEF Aggregates
<1>1. PICK ns \in [Signers -> NoncePairs], msg \in Messages : IsSession(session, ns, msg, cache)
    BY DEF MuSigTypes
<1>2. cache \in Caches(keys) /\ keys \in [Signers -> Key] /\ InStep(cache, PubkeyAgg(keys).pk)
    BY TypeFacts DEF MuSigTypes, KeyInStep
<1>3. session.nonces = ns /\ session.msg = msg
    BY <1>1, <1>2, SessionFacts
<1>4. partial \in [Signers -> Int]
    BY KeyFacts DEF MuSigTypes
<1>5. {i \in Signers : ~Verifies(i)} = Wrong(cache, session, keys, ns, partial)
    BY <1>3, VerifiesIs DEF Wrong
<1>6. /\ Cardinality(Wrong(cache, session, keys, ns, partial)) = 0
         => SchnorrVerify(PartialSigAgg(session, partial), msg, EvenY(cache.pk))
      /\ Cardinality(Wrong(cache, session, keys, ns, partial)) = 1
         => ~SchnorrVerify(PartialSigAgg(session, partial), msg, EvenY(cache.pk))
    BY <1>1, <1>2, <1>4, AggregateFacts
<1> QED
    BY <1>3, <1>5, <1>6

(* With any number of signers and any tweaks, no secret nonce signs twice, *)
(* the key and its tweaks are in step, partial signatures that verify make *)
(* a signature of the tweaked key and one that does not verify makes none. *)
THEOREM MuSigIsSafe == MuSigSpec => []MuSigHolds
<1>1. MuSigIInv => MuSigHolds
    <2> SUFFICES ASSUME MuSigIInv PROVE MuSigHolds
        OBVIOUS
    <2>1. NonceOnce
        BY DEF MuSigIInv, NoncesUsedUp
    <2>2. TweaksInStep
        BY TypeFacts DEF MuSigIInv, KeyInStep, InStep, TweaksInStep
    <2>3. Aggregates
        BY InvariantAggregates DEF MuSigIInv
    <2> QED
        BY <2>1, <2>2, <2>3 DEF MuSigHolds
<1> QED
    BY <1>1, MuSigInvariant, PTL

(* A signer who signs with the nonce the session knows is never blamed,    *)
(* whatever the other signers do.                                          *)
THEOREM HonestIsNeverBlamed == MuSigSpec => HonestVerifies
<1>1. ASSUME MuSigTypes, MuSigStep, NEW i \in Signers, HasSigned(i),
             secnonce[i].k = session.nonces[i]
      PROVE  Verifies(i)'
    <2>1. secnonce[i] # Nil /\ secnonce'[i] = Nil /\ partial'[i] # partial[i]
        BY <1>1 DEF HasSigned
    <2>2. PICK j \in Signers, sk \in Seckeys : PartialSignCall(j, sk)
        <3>1. ASSUME NEW t \in Tweaks, NEW xonly \in BOOLEAN, PubkeyTweakAddCall(t, xonly)
              PROVE  FALSE
            BY <2>1, <3>1 DEF PubkeyTweakAddCall
        <3>2. ASSUME NEW j \in Signers, Draw(j) PROVE FALSE
            BY <2>1, <3>2 DEF Draw
        <3>3. ASSUME NEW j \in Signers, NonceGen(j) PROVE FALSE
            BY <2>1, <3>3 DEF NonceGen
        <3>4. ASSUME NEW j \in Signers, NonceGenInvalidKey(j) PROVE FALSE
            BY <2>1, <3>4 DEF NonceGenInvalidKey
        <3>5. ASSUME NEW msg \in Messages, NonceProcess(msg) PROVE FALSE
            BY <2>1, <3>5 DEF NonceProcess
        <3>6. ASSUME NEW j \in Signers, NEW n \in Received, PartialSigParse(j, n) PROVE FALSE
            BY <2>1, <3>6 DEF PartialSigParse
        <3> QED
            BY <1>1, <3>1, <3>2, <3>3, <3>4, <3>5, <3>6, StepCases
    <2>3. /\ session # Nil
          /\ partial' = IF PubkeyCreate(sk).key # secnonce[j].pk THEN partial
                        ELSE [partial EXCEPT ![j] = PartialSign(sk, secnonce[j].k, cache, session)]
          /\ UNCHANGED <<keys, cache, tweaks, secrand, drawn, pubnonce, session>>
        BY <2>2 DEF PartialSignCall
    <2>4. PubkeyCreate(sk).key = secnonce[j].pk /\ j = i
        BY <1>1, <2>1, <2>3 DEF MuSigTypes
    <2>5. sk = keys[i] /\ keys[i] \in Key /\ secnonce[i].k \in NoncePairs
        BY <1>1, <2>1, <2>4, SignerKey
    <2>6. PICK s, k : s = partial'[i] /\ k = secnonce[i].k
        OBVIOUS
    <2>7. s = PartialSign(keys[i], k, cache, session)
        BY <1>1, <2>3, <2>4, <2>5, <2>6 DEF MuSigTypes
    <2>8. session.parity \in BOOLEAN /\ session.e \in Int /\ session.b \in Int
        BY <1>1, <2>3, SessionTypes
    <2>9. cache \in Caches(keys) /\ keys \in [Signers -> Key]
        BY <1>1, TypeFacts DEF MuSigTypes
    <2>10. s \in Scalar32 /\ Cong(s, Share(cache, session, keys[i], k))
        BY <2>5, <2>6, <2>7, <2>8, <2>9, PartialSignFacts
    <2>11. PartialSigVerify(s, k, keys[i], cache, session)
        BY <2>5, <2>6, <2>8, <2>9, <2>10, VerifyFacts, KeyFacts
    <2>12. /\ partial'[i] = s /\ session'.nonces[i] = k /\ cache' = cache /\ session' = session
           /\ Pubkeys'[i] = keys[i]
        <3>1. Pubkeys' = Pubkeys
            BY <2>3 DEF Pubkeys
        <3> QED
            BY <1>1, <2>3, <2>6, <3>1, TypeFacts
    <2> QED
        BY <2>11, <2>12 DEF Verifies
<1>2. MuSigIInv /\ [MuSigStep]_<<musig, made>> =>
        [cache # Nil => \A i \in Signers :
            HasSigned(i) /\ secnonce[i].k = session.nonces[i] => Verifies(i)']_<<musig, made>>
    BY <1>1 DEF MuSigIInv
<1> QED
    BY <1>2, MuSigInvariant, PTL DEF MuSigSpec, HonestVerifies
-----------------------------------------------------------------------------
(* ECDSA: equations between scalars, divided by a scalar that is not zero. *)

(* A scalar that is not zero has an inverse.                               *)
LEMMA InverseFacts ==
    ASSUME NEW k \in Key
    PROVE  ScalarInverse[k] \in Scalar32 /\ Cong(ScalarInverse[k] * k, 1)
<1>1. k \in Scalars \ {0} /\ Scalars = Scalar32
    BY KeyFacts DEF Scalars, Scalar32
<1>2. \E i \in Scalars : (i * k) % Order = 1
    BY <1>1, ScalarsAssumption
<1>3. ScalarInverse[k] = CHOOSE i \in Scalars : (i * k) % Order = 1
    BY <1>1 DEF ScalarInverse
<1>4. PICK i \in Scalar32 : i = ScalarInverse[k] /\ (i * k) % Order = 1
    BY <1>1, <1>2, <1>3
<1>5. i * k \in Int /\ 1 \in Int
    BY <1>1, KeyFacts
<1>6. Cong(1, i * k)
    BY <1>4, <1>5, CongMod
<1> QED
    BY <1>4, <1>5, <1>6, CongSym

(* The scalar w is n divided by s.                                         *)
LEMMA Divided ==
    ASSUME NEW s \in Key, NEW n \in Int, NEW w \in Int
    PROVE  Cong(w, ScalarInverse[s] * n) <=> Cong(s * w, n)
<1>1. PICK i, t \in Int : i = ScalarInverse[s] /\ t = s
    BY InverseFacts, KeyFacts
<1>2. Cong(i * t, 1)
    BY <1>1, InverseFacts
<1>3. /\ i * t \in Int /\ i * n \in Int /\ t * w \in Int /\ 1 \in Int
      /\ 1 * n = n /\ 1 * w = w /\ t * (i * n) = (i * t) * n /\ i * (t * w) = (i * t) * w
    OBVIOUS
<1>4. Cong((i * t) * n, n) /\ Cong((i * t) * w, w)
    <2>1. Cong((i * t) * n, 1 * n) /\ Cong((i * t) * w, 1 * w)
        BY <1>2, <1>3, CongTimes
    <2> QED
        BY <1>3, <2>1
<1>5. ASSUME Cong(w, i * n) PROVE Cong(t * w, n)
    <2>1. Cong(t * w, t * (i * n))
        BY <1>3, <1>5, CongTimes
    <2>3. t * (i * n) \in Int
        BY <1>3
    <2>2. Cong(t * (i * n), n)
        BY <1>3, <1>4
    <2> QED
        BY <1>3, <2>1, <2>2, <2>3, CongTrans
<1>6. ASSUME Cong(t * w, n) PROVE Cong(w, i * n)
    <2>1. Cong(i * (t * w), i * n)
        BY <1>3, <1>6, CongTimes
    <2>4. i * (t * w) \in Int
        BY <1>3
    <2>2. Cong(i * (t * w), w)
        BY <1>3, <1>4
    <2>3. Cong(w, i * (t * w))
        BY <2>4, <2>2, CongSym
    <2> QED
        BY <1>3, <2>1, <2>3, <2>4, CongTrans
<1> QED
    BY <1>1, <1>5, <1>6

(* There is but one.                                                       *)
LEMMA OneDivided ==
    ASSUME NEW s \in Key, NEW n \in Int, NEW v \in Scalar32, NEW w \in Scalar32,
           Cong(s * v, n), Cong(s * w, n)
    PROVE  v = w
<1>1. PICK i \in Int : i = ScalarInverse[s]
    BY InverseFacts, KeyFacts
<1>2. v \in Int /\ w \in Int /\ i * n \in Int
    BY KeyFacts
<1>3. Cong(v, i * n) /\ Cong(w, i * n)
    BY <1>1, <1>2, Divided
<1>4. Cong(i * n, w)
    BY <1>2, <1>3, CongSym
<1>5. Cong(v, w)
    BY <1>2, <1>3, <1>4, CongTrans
<1> QED
    BY <1>5, CongEqual

(* A coordinate and the scalar it is reduced to differ by the order or not *)
(* at all.                                                                 *)
LEMMA ReducedX ==
    ASSUME NEW p \in Key, NEW r \in Scalar32
    PROVE  /\ X(p) % Order \in Scalar32
           /\ X(p) % Order = r <=> X(p) \in {r, r + Order}
           /\ X(p) \div Order = IF X(p) < Order THEN 0 ELSE 1
<1>1. PICK o, f \in Nat : o = Order /\ o > 1 /\ f = FieldPrime /\ f < 2 * o
    BY OrderFacts, FieldAssumption, ScalarsAssumption
<1>2. PICK x \in 0 .. f - 1 : x = X(p)
    BY <1>1, PointFacts DEF Residue
<1>3. r \in 0 .. o - 1
    BY <1>1 DEF Scalar32
<1>4. PICK e, d : e = x % o /\ d = x \div o
    OBVIOUS
<1>z. x \in Int /\ o \in Nat /\ o > 0
    BY <1>1, <1>2
<1>5. e \in 0 .. o - 1 /\ d \in Int /\ x = d * o + e
    BY <1>z, <1>4
<1>6. d \in {0, 1}
    <2>1. ASSUME d < 0 PROVE FALSE
        <3>1. d * o <= -o
            <4>1. (d + 1) * o = d * o + o
                BY <1>1, <1>5
            <4>2. (d + 1) * o <= 0
                BY <1>1, <1>5, <2>1
            <4> QED
                BY <1>1, <1>5, <4>1, <4>2
        <3> QED
            BY <1>1, <1>2, <1>5, <3>1
    <2>2. ASSUME d > 1 PROVE FALSE
        <3>1. d * o >= 2 * o
            <4>1. (d - 2) * o = d * o - 2 * o
                BY <1>1, <1>5
            <4>2. (d - 2) * o >= 0
                BY <1>1, <1>5, <2>2
            <4> QED
                BY <1>1, <1>5, <4>1, <4>2
        <3> QED
            BY <1>1, <1>2, <1>5, <3>1
    <2> QED
        BY <1>5, <2>1, <2>2
<1>7. (x = e /\ d = 0 /\ x < o) \/ (x = e + o /\ d = 1 /\ ~(x < o))
    <2>1. CASE d = 0
        <3>1. d * o = 0
            BY <1>1, <2>1
        <3> QED
            BY <1>1, <1>5, <2>1, <3>1
    <2>2. CASE d = 1
        <3>1. d * o = o
            BY <1>1, <2>2
        <3> QED
            BY <1>1, <1>5, <2>2, <3>1
    <2> QED
        BY <1>6, <2>1, <2>2
<1>8. e = r <=> x \in {r, r + o}
    BY <1>1, <1>3, <1>5, <1>7
<1> QED
    BY <1>1, <1>2, <1>4, <1>5, <1>7, <1>8 DEF Scalar32

(* What a signature is: a point p with the x coordinate r for which s * p  *)
(* is the message plus r times the key.                                    *)
IsPoint(p, r, s, k, m) == Cong(s * p, m + r * k)

(* A signature is of one point.                                            *)
LEMMA OnePoint ==
    ASSUME NEW r \in Key, NEW s \in Key, NEW k \in Key, NEW m \in Int,
           NEW p \in Key, NEW q \in Key, IsPoint(p, r, s, k, m), IsPoint(q, r, s, k, m)
    PROVE  p = q
<1>1. m + r * k \in Int /\ p \in Scalar32 /\ q \in Scalar32
    BY KeyFacts
<1> QED
    BY <1>1, OneDivided DEF IsPoint

(* What verifies is a signature of a point, the one that is computed.      *)
LEMMA VerifiesIff ==
    ASSUME NEW r \in Key, NEW s \in Key, NEW k \in Key, NEW m \in Int
    PROVE  /\ SigVerify(Signature(r, s), k, m) <=>
                 \E p \in Key : IsPoint(p, r, s, k, m) /\ X(p) % Order = r
           /\ \A pr : pr = (ScalarInverse[s] * m + ScalarInverse[s] * r * k) % Order =>
                 /\ pr \in Scalar32 /\ IsPoint(pr, r, s, k, m)
                 /\ SigVerify(Signature(r, s), k, m) <=> pr # 0 /\ X(pr) % Order = r
<1>1. PICK i, t, a, b \in Int : i = ScalarInverse[s] /\ t = s /\ a = r /\ b = k
    BY InverseFacts, KeyFacts
<1>2. PICK pr \in Scalar32 : pr = (i * m + i * a * b) % Order /\ Cong(pr, i * m + i * a * b)
    <2>1. i * m + i * a * b \in Int
        OBVIOUS
    <2> QED
        BY <2>1, CongMod
<1>3. pr \in Int /\ m + a * b \in Int /\ r # 0 /\ s # 0 /\ r \in Scalar32
    BY KeyFacts
<1>4. Cong(t * pr, m + a * b)
    <2>1. i * m + i * a * b = i * (m + a * b)
        OBVIOUS
    <2> QED
        BY <1>1, <1>2, <1>3, <2>1, Divided
<1>5. IsPoint(pr, r, s, k, m)
    BY <1>1, <1>4 DEF IsPoint
<1>6. SigVerify(Signature(r, s), k, m) <=> pr # 0 /\ X(pr) % Order = r
    <2>1. SigVerify(Signature(r, s), k, m) <=>
            pr # 0 /\ (X(pr) = r \/ (r < FieldPrime - Order /\ X(pr) = r + Order))
        BY <1>1, <1>2, <1>3 DEF SigVerify, Signature
    <2>2. ASSUME pr # 0
          PROVE  X(pr) = r \/ (r < FieldPrime - Order /\ X(pr) = r + Order) <=> X(pr) % Order = r
        <3>1. pr \in Key
            BY <2>2, KeyFacts
        <3>2. X(pr) % Order = r <=> X(pr) \in {r, r + Order}
            BY <1>3, <3>1, ReducedX
        <3>3. X(pr) \in 0 .. FieldPrime - 1 /\ FieldPrime \in Nat /\ Order \in Nat /\ r \in Int
            BY <1>1, <3>1, PointFacts, FieldAssumption, OrderFacts DEF Residue
        <3> QED
            BY <3>2, <3>3
    <2> QED
        BY <2>1, <2>2
<1>7. ASSUME pr # 0, X(pr) % Order = r
      PROVE  \E p \in Key : IsPoint(p, r, s, k, m) /\ X(p) % Order = r
    BY <1>5, <1>7, KeyFacts
<1>8. ASSUME NEW p \in Key, IsPoint(p, r, s, k, m), X(p) % Order = r
      PROVE  pr # 0 /\ X(pr) % Order = r
    <2>1. p = pr
        <3>1. p \in Scalar32 /\ m + r * k \in Int
            BY <1>1, <1>3, KeyFacts
        <3> QED
            BY <1>5, <1>8, <3>1, OneDivided DEF IsPoint
    <2> QED
        BY <1>8, <2>1, KeyFacts
<1> QED
    BY <1>1, <1>2, <1>5, <1>6, <1>7, <1>8

(* The point a signature and an identifier name.                           *)
Tells(p, r, j) == X(p) = r + (IF j >= 2 THEN Order ELSE 0) /\ (OddY(p) <=> j % 2 = 1)

(* What is recovered is the keys the point that is told makes the equation *)
(* for.                                                                    *)
LEMMA RecoversIff ==
    ASSUME NEW r \in Key, NEW s \in Key, NEW m \in Int, NEW j \in 0 .. 3
    PROVE  /\ SigRecover(Signature(r, s), m, j) \subseteq Key
           /\ \A k \in Key : k \in SigRecover(Signature(r, s), m, j) <=>
                                \E p \in Key : Tells(p, r, j) /\ IsPoint(p, r, s, k, m)
<1>1. PICK i, t, a \in Int : i = ScalarInverse[r] /\ t = s /\ a = r
    BY InverseFacts, KeyFacts
<1> DEFINE Q(p) == (Minus(i * m) + i * t * p) % Order
           x == a + (IF j >= 2 THEN Order ELSE 0)
<1>2. ASSUME NEW p \in Key
      PROVE  Q(p) \in Scalar32 /\ Cong(a * Q(p), t * p - m)
    <2>1. PICK n \in Int : n = Minus(i * m) /\ Cong(n, -(i * m))
        <3>1. i * m \in Int
            OBVIOUS
        <3> QED
            BY <3>1, MinusFacts, KeyFacts
    <2>2. PICK u \in Int : u = p
        BY KeyFacts
    <2>3. /\ i * t * u \in Int /\ n + i * t * u \in Int /\ -(i * m) \in Int
          /\ -(i * m) + i * t * u \in Int /\ t * u - m \in Int /\ i * (t * u - m) \in Int
          /\ -(i * m) + i * t * u = i * (t * u - m)
        OBVIOUS
    <2>4. PICK q \in Scalar32 : q = (n + i * t * u) % Order /\ Cong(q, n + i * t * u)
        BY <2>3, CongMod
    <2>5. Cong(n + i * t * u, -(i * m) + i * t * u)
        BY <2>1, <2>3, CongRefl, CongAdd
    <2>6. q \in Int
        BY KeyFacts
    <2>7. Cong(q, i * (t * u - m))
        BY <2>3, <2>4, <2>5, <2>6, CongTrans
    <2>8. Cong(a * q, t * u - m)
        BY <1>1, <2>3, <2>6, <2>7, Divided
    <2> QED
        BY <2>1, <2>2, <2>4, <2>8
<1>3. SigRecover(Signature(r, s), m, j) =
        IF j >= 2 /\ r >= FieldPrime - Order THEN {}
        ELSE {Q(p) : p \in SetXo(x, j % 2 = 1)} \ {0}
    BY <1>1, KeyFacts DEF SigRecover, Signature
<1>4. SetXo(x, j % 2 = 1) = {p \in Key : Tells(p, r, j)}
    BY <1>1, PointFacts DEF SetXo, Tells, Key
<1>5. SigRecover(Signature(r, s), m, j) \subseteq Key
    <2>1. \A p \in Key : Q(p) \in Scalar32
        BY <1>2
    <2> HIDE DEF Q, x
    <2>2. SigRecover(Signature(r, s), m, j) \subseteq {Q(p) : p \in SetXo(x, j % 2 = 1)} \ {0}
        BY <1>3
    <2>3. {Q(p) : p \in SetXo(x, j % 2 = 1)} \subseteq Scalar32
        BY <2>1, <1>4
    <2> QED
        BY <2>2, <2>3, KeyFacts
<1>6. ASSUME NEW p \in Key, Tells(p, r, j)
      PROVE  ~(j >= 2 /\ r >= FieldPrime - Order)
    <2>1. X(p) \in 0 .. FieldPrime - 1 /\ FieldPrime \in Nat /\ Order \in Nat
        BY PointFacts, FieldAssumption, OrderFacts DEF Residue
    <2> QED
        BY <1>1, <1>6, <2>1 DEF Tells
<1>7. ASSUME NEW k \in Key, NEW p \in Key
      PROVE  k = Q(p) <=> IsPoint(p, r, s, k, m)
    <2>1. PICK u, b \in Int : u = p /\ b = k
        BY KeyFacts
    <2>2. PICK q \in Scalar32 : q = Q(p) /\ Cong(a * q, t * u - m)
        BY <1>2, <2>1
    <2>3. /\ t * u \in Int /\ a * b \in Int /\ m + a * b \in Int /\ t * u - m \in Int
          /\ (m + a * b) - m = a * b /\ m + (t * u - m) = t * u
        OBVIOUS
    <2>4. ASSUME k = q PROVE Cong(t * u, m + a * b)
        <3>1. Cong(a * b, t * u - m)
            BY <2>1, <2>2, <2>4
        <3>2. Cong(m + a * b, m + (t * u - m))
            BY <2>3, <3>1, CongRefl, CongAdd
        <3>3. Cong(m + a * b, t * u)
            BY <2>3, <3>2
        <3> QED
            BY <2>3, <3>3, CongSym
    <2>5. ASSUME Cong(t * u, m + a * b) PROVE k = q
        <3>1. Cong(t * u - m, (m + a * b) - m)
            BY <2>3, <2>5, CongRefl, CongMinus
        <3>2. Cong(t * u - m, a * b)
            BY <2>3, <3>1
        <3>3. Cong(a * b, t * u - m)
            BY <2>3, <3>2, CongSym
        <3>4. Cong(r * k, t * u - m) /\ Cong(r * q, t * u - m)
            BY <1>1, <2>1, <2>2, <3>3
        <3>5. k \in Scalar32
            BY KeyFacts
        <3> QED
            BY <2>3, <3>4, <3>5, OneDivided
    <2> QED
        BY <1>1, <2>1, <2>2, <2>4, <2>5 DEF IsPoint
<1>8. \A k \in Key : k \in SigRecover(Signature(r, s), m, j) <=>
                        \E p \in Key : Tells(p, r, j) /\ IsPoint(p, r, s, k, m)
    <2> SUFFICES ASSUME NEW k \in Key
                 PROVE  k \in SigRecover(Signature(r, s), m, j) <=>
                            \E p \in Key : Tells(p, r, j) /\ IsPoint(p, r, s, k, m)
        OBVIOUS
    <2>1. k # 0
        BY KeyFacts
    <2> HIDE DEF Q, x
    <2> QED
        BY <1>3, <1>4, <1>6, <1>7, <2>1
<1> QED
    BY <1>5, <1>8

(* The opposite of s and of the point make the same equation.              *)
LEMMA Opposites ==
    ASSUME NEW r \in Key, NEW s \in Key, NEW k \in Key, NEW m \in Int, NEW p \in Key
    PROVE  IsPoint(Minus(p), r, Minus(s), k, m) <=> IsPoint(p, r, s, k, m)
<1>1. PICK t, u, a, b \in Int : t = s /\ u = p /\ a = r /\ b = k
    BY KeyFacts
<1>2. PICK v, w \in Int : v = Minus(s) /\ w = Minus(p) /\ Cong(v, -t) /\ Cong(w, -u)
    BY <1>1, MinusFacts, KeyFacts
<1>3. /\ v * w \in Int /\ t * u \in Int /\ m + a * b \in Int /\ -t \in Int /\ -u \in Int
      /\ v * (-u) \in Int /\ (-t) * (-u) = t * u
    OBVIOUS
<1>4. Cong(v * w, t * u)
    <2>1. Cong(v * w, v * (-u)) /\ Cong(v * (-u), (-t) * (-u))
        BY <1>2, <1>3, CongTimes
    <2> QED
        BY <1>3, <2>1, CongTrans
<1>5. Cong(t * u, v * w)
    BY <1>3, <1>4, CongSym
<1>6. Cong(v * w, m + a * b) <=> Cong(t * u, m + a * b)
    BY <1>3, <1>4, <1>5, CongTrans
<1> QED
    BY <1>1, <1>2, <1>6 DEF IsPoint

(* Of s and its opposite one is high, and the order is odd.                *)
LEMMA HighFacts ==
    ASSUME NEW s \in Key
    PROVE  (IsHigh(Minus(s)) <=> ~IsHigh(s)) /\ Minus(Minus(s)) = s
<1>1. PICK o \in Nat : o = Order /\ o > 1
    BY OrderFacts
<1>2. s \in 1 .. o - 1 /\ Minus(s) = o - s /\ Minus(s) \in Key
    BY <1>1, MinusKey DEF Key
<1>3. 2 * s # o
    <2>1. ASSUME 2 * s = o PROVE FALSE
        <3>1. Minus(s) = s
            BY <1>1, <1>2, <2>1
        <3> QED
            BY <3>1, PointFacts
    <2> QED
        BY <2>1
<1>4. Minus(Minus(s)) = o - (o - s)
    BY <1>1, <1>2, MinusKey
<1> QED
    BY <1>1, <1>2, <1>3, <1>4 DEF IsHigh

(* What is normalized is valid as before, and low.                         *)
LEMMA NormalizedFacts ==
    ASSUME NEW r \in Key, NEW s \in Key, NEW k \in Key, NEW m \in Int
    PROVE  /\ SigVerify(Signature(r, Minus(s)), k, m) <=> SigVerify(Signature(r, s), k, m)
           /\ SignatureNormalize(Signature(r, s)) = Signature(r, IF IsHigh(s) THEN Minus(s) ELSE s)
           /\ SignatureNormalize(Signature(r, Minus(s))) = SignatureNormalize(Signature(r, s))
<1>1. Minus(s) \in Key /\ Minus(Minus(s)) = s /\ (IsHigh(Minus(s)) <=> ~IsHigh(s))
    BY MinusKey, HighFacts
<1>2. \A p \in Key : Minus(p) \in Key /\ X(Minus(p)) = X(p) /\ Minus(Minus(p)) = p
    BY MinusKey, PointFacts, HighFacts
<1>3. \A p \in Key : IsPoint(Minus(p), r, Minus(s), k, m) <=> IsPoint(p, r, s, k, m)
    BY Opposites
<1>4. (\E p \in Key : IsPoint(p, r, Minus(s), k, m) /\ X(p) % Order = r) <=>
      (\E p \in Key : IsPoint(p, r, s, k, m) /\ X(p) % Order = r)
    <2>1. ASSUME NEW p \in Key, IsPoint(p, r, Minus(s), k, m), X(p) % Order = r
          PROVE  IsPoint(Minus(p), r, s, k, m) /\ X(Minus(p)) % Order = r /\ Minus(p) \in Key
        BY <1>2, <1>3, <2>1
    <2>2. ASSUME NEW p \in Key, IsPoint(p, r, s, k, m), X(p) % Order = r
          PROVE  IsPoint(Minus(p), r, Minus(s), k, m) /\ X(Minus(p)) % Order = r /\ Minus(p) \in Key
        BY <1>2, <1>3, <2>2
    <2> QED
        BY <2>1, <2>2
<1>5. SigVerify(Signature(r, Minus(s)), k, m) <=> SigVerify(Signature(r, s), k, m)
    BY <1>1, <1>4, VerifiesIff
<1>6. SignatureNormalize(Signature(r, s)) = Signature(r, IF IsHigh(s) THEN Minus(s) ELSE s)
    BY DEF SignatureNormalize, Signature
<1>7. SignatureNormalize(Signature(r, Minus(s)))
        = Signature(r, IF IsHigh(Minus(s)) THEN Minus(Minus(s)) ELSE Minus(s))
    BY DEF SignatureNormalize, Signature
<1> QED
    BY <1>1, <1>5, <1>6, <1>7

(* A point is named by one identifier, and the x coordinate it names is r  *)
(* modulo the order.                                                       *)
LEMMA OneIdentifier ==
    ASSUME NEW r \in Key, NEW p \in Key
    PROVE  /\ \A j \in 0 .. 3 : Tells(p, r, j) => X(p) % Order = r
           /\ \A i, j \in 0 .. 3 : Tells(p, r, i) /\ Tells(p, r, j) => i = j
           /\ X(p) % Order = r =>
                \A odd \in {0, 1} : (odd = 1 <=> OddY(p)) =>
                    /\ 2 * (X(p) \div Order) + odd \in 0 .. 3
                    /\ Tells(p, r, 2 * (X(p) \div Order) + odd)
           /\ \A q \in Key, j \in 0 .. 3 : Tells(p, r, j) /\ Tells(q, r, j) => p = q
<1>1. PICK o \in Nat : o = Order /\ o > 1 /\ r \in Scalar32 /\ r \in 1 .. o - 1
    BY OrderFacts, KeyFacts DEF Key
<1>2. PICK x \in Int : x = X(p)
    BY PointFacts, FieldAssumption DEF Residue
<1>3. /\ X(p) % Order = r <=> x \in {r, r + o}
      /\ X(p) \div Order = IF x < o THEN 0 ELSE 1
    BY <1>1, <1>2, ReducedX
<1>4. \A j \in 0 .. 3 : (j >= 2 <=> j \in {2, 3}) /\ (j % 2 = 1 <=> j \in {1, 3})
    OBVIOUS
<1>5. \A j \in 0 .. 3 : Tells(p, r, j) <=>
        x = r + (IF j \in {2, 3} THEN o ELSE 0) /\ (OddY(p) <=> j \in {1, 3})
    BY <1>1, <1>2, <1>4 DEF Tells
<1>6. \A j \in 0 .. 3 : Tells(p, r, j) => X(p) % Order = r
    BY <1>1, <1>3, <1>5
<1>7. \A i, j \in 0 .. 3 : Tells(p, r, i) /\ Tells(p, r, j) => i = j
    BY <1>1, <1>5
<1>8. ASSUME X(p) % Order = r, NEW odd \in {0, 1}, odd = 1 <=> OddY(p)
      PROVE  /\ 2 * (X(p) \div Order) + odd \in 0 .. 3
             /\ Tells(p, r, 2 * (X(p) \div Order) + odd)
    <2>1. CASE x < o
        <3>1. x = r /\ X(p) \div Order = 0
            BY <1>1, <1>3, <1>8, <2>1
        <3>2. 2 * (X(p) \div Order) + odd = odd
            BY <3>1
        <3> QED
            BY <1>1, <1>5, <1>8, <3>1, <3>2
    <2>2. CASE ~(x < o)
        <3>1. x = r + o /\ X(p) \div Order = 1
            BY <1>1, <1>3, <1>8, <2>2
        <3>2. 2 * (X(p) \div Order) + odd = 2 + odd
            BY <3>1
        <3> QED
            BY <1>1, <1>5, <1>8, <3>1, <3>2
    <2> QED
        BY <2>1, <2>2
<1>9. ASSUME NEW q \in Key, NEW j \in 0 .. 3, Tells(p, r, j), Tells(q, r, j)
      PROVE  p = q
    <2>1. X(p) = X(q) /\ (OddY(p) <=> OddY(q))
        BY <1>9 DEF Tells
    <2> QED
        BY <2>1, PointFacts
<1> QED
    BY <1>6, <1>7, <1>8, <1>9

(* A point is for one key.                                                 *)
LEMMA OneKey ==
    ASSUME NEW r \in Key, NEW s \in Key, NEW m \in Int, NEW p \in Key,
           NEW k \in Key, NEW l \in Key, IsPoint(p, r, s, k, m), IsPoint(p, r, s, l, m)
    PROVE  k = l
<1>1. PICK n, a, b, c \in Int : n = s * p /\ a = r /\ b = k /\ c = l
    BY KeyFacts
<1>2. /\ m + a * b \in Int /\ m + a * c \in Int /\ a * b \in Int /\ a * c \in Int /\ n - m \in Int
      /\ m + a * b - m = a * b /\ m + a * c - m = a * c
    OBVIOUS
<1>3. Cong(m + a * b, n) /\ Cong(m + a * c, n)
    BY <1>1, <1>2, CongSym DEF IsPoint
<1>4. Cong(m + a * b - m, n - m) /\ Cong(m + a * c - m, n - m)
    BY <1>2, <1>3, CongRefl, CongMinus
<1>5. Cong(r * k, n - m) /\ Cong(r * l, n - m) /\ k \in Scalar32 /\ l \in Scalar32
    BY <1>1, <1>2, <1>4, KeyFacts
<1> QED
    BY <1>2, <1>5, OneDivided

(* What an attempt to sign yields.                                         *)
FirstR(nonce) == X(nonce) % Order
FirstS(sec, m, nonce) == (ScalarInverse[nonce] * (m + FirstR(nonce) * sec)) % Order
Identifier(nonce, s) ==
    2 * (X(nonce) \div Order) + ((Y(nonce) + (IF IsHigh(s) THEN 1 ELSE 0)) % 2)

(* What an attempt computes: r and s reduced, s made low, an identifier.   *)
LEMMA SigSignTypes ==
    ASSUME NEW sec \in Key, NEW m \in Scalar32, NEW nonce \in Key
    PROVE  LET a == SigSign(sec, m, nonce)
               r == FirstR(nonce)
               s == FirstS(sec, m, nonce)
           IN  /\ r \in Scalar32 /\ s \in Scalar32
               /\ Cong(s, ScalarInverse[nonce] * (m + r * sec))
               /\ a.ok \in BOOLEAN /\ (a.ok <=> r # 0 /\ s # 0)
               /\ a.sig = Signature(r, IF IsHigh(s) THEN Minus(s) ELSE s)
               /\ a.recid = Identifier(nonce, s)
               /\ a.sig \in [r : Scalar32, s : Scalar32] /\ a.recid \in 0 .. 3
<1>0. PICK r, s : r = FirstR(nonce) /\ s = FirstS(sec, m, nonce)
    OBVIOUS
<1>1. r \in Scalar32
    <2>1. 0 \in Scalar32
        BY OrderFacts DEF Scalar32
    <2> QED
        BY <1>0, <2>1, ReducedX DEF FirstR
<1>2. PICK i, c, n, k \in Int : i = ScalarInverse[nonce] /\ c = r /\ n = m /\ k = sec
    BY <1>1, InverseFacts, KeyFacts
<1>3. i * (n + c * k) \in Int
    OBVIOUS
<1>4. s \in Scalar32 /\ Cong(s, i * (n + c * k))
    BY <1>0, <1>2, <1>3, CongMod DEF FirstS
<1>5. SigSign(sec, m, nonce) =
        [ok |-> r # 0 /\ s # 0, sig |-> SignatureNormalize(Signature(r, s)),
         recid |-> Identifier(nonce, s)]
    BY <1>0 DEF SigSign, FirstR, FirstS, Identifier
<1>6. SignatureNormalize(Signature(r, s)) = Signature(r, IF IsHigh(s) THEN Minus(s) ELSE s)
    BY DEF SignatureNormalize, Signature
<1>7. Minus(s) \in Scalar32
    BY <1>4, MinusFacts, KeyFacts
<1>8. Identifier(nonce, s) \in 0 .. 3
    <2>1. X(nonce) \div Order \in {0, 1}
        BY <1>1, ReducedX
    <2>2. Y(nonce) \in Int
        BY PointFacts, FieldAssumption DEF Residue
    <2>3. (Y(nonce) + (IF IsHigh(s) THEN 1 ELSE 0)) % 2 \in {0, 1}
        BY <2>2
    <2> QED
        BY <2>1, <2>3 DEF Identifier
<1>9. PICK a : a = SigSign(sec, m, nonce)
    OBVIOUS
<1>10. /\ a.ok \in BOOLEAN /\ (a.ok <=> r # 0 /\ s # 0)
       /\ a.sig = Signature(r, IF IsHigh(s) THEN Minus(s) ELSE s)
       /\ a.recid = Identifier(nonce, s)
    <2>1. PICK ok \in BOOLEAN : ok = (r # 0 /\ s # 0)
        OBVIOUS
    <2>2. a = [ok |-> ok, sig |-> SignatureNormalize(Signature(r, s)),
               recid |-> Identifier(nonce, s)]
        BY <1>5, <1>9, <2>1
    <2>3. /\ a.ok = ok /\ a.sig = SignatureNormalize(Signature(r, s))
          /\ a.recid = Identifier(nonce, s)
        BY <2>2
    <2> QED
        BY <1>6, <2>1, <2>3
<1>11. Signature(r, IF IsHigh(s) THEN Minus(s) ELSE s) \in [r : Scalar32, s : Scalar32]
    BY <1>1, <1>4, <1>7 DEF Signature
<1> QED
    BY <1>0, <1>1, <1>2, <1>4, <1>8, <1>9, <1>10, <1>11

(* A signature that comes out is of the key.                               *)
LEMMA SigSignFacts ==
    ASSUME NEW sec \in Key, NEW m \in Scalar32, NEW nonce \in Key,
           SigSign(sec, m, nonce).ok
    PROVE  LET a == SigSign(sec, m, nonce)
           IN  /\ ~IsHigh(a.sig.s) /\ SigVerify(a.sig, sec, m)
               /\ SigRecover(a.sig, m, a.recid) = {sec}
<1>1. PICK r : r = FirstR(nonce)
    OBVIOUS
<1>2. PICK s0 : s0 = FirstS(sec, m, nonce)
    OBVIOUS
<1> DEFINE s == IF IsHigh(s0) THEN Minus(s0) ELSE s0
           p == IF IsHigh(s0) THEN Minus(nonce) ELSE nonce
           odd == (Y(nonce) + (IF IsHigh(s0) THEN 1 ELSE 0)) % 2
           j == Identifier(nonce, s0)
<1>3. /\ r \in Scalar32 /\ s0 \in Scalar32
      /\ Cong(s0, ScalarInverse[nonce] * (m + r * sec))
      /\ r # 0 /\ s0 # 0
      /\ SigSign(sec, m, nonce).sig = Signature(r, s) /\ SigSign(sec, m, nonce).recid = j
      /\ j \in 0 .. 3
    <2>1. /\ r \in Scalar32 /\ s0 \in Scalar32
          /\ Cong(s0, ScalarInverse[nonce] * (m + r * sec))
          /\ (SigSign(sec, m, nonce).ok <=> r # 0 /\ s0 # 0)
          /\ SigSign(sec, m, nonce).sig = Signature(r, IF IsHigh(s0) THEN Minus(s0) ELSE s0)
          /\ SigSign(sec, m, nonce).recid = Identifier(nonce, s0)
          /\ SigSign(sec, m, nonce).recid \in 0 .. 3
        BY <1>1, <1>2, SigSignTypes
    <2>2. r # 0 /\ s0 # 0
        BY <2>1
    <2>3. SigSign(sec, m, nonce).sig = Signature(r, s) /\ SigSign(sec, m, nonce).recid = j
        BY <2>1
    <2> QED
        BY <2>1, <2>2, <2>3
<1>4. r \in Key /\ s0 \in Key /\ m \in Int
    BY <1>3, KeyFacts
<1>5. s \in Key /\ p \in Key /\ ~IsHigh(s) /\ X(p) = X(nonce)
    BY <1>4, MinusKey, PointFacts, HighFacts
<1>6. IsPoint(nonce, r, s0, sec, m)
    <2>1. PICK n, t, k, c \in Int : n = nonce /\ t = s0 /\ k = sec /\ c = r
        BY <1>4, KeyFacts
    <2>2. m + c * k \in Int /\ t * n = n * t
        BY <1>4
    <2>3. Cong(n * t, m + c * k)
        BY <1>3, <2>1, <2>2, Divided
    <2> QED
        BY <2>1, <2>2, <2>3 DEF IsPoint
<1>7. IsPoint(p, r, s, sec, m)
    BY <1>4, <1>6, Opposites
<1>8. odd \in {0, 1} /\ (odd = 1 <=> OddY(p))
    <2>1. PICK y \in Int : y = Y(nonce)
        BY PointFacts, FieldAssumption DEF Residue
    <2>2. OddY(Minus(nonce)) <=> ~OddY(nonce)
        BY PointFacts
    <2>3. y % 2 \in {0, 1} /\ (y + 1) % 2 \in {0, 1} /\ ((y + 1) % 2 = 1 <=> y % 2 # 1) /\ y + 0 = y
        OBVIOUS
    <2>4. OddY(nonce) <=> y % 2 = 1
        BY <2>1 DEF OddY
    <2> QED
        BY <2>1, <2>2, <2>3, <2>4
<1>9. Tells(p, r, j)
    <2>1. X(p) % Order = r
        BY <1>1, <1>5 DEF FirstR
    <2>2. Tells(p, r, 2 * (X(p) \div Order) + odd)
        BY <1>4, <1>5, <1>8, <2>1, OneIdentifier
    <2>3. j = 2 * (X(p) \div Order) + odd
        BY <1>5 DEF Identifier
    <2> QED
        BY <2>2, <2>3
<1>10. SigVerify(Signature(r, s), sec, m)
    <2>1. X(p) % Order = r
        BY <1>1, <1>5 DEF FirstR
    <2>2. \E q \in Key : IsPoint(q, r, s, sec, m) /\ X(q) % Order = r
        BY <1>5, <1>7, <2>1
    <2> HIDE DEF s, p
    <2> QED
        BY <1>4, <1>5, <2>2, VerifiesIff
<1> HIDE DEF s, p, odd, j
<1>11. SigRecover(Signature(r, s), m, j) = {sec}
    <2>1. /\ SigRecover(Signature(r, s), m, j) \subseteq Key
          /\ \A k \in Key : k \in SigRecover(Signature(r, s), m, j) <=>
                \E q \in Key : Tells(q, r, j) /\ IsPoint(q, r, s, k, m)
        <3>1. j \in 0 .. 3 /\ s \in Key /\ r \in Key /\ m \in Int
            BY <1>3, <1>4, <1>5
        <3> QED
            BY <3>1, RecoversIff
    <2>2. sec \in SigRecover(Signature(r, s), m, j)
        BY <1>5, <1>7, <1>9, <2>1
    <2>3. ASSUME NEW k \in SigRecover(Signature(r, s), m, j) PROVE k = sec
        <3>1. k \in Key
            BY <2>1
        <3>2. PICK q \in Key : Tells(q, r, j) /\ IsPoint(q, r, s, k, m)
            BY <2>1, <3>1
        <3>3. q = p
            BY <1>3, <1>4, <1>5, <1>9, <3>2, OneIdentifier
        <3> QED
            BY <1>4, <1>5, <1>7, <3>1, <3>2, <3>3, OneKey
    <2> QED
        BY <2>2, <2>3
<1>12. Signature(r, s).s = s
    BY DEF Signature
<1> QED
    BY <1>3, <1>5, <1>10, <1>11, <1>12
-----------------------------------------------------------------------------
(* The process that signs. *)

SignTypes ==
    call \in [seckey : Bytes32, msg32 : Bytes32, done : BOOLEAN, ret : BOOLEAN,
              sig : [r : Scalar32, s : Scalar32], recid : 0 .. 3]

(* What a call that is over leaves; one under way has not succeeded.       *)
SignOutcome ==
    IF ~call.done THEN ~call.ret
    ELSE IF call.ret
    THEN /\ EcdsaVerify(call.sig, call.msg32, call.seckey)
         /\ SigRecover(call.sig, Reduced(call.msg32), call.recid) = {call.seckey}
    ELSE call.sig = NoSignature /\ call.recid = 0

SignIInv == SignTypes /\ SignOutcome

(* A valid key is one, and is what it is reduced to.                       *)
LEMMA ValidKey ==
    ASSUME NEW n \in Bytes32
    PROVE  /\ ValidSeckey(n) => n \in Key
           /\ Reduced(n) \in Scalar32 /\ 1 \in Key /\ 0 \in Scalar32
           /\ n \in Key => Reduced(n) = n
<1>1. PICK o, t \in Nat : o = Order /\ o > 1 /\ t = Top
    BY OppositesAssumption
<1>2. n \in 0 .. t
    BY <1>1 DEF Bytes32
<1>3. Reduced(n) \in Scalar32 /\ Cong(Reduced(n), n)
    BY ReducedFacts
<1>4. 1 \in Key /\ 0 \in Scalar32 /\ (ValidSeckey(n) => n \in Key)
    BY <1>1, <1>2 DEF Key, Scalar32, ValidSeckey, Overflows
<1>5. n \in Key => Reduced(n) = n
    BY <1>3, KeyFacts, CongEqual
<1> QED
    BY <1>3, <1>4, <1>5

(* A call that begins is under way.                                        *)
LEMMA SignInitInv == SignInner => SignIInv
<1> SUFFICES ASSUME NEW seckey \in Inputs, NEW msg32 \in Inputs,
                    call = [seckey |-> seckey, msg32 |-> msg32, done |-> FALSE, ret |-> FALSE,
                            sig |-> NoSignature, recid |-> 0]
             PROVE  SignIInv
    BY DEF SignInner
<1>1. seckey \in Bytes32 /\ msg32 \in Bytes32
    BY InputsAssumption
<1>2. NoSignature \in [r : Scalar32, s : Scalar32]
    BY OrderFacts DEF NoSignature, Signature, Scalar32
<1> QED
    BY <1>1, <1>2 DEF SignIInv, SignTypes, SignOutcome

(* An attempt that makes a signature ends the call, and of a valid key it  *)
(* is the key's; any other leaves the call under way.                      *)
LEMMA TryNonceKeeps ==
    ASSUME SignIInv, NEW nonce \in Bytes32, TryNonce(nonce)
    PROVE  SignIInv'
<1>1. /\ call.seckey \in Bytes32 /\ call.msg32 \in Bytes32 /\ ~call.done
      /\ call \in [seckey : Bytes32, msg32 : Bytes32, done : BOOLEAN, ret : BOOLEAN,
                   sig : [r : Scalar32, s : Scalar32], recid : 0 .. 3]
    BY DEF SignIInv, SignTypes, TryNonce
<1>2. PICK ret \in BOOLEAN : ret = ValidSeckey(call.seckey)
    BY DEF ValidSeckey
<1>3. PICK key \in Key : key = IF ret THEN call.seckey ELSE 1
    BY <1>1, <1>2, ValidKey
<1>4. PICK m \in Scalar32 : m = Reduced(call.msg32)
    BY <1>1, ValidKey
<1>5. nonce \in Key
    BY ValidKey DEF TryNonce
<1>6. PICK a : a = SigSign(key, m, nonce)
    OBVIOUS
<1>7. a.sig \in [r : Scalar32, s : Scalar32] /\ a.recid \in 0 .. 3 /\ a.ok \in BOOLEAN
    BY <1>5, <1>6, SigSignTypes
<1>8. a.ok => /\ ~IsHigh(a.sig.s) /\ SigVerify(a.sig, key, m)
              /\ SigRecover(a.sig, m, a.recid) = {key}
    BY <1>5, <1>6, SigSignFacts
<1>9. call' = [call EXCEPT !.done = a.ok, !.ret = a.ok /\ ret,
                           !.sig = IF a.ok /\ ~ret THEN NoSignature ELSE a.sig,
                           !.recid = IF a.ok /\ ~ret THEN 0 ELSE a.recid]
    BY <1>2, <1>3, <1>4, <1>6 DEF TryNonce
<1>10. NoSignature \in [r : Scalar32, s : Scalar32]
    BY OrderFacts DEF NoSignature, Signature, Scalar32
<1>11. /\ call'.seckey = call.seckey /\ call'.msg32 = call.msg32 /\ call'.done = a.ok
       /\ call'.ret = (a.ok /\ ret)
       /\ call'.sig = (IF a.ok /\ ~ret THEN NoSignature ELSE a.sig)
       /\ call'.recid = (IF a.ok /\ ~ret THEN 0 ELSE a.recid)
    BY <1>1, <1>9
<1>12. SignTypes'
    <2>1. call'.sig \in [r : Scalar32, s : Scalar32] /\ call'.recid \in 0 .. 3
        BY <1>7, <1>10, <1>11
    <2> QED
        BY <1>1, <1>7, <1>9, <1>11, <2>1 DEF SignTypes
<1>13. SignOutcome'
    <2>1. CASE ~a.ok
        BY <1>11, <2>1 DEF SignOutcome
    <2>2. CASE a.ok /\ ~ret
        BY <1>11, <2>2 DEF SignOutcome
    <2>3. CASE a.ok /\ ret
        <3>1. key = call.seckey
            BY <1>3, <2>3
        <3>2. EcdsaVerify(a.sig, call.msg32, call.seckey)
            BY <1>4, <1>8, <2>3, <3>1 DEF EcdsaVerify
        <3>3. SigRecover(a.sig, Reduced(call.msg32), a.recid) = {call.seckey}
            BY <1>4, <1>8, <2>3, <3>1
        <3>4. /\ call'.done /\ call'.ret /\ call'.sig = a.sig /\ call'.recid = a.recid
              /\ call'.seckey = call.seckey /\ call'.msg32 = call.msg32
            BY <1>11, <2>3
        <3> QED
            BY <3>2, <3>3, <3>4 DEF SignOutcome
    <2> QED
        BY <1>7, <2>1, <2>2, <2>3
<1> QED
    BY <1>12, <1>13 DEF SignIInv

(* The nonce function gives up, or an attempt is made.                     *)
LEMMA SignStepInv == SignIInv /\ [SignNext]_call => SignIInv'
<1> SUFFICES ASSUME SignIInv, [SignNext]_call PROVE SignIInv'
    OBVIOUS
<1>1. CASE NoNonce
    <2>1. /\ call \in [seckey : Bytes32, msg32 : Bytes32, done : BOOLEAN, ret : BOOLEAN,
                       sig : [r : Scalar32, s : Scalar32], recid : 0 .. 3]
          /\ ~call.done /\ ~call.ret
          /\ call' = [call EXCEPT !.done = TRUE, !.sig = NoSignature, !.recid = 0]
        BY <1>1 DEF NoNonce, SignIInv, SignTypes, SignOutcome
    <2>2. NoSignature \in [r : Scalar32, s : Scalar32]
        BY OrderFacts DEF NoSignature, Signature, Scalar32
    <2>3. call' = [seckey |-> call.seckey, msg32 |-> call.msg32, done |-> TRUE,
                   ret |-> call.ret, sig |-> NoSignature, recid |-> 0]
        BY <2>1
    <2>4. call.seckey \in Bytes32 /\ call.msg32 \in Bytes32 /\ call.ret \in BOOLEAN /\ 0 \in 0 .. 3
        BY <2>1
    <2>5. PICK done \in BOOLEAN : done = TRUE
        OBVIOUS
    <2>6. SignTypes'
        <3>1. call' = [seckey |-> call.seckey, msg32 |-> call.msg32, done |-> done,
                       ret |-> call.ret, sig |-> NoSignature, recid |-> 0]
            BY <2>3, <2>5
        <3> QED
            BY <2>2, <2>4, <3>1 DEF SignTypes
    <2>7. call'.done /\ ~call'.ret /\ call'.sig = NoSignature /\ call'.recid = 0
        BY <2>1
    <2>8. SignOutcome'
        BY <2>7 DEF SignOutcome
    <2> QED
        BY <2>6, <2>8 DEF SignIInv
<1>2. ASSUME NEW nonce \in Bytes32, TryNonce(nonce) PROVE SignIInv'
    BY <1>2, TryNonceKeeps
<1>3. ASSUME UNCHANGED call PROVE SignIInv'
    BY <1>3 DEF SignIInv, SignTypes, SignOutcome
<1> QED
    BY <1>1, <1>2, <1>3 DEF SignNext, InvalidNonce

(* A zero in a signature is never accepted.                                *)
LEMMA EveryScalar ==
    ASSUME NEW r \in Scalars, NEW s \in Scalars
    PROVE  /\ r \in Scalar32 /\ s \in Scalar32 /\ (r # 0 <=> r \in Key) /\ (s # 0 <=> s \in Key)
           /\ \A k, m : SigVerify(Signature(r, s), k, m) => r \in Key /\ s \in Key
           /\ \A m, j : r = 0 \/ s = 0 => SigRecover(Signature(r, s), m, j) = {}
<1>1. r \in Scalar32 /\ s \in Scalar32 /\ (r # 0 <=> r \in Key) /\ (s # 0 <=> s \in Key)
    BY KeyFacts DEF Scalars, Scalar32
<1>2. Signature(r, s).r = r /\ Signature(r, s).s = s
    BY DEF Signature
<1>3. \A k, m : SigVerify(Signature(r, s), k, m) => r # 0 /\ s # 0
    BY <1>2 DEF SigVerify
<1>4. \A m, j : r = 0 \/ s = 0 => SigRecover(Signature(r, s), m, j) = {}
    BY <1>2 DEF SigRecover
<1> QED
    BY <1>1, <1>3, <1>4

(* The three properties of every signature, in any state of a call.        *)
LEMMA OneOfTwoHolds == SignIInv => OneOfTwo
<1> SUFFICES ASSUME SignIInv, NEW r \in Scalars, NEW s \in Scalars,
                    ValidSeckey(call.seckey),
                    SigVerify(Signature(r, s), call.seckey, Reduced(call.msg32))
             PROVE  /\ SignatureNormalize(Signature(r, s)) = SignatureNormalize(Signature(r, Minus(s)))
                    /\ {t \in {Signature(r, s), Signature(r, Minus(s))} :
                            EcdsaVerify(t, call.msg32, call.seckey)} =
                                {SignatureNormalize(Signature(r, s))}
    BY DEF OneOfTwo
<1>1. r \in Key /\ s \in Key /\ call.seckey \in Key
    BY EveryScalar, ValidKey DEF SignIInv, SignTypes
<1>2. PICK m \in Int : m = Reduced(call.msg32)
    BY ValidKey, KeyFacts DEF SignIInv, SignTypes
<1>3. Minus(s) \in Key /\ (IsHigh(Minus(s)) <=> ~IsHigh(s))
    BY <1>1, MinusKey, HighFacts
<1>4. /\ SigVerify(Signature(r, s), call.seckey, m)
      /\ SigVerify(Signature(r, Minus(s)), call.seckey, m)
      /\ SignatureNormalize(Signature(r, s)) = Signature(r, IF IsHigh(s) THEN Minus(s) ELSE s)
      /\ SignatureNormalize(Signature(r, Minus(s))) = SignatureNormalize(Signature(r, s))
    BY <1>1, <1>2, NormalizedFacts
<1>5. Signature(r, s).s = s /\ Signature(r, Minus(s)).s = Minus(s)
    BY DEF Signature
<1>6. /\ EcdsaVerify(Signature(r, s), call.msg32, call.seckey) <=> ~IsHigh(s)
      /\ EcdsaVerify(Signature(r, Minus(s)), call.msg32, call.seckey) <=> IsHigh(s)
    BY <1>2, <1>3, <1>4, <1>5 DEF EcdsaVerify
<1> QED
    BY <1>4, <1>6

(* Verification is the definition.                                         *)
LEMMA VerifiesAsDefinedHolds == SignIInv => VerifiesAsDefined
<1> SUFFICES ASSUME SignIInv, NEW r \in Scalars \ {0}, NEW s \in Scalars \ {0},
                    NEW p, p = (ScalarInverse[s] * Reduced(call.msg32)
                                  + ScalarInverse[s] * r * Reduced(call.seckey)) % Order,
                    Reduced(call.seckey) # 0
             PROVE  SigVerify(Signature(r, s), Reduced(call.seckey), Reduced(call.msg32))
                        <=> (p # 0 /\ X(p) % Order = r)
    BY DEF VerifiesAsDefined
<1>1. r \in Key /\ s \in Key
    BY EveryScalar
<1>2. PICK k \in Key : k = Reduced(call.seckey)
    BY ValidKey, KeyFacts DEF SignIInv, SignTypes
<1>3. PICK m \in Int : m = Reduced(call.msg32)
    BY ValidKey, KeyFacts DEF SignIInv, SignTypes
<1>4. p = (ScalarInverse[s] * m + ScalarInverse[s] * r * k) % Order
    BY <1>2, <1>3
<1> QED
    BY <1>1, <1>2, <1>3, <1>4, VerifiesIff

(* Of the identifiers one leads to the key, if the signature is the key's. *)
LEMMA Identifiers ==
    ASSUME NEW r \in Key, NEW s \in Key, NEW k \in Key, NEW m \in Int
    PROVE  LET ids == {j \in 0 .. 3 : k \in SigRecover(Signature(r, s), m, j)}
           IN  IF SigVerify(Signature(r, s), k, m) THEN \E j : ids = {j} ELSE ids = {}
<1> DEFINE ids == {j \in 0 .. 3 : k \in SigRecover(Signature(r, s), m, j)}
<1>1. \A j \in 0 .. 3 : j \in ids <=> \E p \in Key : Tells(p, r, j) /\ IsPoint(p, r, s, k, m)
    BY RecoversIff
<1>2. ids \subseteq 0 .. 3
    OBVIOUS
<1> HIDE DEF ids
<1>3. CASE SigVerify(Signature(r, s), k, m)
    <2>1. PICK p \in Key : IsPoint(p, r, s, k, m) /\ X(p) % Order = r
        BY <1>3, VerifiesIff
    <2>2. PICK odd \in {0, 1} : odd = 1 <=> OddY(p)
        BY PointFacts
    <2>3. PICK j \in 0 .. 3 : Tells(p, r, j)
        BY <2>1, <2>2, OneIdentifier
    <2>4. j \in ids
        BY <1>1, <2>1, <2>3
    <2>5. ASSUME NEW i \in ids PROVE i = j
        <3>1. i \in 0 .. 3
            BY <1>2
        <3>2. PICK q \in Key : Tells(q, r, i) /\ IsPoint(q, r, s, k, m)
            BY <1>1, <3>1
        <3>3. q = p
            BY <2>1, <3>2, OnePoint
        <3> QED
            BY <2>3, <3>1, <3>2, <3>3, OneIdentifier
    <2>6. ids = {j}
        BY <2>4, <2>5
    <2> QED
        BY <1>3, <2>6 DEF ids
<1>4. CASE ~SigVerify(Signature(r, s), k, m)
    <2>1. ASSUME NEW i \in ids PROVE FALSE
        <3>1. i \in 0 .. 3
            BY <1>2
        <3>2. PICK q \in Key : Tells(q, r, i) /\ IsPoint(q, r, s, k, m)
            BY <1>1, <3>1
        <3>3. X(q) % Order = r
            BY <3>1, <3>2, OneIdentifier
        <3> QED
            BY <1>4, <3>2, <3>3, VerifiesIff
    <2>2. ids = {}
        BY <2>1
    <2> QED
        BY <1>4, <2>2 DEF ids
<1> QED
    BY <1>3, <1>4

(* The identifiers that lead to a key are one, or none.                    *)
LEMMA RecoversAllHolds == SignIInv => RecoversAll
<1> SUFFICES ASSUME SignIInv, NEW r \in Scalars, NEW s \in Scalars,
                    NEW k, k = Reduced(call.seckey), NEW m, m = Reduced(call.msg32),
                    NEW ids, ids = {j \in 0 .. 3 : k \in SigRecover(Signature(r, s), m, j)}
             PROVE  Cardinality(ids) = IF k # 0 /\ SigVerify(Signature(r, s), k, m) THEN 1 ELSE 0
    BY DEF RecoversAll
<1>1. k \in Scalar32 /\ m \in Int
    BY ValidKey, KeyFacts DEF SignIInv, SignTypes
<1>2. \A j : Cardinality({j}) = 1
    BY FS_Singleton
<1>3. Cardinality({}) = 0
    BY FS_EmptySet
<1>4. CASE r = 0 \/ s = 0
    <2>1. ids = {}
        BY <1>4, EveryScalar
    <2>2. ~SigVerify(Signature(r, s), k, m)
        BY <1>4, EveryScalar, KeyFacts
    <2> QED
        BY <1>3, <2>1, <2>2
<1>5. CASE r # 0 /\ s # 0 /\ k = 0
    <2>1. r \in Key /\ s \in Key
        BY <1>5, EveryScalar
    <2>2. \A j \in 0 .. 3 : 0 \notin SigRecover(Signature(r, s), m, j)
        BY <1>1, <2>1, RecoversIff, KeyFacts
    <2>3. ids = {}
        BY <1>5, <2>2
    <2> QED
        BY <1>3, <1>5, <2>3
<1>6. CASE r # 0 /\ s # 0 /\ k # 0
    <2>1. r \in Key /\ s \in Key /\ k \in Key
        BY <1>1, <1>6, EveryScalar, KeyFacts
    <2>2. IF SigVerify(Signature(r, s), k, m) THEN \E j : ids = {j} ELSE ids = {}
        BY <1>1, <2>1, Identifiers
    <2> QED
        BY <1>2, <1>3, <1>6, <2>2
<1> QED
    BY <1>4, <1>5, <1>6

(* Every reachable state of a call of secp256k1_ecdsa_sign is well typed,  *)
(* and a call that is over has left a valid signature of the key, with the *)
(* identifier that leads back to it, or nothing.                           *)
THEOREM SignInvariant == SignSpec => []SignIInv
<1>1. SignInner => SignIInv
    BY SignInitInv
<1>2. SignIInv /\ [SignNext]_call => SignIInv'
    BY SignStepInv
<1> QED
    BY <1>1, <1>2, PTL DEF SignSpec

(* ECDSA is as its definition says, for every curve of a prime order, keys *)
(* and messages of 32 bytes and any nonces, however many are refused.      *)
THEOREM EcdsaIsSafe == SignSpec => []EcdsaHolds
<1>1. SignIInv => EcdsaHolds
    <2>1. SignIInv => SignsOrFails
        BY DEF SignIInv, SignOutcome, SignsOrFails
    <2> QED
        BY <2>1, OneOfTwoHolds, VerifiesAsDefinedHolds, RecoversAllHolds DEF EcdsaHolds
<1> QED
    BY <1>1, SignInvariant, PTL
-----------------------------------------------------------------------------
(* Schnorr signatures. *)

(* The point that verification finds.                                      *)
LEMMA SchnorrIff ==
    ASSUME NEW r \in Residue, NEW k \in Key, NEW msg \in Messages, NEW s \in Scalar32
    PROVE  SchnorrVerify(Sig(r, s), msg, k) <=>
              \E q \in Key : /\ X(q) = r /\ ~OddY(q)
                             /\ Cong(s, q + Challenge(r, msg, X(k)) * k)
<1>1. PICK e, l, n \in Int : e = Challenge(r, msg, X(k)) /\ l = k /\ n = s
    BY PointFacts, ChallengeType, KeyFacts
<1>2. n - e * l \in Int
    OBVIOUS
<1>3. PICK z \in Scalar32 : z = (n - e * l) % Order /\ Cong(z, n - e * l)
    BY <1>2, CongMod
<1>4. r < FieldPrime /\ ~Overflows(s)
    BY FieldAssumption, OrderFacts DEF Residue, Scalar32, Overflows
<1>5. SchnorrVerify(Sig(r, s), msg, k) <=> z # 0 /\ ~OddY(z) /\ X(z) = r
    <2>1. Sig(r, s).r = r /\ Sig(r, s).s = s
        BY DEF Sig
    <2> QED
        BY <1>1, <1>3, <1>4, <2>1 DEF SchnorrVerify
<1>6. \A q \in Scalar32 : Cong(s, q + e * l) <=> q = z
    <2> TAKE q \in Scalar32
    <2>1. PICK u, w \in Int : u = q /\ w = z
        BY KeyFacts
    <2>2. /\ u + e * l \in Int /\ e * l \in Int /\ (u + e * l) - e * l = u
          /\ (n - e * l) + e * l = n
        OBVIOUS
    <2>3. ASSUME Cong(n, u + e * l) PROVE q = z
        <3>1. Cong(n - e * l, u)
            <4>1. Cong(n - e * l, (u + e * l) - e * l)
                BY <2>2, <2>3, CongRefl, CongMinus
            <4> QED
                BY <2>2, <4>1
        <3>2. Cong(w, u)
            BY <1>2, <1>3, <2>1, <3>1, CongTrans
        <3> QED
            BY <2>1, <3>2, CongEqual
    <2>4. ASSUME q = z PROVE Cong(n, u + e * l)
        <3>1. Cong(n - e * l, u)
            BY <1>2, <1>3, <2>1, <2>4, CongSym
        <3>2. Cong((n - e * l) + e * l, u + e * l)
            BY <1>2, <2>2, <3>1, CongRefl, CongAdd
        <3> QED
            BY <2>2, <3>2
    <2> QED
        BY <1>1, <2>1, <2>3, <2>4
<1> QED
    BY <1>1, <1>3, <1>5, <1>6, KeyFacts

(* Whatever the nonce function answers, a signature that comes out is      *)
(* valid for the x-only key, for every key, message and hash.              *)
THEOREM SchnorrSigns ==
    \A sk \in Key, msg \in Messages, buf \in Bytes32, given \in BOOLEAN :
        ValidOrZero(SignInternal([sk |-> sk, pk |-> sk], msg, buf, given), msg, EvenY(sk))
<1> TAKE sk \in Key, msg \in Messages, buf \in Bytes32, given \in BOOLEAN
<1>1. PICK a : a = SignInternal([sk |-> sk, pk |-> sk], msg, buf, given)
    OBVIOUS
<1>2. CASE ~(given /\ Reduced(buf) # 0)
    BY <1>1, <1>2 DEF SignInternal, ValidOrZero
<1>3. CASE given /\ Reduced(buf) # 0
    <2>1. PICK k0 \in Key : k0 = Reduced(buf)
        BY <1>3, ReducedFacts, KeyFacts
    <2>2. /\ EvenY(k0) \in Key /\ ~OddY(EvenY(k0)) /\ X(EvenY(k0)) = X(k0) /\ X(k0) \in Residue
          /\ EvenY(sk) \in Key /\ X(EvenY(sk)) = X(sk) /\ X(sk) \in Residue
        BY EvenYFacts, PointFacts
    <2>3. PICK e, d, k \in Int : e = Challenge(X(k0), msg, X(sk)) /\ d = EvenY(sk) /\ k = EvenY(k0)
        BY <2>2, ChallengeType, KeyFacts
    <2>4. PICK s \in Scalar32 : s = (e * d + k) % Order /\ Cong(s, e * d + k)
        <3>1. e * d + k \in Int
            OBVIOUS
        <3> QED
            BY <3>1, CongMod
    <2>5. a.ok /\ a.sig = Sig(X(k0), s)
        BY <1>1, <1>3, <2>1, <2>3, <2>4 DEF SignInternal, SecretFor, EvenY
    <2>6. Cong(s, EvenY(k0) + Challenge(X(k0), msg, X(EvenY(sk))) * EvenY(sk))
        BY <2>2, <2>3, <2>4
    <2>7. SchnorrVerify(Sig(X(k0), s), msg, EvenY(sk))
        BY <2>2, <2>6, SchnorrIff
    <2> QED
        BY <1>1, <2>5, <2>7 DEF ValidOrZero
<1> QED
    BY <1>2, <1>3

(* Nobody makes another signature of one: an x coordinate has one s, if it *)
(* is one of the curve, and none if not, for every key, message and hash.  *)
THEOREM SchnorrIsUnique ==
    \A r \in Bytes32, msg \in Messages, k \in Key : HasOneS(r, msg, k)
<1> TAKE r \in Bytes32, msg \in Messages, k \in Key
<1> DEFINE S == {s \in Bytes32 : SchnorrVerify(Sig(r, s), msg, k)}
           Points == {q \in Key : X(q) = r /\ ~OddY(q)}
<1>1. XonlyParse(r) = Points
    BY PointFacts DEF XonlyParse, SetXo, Key
<1>2. \A s : s \in S => s \in Scalar32 /\ r \in Residue
    <2> TAKE s
    <2> HAVE s \in S
    <2>1. Sig(r, s).r = r /\ Sig(r, s).s = s
        BY DEF Sig
    <2>2. r < FieldPrime /\ ~(s >= Order) /\ s \in Bytes32
        BY <2>1 DEF SchnorrVerify, Overflows
    <2> QED
        BY <2>2, OppositesAssumption, FieldAssumption DEF Bytes32, Residue, Scalar32
<1>3. Scalar32 \subseteq Bytes32
    BY OppositesAssumption, KeysAssumption, FieldAssumption DEF Scalar32, Bytes32
<1>4. \A q \in Points : r \in Residue
    BY PointFacts
<1>5. \A p, q \in Points : p = q
    BY PointFacts
<1> HIDE DEF Points
<1>6. CASE Points = {}
    <2>1. ASSUME NEW s \in S PROVE FALSE
        <3>1. s \in Scalar32 /\ r \in Residue /\ SchnorrVerify(Sig(r, s), msg, k)
            BY <1>2, <2>1
        <3>2. PICK q \in Key : X(q) = r /\ ~OddY(q)
            BY <3>1, SchnorrIff
        <3> QED
            BY <1>6, <3>2 DEF Points
    <2>2. S = {}
        BY <2>1
    <2> QED
        BY <1>1, <1>6, <2>2 DEF HasOneS
<1>7. ASSUME NEW q \in Points PROVE HasOneS(r, msg, k)
    <2>1. r \in Residue /\ q \in Key /\ X(q) = r /\ ~OddY(q)
        BY <1>4, <1>7 DEF Points
    <2>2. PICK e, l, u \in Int : e = Challenge(r, msg, X(k)) /\ l = k /\ u = q
        BY <2>1, PointFacts, ChallengeType, KeyFacts
    <2>3. u + e * l \in Int
        OBVIOUS
    <2>4. PICK t \in Scalar32 : Cong(t, u + e * l)
        BY <2>3, CongMod
    <2>5. t \in S
        <3>1. Cong(t, q + Challenge(r, msg, X(k)) * k)
            BY <2>2, <2>4
        <3>2. SchnorrVerify(Sig(r, t), msg, k)
            BY <2>1, <3>1, SchnorrIff
        <3> QED
            BY <1>3, <3>2
    <2>6. ASSUME NEW s \in S PROVE s = t
        <3>1. s \in Scalar32 /\ SchnorrVerify(Sig(r, s), msg, k)
            BY <1>2, <2>6
        <3>2. PICK p \in Key : /\ X(p) = r /\ ~OddY(p)
                               /\ Cong(s, p + Challenge(r, msg, X(k)) * k)
            BY <2>1, <3>1, SchnorrIff
        <3>3. p = q
            BY <1>5, <1>7, <3>2 DEF Points
        <3>4. Cong(s, u + e * l) /\ s \in Int /\ t \in Int
            BY <2>2, <3>1, <3>2, <3>3, KeyFacts
        <3>5. Cong(u + e * l, t)
            BY <2>3, <2>4, <3>4, CongSym
        <3>6. Cong(s, t)
            BY <2>3, <3>4, <3>5, CongTrans
        <3> QED
            BY <3>1, <3>6, CongEqual
    <2>7. S = {t} /\ Points = {q}
        BY <1>5, <1>7, <2>5, <2>6
    <2>8. Cardinality(S) = Cardinality(Points)
        BY <2>7, FS_Singleton
    <2> QED
        BY <1>1, <2>8 DEF HasOneS
<1> QED
    BY <1>6, <1>7
-----------------------------------------------------------------------------
(* The calls of one signer: what comes out is valid. *)
SchnorrIInv ==
    /\ schnorr \in [pair : {[sk |-> k, pk |-> k] : k \in Key}, msg : Messages, signed : BOOLEAN,
                    answer : {schnorr.answer}]
    /\ schnorr.signed =>
          ValidOrZero(schnorr.answer, schnorr.msg, EvenY(schnorr.pair.pk))

(* A pair that is made of a valid key is that key, twice.                  *)
LEMMA CreatedPair ==
    /\ \A n \in Bytes32 : ValidSeckey(n) <=> n \in Key
    /\ \A n \in Bytes32 : KeypairCreate(n) = IF n \in Key THEN [sk |-> n, pk |-> n] ELSE KeypairNull
    /\ \A k \in Key : ValidSeckey(k) /\ k \in Bytes32 /\ [sk |-> k, pk |-> k] # KeypairNull
    /\ Residue \subseteq Bytes32 /\ Scalar32 \subseteq Bytes32 /\ 0 \in Bytes32
<1>1. Order \in Nat /\ Order > 1 /\ FieldPrime \in Nat /\ Top \in Nat
      /\ Order < FieldPrime /\ FieldPrime < Top
    BY OrderFacts, OppositesAssumption, KeysAssumption, FieldAssumption
<1>2. \A n \in Bytes32 : ValidSeckey(n) <=> n \in Key
    BY <1>1 DEF ValidSeckey, Overflows, Key, Bytes32
<1>3. \A k \in Key : k \in Bytes32 /\ k # 0
    BY <1>1 DEF Key, Bytes32
<1>4. \A k \in Key : [sk |-> k, pk |-> k] # KeypairNull
    BY <1>3 DEF KeypairNull
<1>5. Residue \subseteq Bytes32 /\ Scalar32 \subseteq Bytes32 /\ 0 \in Bytes32
    BY <1>1 DEF Residue, Scalar32, Bytes32
<1> QED
    BY <1>2, <1>3, <1>4, <1>5 DEF KeypairCreate

(* A signer's first state is as the invariant says.                        *)
LEMMA SchnorrInitInv == SchnorrInit => SchnorrIInv
<1> SUFFICES ASSUME SchnorrInit PROVE SchnorrIInv
    OBVIOUS
<1>1. PICK n \in Bytes32, msg \in Messages :
        /\ KeypairCreate(n) # KeypairNull
        /\ schnorr = [pair |-> KeypairCreate(n), msg |-> msg, signed |-> FALSE,
                      answer |-> [ok |-> FALSE, sig |-> ZeroSig]]
    BY DEF SchnorrInit
<1>2. n \in Key /\ KeypairCreate(n) = [sk |-> n, pk |-> n]
    BY <1>1, CreatedPair
<1> QED
    BY <1>1, <1>2 DEF SchnorrIInv

(* What the nonce function of BIP 340 answers is 32 bytes.                 *)
LEMMA Bip340Type ==
    ASSUME NEW msg \in Messages, NEW sk \in Key, NEW pk \in Key,
           NEW data \in {{}} \cup {{a} : a \in AuxBytes}
    PROVE  NonceBip340(msg, sk, X(pk), data) \in Bytes32
<1>1. Aux(data) \in AuxBytes \cup {NoAux}
    BY DEF Aux
<1>2. X(pk) \in Residue /\ sk \in 1 .. Order - 1
    BY PointFacts DEF Key
<1> QED
    BY <1>1, <1>2, NonceAssumption DEF NonceBip340

(* Every answer of a nonce function leads to a signature that is valid.    *)
LEMMA SchnorrStepInv == SchnorrIInv /\ [SchnorrNext]_schnorr => SchnorrIInv'
<1> SUFFICES ASSUME SchnorrIInv, [SchnorrNext]_schnorr PROVE SchnorrIInv'
    OBVIOUS
<1>1. PICK k \in Key : schnorr.pair = [sk |-> k, pk |-> k]
    BY DEF SchnorrIInv
<1>2. schnorr.msg \in Messages
    BY DEF SchnorrIInv
<1>3. ASSUME NEW buf \in Bytes32, NEW given \in BOOLEAN, SignWith(buf, given)
      PROVE  SchnorrIInv'
    <2>1. PICK a : a = SignInternal(schnorr.pair, schnorr.msg, buf, given)
        OBVIOUS
    <2>2. schnorr' = [schnorr EXCEPT !.signed = TRUE, !.answer = a]
        BY <1>3, <2>1 DEF SignWith
    <2>3. ValidOrZero(a, schnorr.msg, EvenY(k))
        BY <1>1, <1>2, <2>1, SchnorrSigns
    <2>4. /\ schnorr'.pair = schnorr.pair /\ schnorr'.msg = schnorr.msg /\ schnorr'.answer = a
          /\ schnorr' \in [pair : {[sk |-> l, pk |-> l] : l \in Key}, msg : Messages,
                           signed : BOOLEAN, answer : {a}]
        BY <2>2 DEF SchnorrIInv
    <2>5. schnorr'.pair.pk = k
        BY <1>1, <2>4
    <2> QED
        BY <2>3, <2>4, <2>5 DEF SchnorrIInv
<1>4. ASSUME NEW data \in {{}} \cup {{a} : a \in AuxBytes}, SignBip340(data)
      PROVE  SchnorrIInv'
    <2>1. SecretFor(schnorr.pair) \in Key
        <3>1. SecretFor(schnorr.pair) = EvenY(k)
            BY <1>1 DEF SecretFor, EvenY
        <3> QED
            BY <3>1, EvenYFacts
    <2>2. NonceBip340(schnorr.msg, SecretFor(schnorr.pair), X(schnorr.pair.pk), data) \in Bytes32
        BY <1>1, <1>2, <2>1, Bip340Type
    <2> QED
        BY <1>3, <1>4, <2>2 DEF SignBip340
<1>5. CASE UNCHANGED schnorr
    BY <1>5 DEF SchnorrIInv
<1> QED
    BY <1>3, <1>4, <1>5 DEF SchnorrNext

(* A signature that comes out is valid for the x-only key, and all zero is *)
(* not; nobody makes another of its nonce: for every key, message, nonce   *)
(* and hash.                                                               *)
THEOREM SchnorrIsSafe == SchnorrSpec => []SchnorrHolds
<1>1. SchnorrSpec => []SchnorrIInv
    BY SchnorrInitInv, SchnorrStepInv, PTL DEF SchnorrSpec
<1>2. SchnorrIInv => SchnorrHolds
    <2> SUFFICES ASSUME SchnorrIInv PROVE SchnorrHolds
        OBVIOUS
    <2>1. PICK k \in Key : schnorr.pair = [sk |-> k, pk |-> k]
        BY DEF SchnorrIInv
    <2>2. schnorr.msg \in Messages /\ schnorr.pair.pk = k /\ EvenY(k) \in Key
        BY <2>1, EvenYFacts DEF SchnorrIInv
    <2>3. ~SchnorrVerify(ZeroSig, schnorr.msg, EvenY(k))
        <3>1. SUFFICES ASSUME SchnorrVerify(Sig(0, 0), schnorr.msg, EvenY(k)) PROVE FALSE
            BY DEF ZeroSig
        <3>2. 0 \in Residue /\ 0 \in Scalar32
            BY FieldAssumption, OrderFacts, KeysAssumption DEF Residue, Scalar32
        <3>3. PICK q \in Key : X(q) = 0 /\ ~OddY(q)
            BY <2>2, <3>1, <3>2, SchnorrIff
        <3>4. q \in XonlyParse(0)
            BY <3>3 DEF XonlyParse, SetXo, Key
        <3> QED
            BY <3>4, ZeroAssumption
    <2>4. SignsForXonly
        BY <2>2, <2>3 DEF SignsForXonly, SchnorrIInv
    <2>5. OneSPerNonce
        BY <2>2, SchnorrIsUnique DEF OneSPerNonce
    <2> QED
        BY <2>4, <2>5 DEF SchnorrHolds
<1> QED
    BY <1>1, <1>2, PTL
-----------------------------------------------------------------------------
(* A caller's keys. *)
OwnedTypes ==
    [seckey : Scalar32, pubkey : Scalar32, pair : [sk : Scalar32, pk : Scalar32],
     internal : Scalar32, tweaked : Scalar32, check : BOOLEAN]

KeysIInv ==
    /\ owned \in OwnedTypes
    /\ owned.pubkey = owned.seckey /\ owned.pair.pk = owned.pair.sk
    /\ owned.internal # Null => owned.tweaked = owned.pair.pk
    /\ owned.check

(* Made of any 32 bytes, a secret key and its public key are one scalar,   *)
(* zero if the bytes are no key.                                           *)
LEMMA CreatedType ==
    ASSUME NEW n \in Bytes32
    PROVE  PubkeyCreate(n).key \in Scalar32 /\ KeypairCreate(n) \in [sk : Scalar32, pk : Scalar32]
           /\ KeypairCreate(n).pk = KeypairCreate(n).sk
<1>1. CASE n \in Key
    BY <1>1, CreatedPair, KeyFacts DEF PubkeyCreate, When, Done
<1>2. CASE n \notin Key
    BY <1>2, CreatedPair, OrderFacts DEF PubkeyCreate, When, Failed, Null, KeypairNull, Scalar32
<1> QED
    BY <1>1, <1>2

(* What a tweak makes of a scalar is one, zero if it fails.                *)
LEMMA TweakedType ==
    ASSUME NEW n \in Scalar32, NEW t \in Bytes32
    PROVE  /\ TweakAdded(n, t).key \in Scalar32 /\ TweakMultiplied(n, t).key \in Scalar32
           /\ TweakAdded(n, t).ok \in BOOLEAN
           /\ TweakAdded(n, t).ok <=> TweakAdded(n, t).key # 0
<1>1. n \in Int /\ t \in Int /\ n + t \in Int /\ n * t \in Int
    BY KeyFacts, OppositesAssumption DEF Bytes32
<1>2. PICK a \in Scalar32, m \in Scalar32 : a = (n + t) % Order /\ m = (n * t) % Order
    BY <1>1, CongMod
<1>3. 0 \in Scalar32
    BY OrderFacts DEF Scalar32
<1>4. /\ TweakAdded(n, t) = IF ~Overflows(t) /\ a # 0 THEN Done(a) ELSE Failed
      /\ TweakMultiplied(n, t) = IF ~Overflows(t) /\ t # 0 THEN Done(m) ELSE Failed
    BY <1>2 DEF TweakAdded, TweakMultiplied, When
<1> QED
    BY <1>3, <1>4 DEF Done, Failed, Null

(* The sum of two keys is what adding one as a tweak makes of the other.   *)
LEMMA CombinedFacts ==
    ASSUME NEW k \in Key, NEW t \in Key
    PROVE  PubkeyCombine(<<k, t>>) = TweakAdded(k, t)
<1> DEFINE ks == <<k, t>>
<1>1. PICK s : s = CHOOSE sums : AreSums(sums, ks, 2)
    OBVIOUS
<1>2. AreSums(s, ks, 2)
    BY <1>1, SumsExist
<1>3. s[0] = 0 /\ s[1] = (0 + k) % Order /\ s[2] = (s[1] + t) % Order
    BY <1>2 DEF AreSums
<1>4. PubkeyCombine(ks) = When(s[2] # 0, s[2])
    BY <1>1 DEF PubkeyCombine, AreSums
<1>5. k \in Int /\ k \in Scalar32
    BY KeyFacts
<1>6. s[1] = k
    <2>1. 0 + k = k /\ Cong(k, k)
        BY <1>5, CongRefl
    <2>2. PICK z \in Scalar32 : z = k % Order /\ Cong(z, k)
        BY <1>5, CongMod
    <2>3. z = k
        BY <1>5, <2>2, CongEqual, KeyFacts
    <2> QED
        BY <1>3, <2>1, <2>2, <2>3
<1>7. ~Overflows(t)
    BY OrderFacts DEF Overflows, Key
<1> QED
    BY <1>3, <1>4, <1>6, <1>7 DEF TweakAdded

(* A caller's first keys are in step.                                      *)
LEMMA KeysInitInv == KeysInit => KeysIInv
<1> SUFFICES ASSUME KeysInit PROVE KeysIInv
    OBVIOUS
<1>1. PICK n \in Bytes32, m \in Bytes32 : owned = KeysOf(n, m)
    BY DEF KeysInit
<1>2. PICK k \in Scalar32, p \in [sk : Scalar32, pk : Scalar32] :
        k = PubkeyCreate(n).key /\ p = KeypairCreate(m) /\ p.pk = p.sk
    BY CreatedType
<1>3. Null \in Scalar32
    BY OrderFacts DEF Null, Scalar32
<1> QED
    BY <1>1, <1>2, <1>3 DEF KeysOf, KeysIInv, OwnedTypes

(* A change of both keys keeps them in step if it makes the same of both.  *)
LEMMA ChangeKeeps ==
    ASSUME KeysIInv, NEW s, NEW p, Change(s, p), s.key \in Scalar32, p.key = s.key
    PROVE  KeysIInv'
<1>1. PICK k \in Scalar32 : k = s.key
    OBVIOUS
<1>2. owned' = [owned EXCEPT !.seckey = k, !.pubkey = k]
    BY <1>1 DEF Change
<1> QED
    BY <1>2 DEF KeysIInv, OwnedTypes

(* The owner of a pair and everybody else arrive at the same key.          *)
LEMMA PairTweakKeeps ==
    ASSUME KeysIInv, NEW t \in Bytes32, PairTweak(t)
    PROVE  KeysIInv'
<1>1. PICK k \in Scalar32 : owned.pair = [sk |-> k, pk |-> k]
    BY DEF KeysIInv, OwnedTypes
<1>2. k \in Key
    BY <1>1, KeyFacts DEF PairTweak, KeypairNull, Null
<1>3. PICK i \in Key : i = EvenY(k)
    BY <1>2, EvenYFacts
<1>4. PICK r \in Scalar32 : r = TweakAdded(i, t).key
    BY <1>3, TweakedType, KeyFacts
<1>5. TweakAdded(i, t).ok <=> r # 0
    BY <1>3, <1>4, TweakedType, KeyFacts
<1>6. KeypairXonlyTweakAdd(owned.pair, t) = [sk |-> r, pk |-> r]
    <2>1. (IF OddY(k) THEN Minus(k) ELSE k) = i
        BY <1>3 DEF EvenY
    <2> QED
        BY <1>1, <1>3, <1>4, <1>5, <2>1 DEF KeypairXonlyTweakAdd, KeypairNull, Null
<1>7. XonlyTweakAdd(EvenY(owned.pair.pk), t).key = r
    BY <1>1, <1>3, <1>4 DEF XonlyTweakAdd
<1>8. r # Null => XonlyTweakAddCheck(X(r), OddY(r), i, t)
    BY <1>4, <1>5 DEF XonlyTweakAddCheck, Null
<1>9. owned' = [owned EXCEPT !.pair = [sk |-> r, pk |-> r], !.internal = i, !.tweaked = r,
                             !.check = TRUE]
    <2>1. EvenY(owned.pair.pk) = i
        BY <1>1, <1>3
    <2> QED
        BY <1>6, <1>7, <1>8, <2>1 DEF PairTweak
<1> QED
    BY <1>9, KeyFacts DEF KeysIInv, OwnedTypes

(* Every step keeps the keys in step.                                      *)
LEMMA KeysStepInv == KeysIInv /\ [KeysNext]_owned => KeysIInv'
<1> SUFFICES ASSUME KeysIInv, [KeysNext]_owned PROVE KeysIInv'
    OBVIOUS
<1>1. PICK k \in Scalar32 : owned.seckey = k /\ owned.pubkey = k
    BY DEF KeysIInv, OwnedTypes
<1>2. ASSUME StillValid PROVE k \in Key /\ ValidSeckey(k)
    BY <1>1, <1>2, KeyFacts DEF StillValid, Null
<1>3. CASE NegateBoth
    <2>1. k \in Key /\ ValidSeckey(k)
        BY <1>2, <1>3 DEF NegateBoth, Change
    <2>2. SeckeyNegate(k).key = Minus(k) /\ PubkeyNegate(k).key = Minus(k)
        BY <2>1 DEF SeckeyNegate, PubkeyNegate, When, Done
    <2>3. Minus(k) \in Scalar32
        BY <2>1, MinusKey, KeyFacts
    <2> QED
        BY <1>1, <1>3, <2>2, <2>3, ChangeKeeps DEF NegateBoth
<1>4. ASSUME NEW t \in Bytes32, AddBoth(t) PROVE KeysIInv'
    <2>1. SeckeyTweakAdd(k, t) = TweakAdded(k, t) /\ PubkeyTweakAdd(k, t) = TweakAdded(k, t)
        BY <1>2, <1>4 DEF AddBoth, Change, SeckeyTweakAdd, PubkeyTweakAdd
    <2> QED
        BY <1>1, <1>4, <2>1, TweakedType, ChangeKeeps DEF AddBoth
<1>5. ASSUME NEW t \in Bytes32, MulBoth(t) PROVE KeysIInv'
    <2>1. /\ SeckeyTweakMul(k, t) = TweakMultiplied(k, t)
          /\ PubkeyTweakMul(k, t) = TweakMultiplied(k, t)
        BY <1>2, <1>5 DEF MulBoth, Change, SeckeyTweakMul, PubkeyTweakMul
    <2> QED
        BY <1>1, <1>5, <2>1, TweakedType, ChangeKeeps DEF MulBoth
<1>6. ASSUME NEW t \in Bytes32, Combine(t) PROVE KeysIInv'
    <2>1. k \in Key /\ ValidSeckey(k)
        BY <1>2, <1>6 DEF Combine, Change
    <2>2. t \in Key /\ PubkeyCreate(t).key = t
        BY <1>6, CreatedPair, CreatedKey DEF Combine, PubkeyCreate, When, Failed
    <2>3. SeckeyTweakAdd(k, t) = TweakAdded(k, t)
        BY <2>1 DEF SeckeyTweakAdd
    <2>4. PubkeyCombine(<<k, PubkeyCreate(t).key>>) = TweakAdded(k, t)
        BY <2>1, <2>2, CombinedFacts
    <2> QED
        BY <1>1, <1>6, <2>3, <2>4, TweakedType, ChangeKeeps DEF Combine
<1>7. CASE UNCHANGED owned
    BY <1>7 DEF KeysIInv
<1> QED
    BY <1>3, <1>4, <1>5, <1>6, <1>7, PairTweakKeeps DEF KeysNext

(* The encodings of a key, and no others, parse to it.                     *)
LEMMA ThreeEncodings ==
    ASSUME NEW k \in Key
    PROVE  LET full == SerializePubkey(k, FALSE)
           IN  {b \in Encodings : k \in ParsePubkey(b)} =
               {SerializePubkey(k, TRUE), full, [full EXCEPT !.tag = IF OddY(k) THEN 7 ELSE 6]}
<1> DEFINE short == [tag |-> IF OddY(k) THEN 3 ELSE 2, x |-> X(k), y |-> -1]
           full == [tag |-> 4, x |-> X(k), y |-> Y(k)]
           hybrid == [tag |-> IF OddY(k) THEN 7 ELSE 6, x |-> X(k), y |-> Y(k)]
<1>1. /\ SerializePubkey(k, TRUE) = short /\ SerializePubkey(k, FALSE) = full
      /\ [full EXCEPT !.tag = IF OddY(k) THEN 7 ELSE 6] = hybrid
    BY DEF SerializePubkey, Compressed, Uncompressed
<1>2. /\ X(k) \in Residue /\ Y(k) \in Residue /\ Multiple[k] = <<X(k), Y(k)>>
      /\ OddY(k) \in BOOLEAN /\ k \in 1 .. Order - 1
    BY PointFacts DEF Key
<1>3. X(k) \in Bytes32 /\ Y(k) \in Bytes32 /\ Y(k) # -1
    <2>1. X(k) \in Bytes32 /\ Y(k) \in Bytes32
        BY <1>2, CreatedPair
    <2> QED
        BY <2>1, OppositesAssumption DEF Bytes32
<1>4. short \in Encodings /\ full \in Encodings /\ hybrid \in Encodings
    BY <1>2, <1>3 DEF Encodings
<1>5. \A b \in Encodings : k \in ParsePubkey(b) <=>
        IF b.y = -1 THEN b.tag \in {2, 3} /\ X(k) = b.x /\ OddY(k) = (b.tag = 3)
        ELSE /\ b.tag \in {4, 6, 7} /\ (b.tag # 4 => OddY(k) = (b.tag = 7))
             /\ X(k) = b.x /\ Y(k) = b.y
    <2> TAKE b \in Encodings
    <2>1. CASE b.y = -1
        BY <1>2, <2>1 DEF ParsePubkey, SetXo
    <2>2. CASE b.y # -1
        <3>1. Multiple[k] = <<b.x, b.y>> <=> X(k) = b.x /\ Y(k) = b.y
            BY <1>2
        <3> QED
            BY <1>2, <2>2, <3>1, Zenon DEF ParsePubkey
    <2> QED
        BY <2>1, <2>2
<1>6. \A b \in Encodings : b = [tag |-> b.tag, x |-> b.x, y |-> b.y]
    BY DEF Encodings
<1>7. k \in ParsePubkey(short) /\ k \in ParsePubkey(full) /\ k \in ParsePubkey(hybrid)
    BY <1>2, <1>3, <1>4, <1>5
<1>8. ASSUME NEW b \in Encodings, k \in ParsePubkey(b) PROVE b \in {short, full, hybrid}
    <2>1. CASE b.y = -1
        <3>1. b.tag = IF OddY(k) THEN 3 ELSE 2
            BY <1>2, <1>5, <1>8, <2>1
        <3> QED
            BY <1>5, <1>6, <1>8, <2>1, <3>1
    <2>2. CASE b.y # -1
        <3>1. b.tag = 4 \/ b.tag = IF OddY(k) THEN 7 ELSE 6
            BY <1>2, <1>5, <1>8, <2>2
        <3>2. b.x = X(k) /\ b.y = Y(k)
            BY <1>5, <1>8, <2>2
        <3> QED
            BY <1>6, <3>1, <3>2
    <2> QED
        BY <2>1, <2>2
<1> QED
    BY <1>1, <1>4, <1>7, <1>8

(* Two parties arrive at the same point.                                   *)
LEMMA SharedSecret ==
    ASSUME NEW k \in Key, NEW n \in Bytes32
    PROVE  /\ Ecdh(k, n).ok = PubkeyCreate(n).ok
           /\ PubkeyCreate(n).ok => Ecdh(k, n) = Ecdh(PubkeyCreate(n).key, k)
<1>1. Ecdh(k, n).ok = PubkeyCreate(n).ok
    <2>1. Ecdh(k, n).ok = ValidSeckey(n)
        BY DEF Ecdh
    <2>2. ValidSeckey(n) \in BOOLEAN
        BY DEF ValidSeckey, Overflows
    <2>3. CASE ValidSeckey(n)
        BY <2>1, <2>2, <2>3 DEF PubkeyCreate, When, Done
    <2>4. CASE ~ValidSeckey(n)
        BY <2>1, <2>2, <2>4 DEF PubkeyCreate, When, Failed
    <2> QED
        BY <2>3, <2>4
<1>2. ASSUME PubkeyCreate(n).ok PROVE Ecdh(k, n) = Ecdh(PubkeyCreate(n).key, k)
    <2>1. n \in Key /\ PubkeyCreate(n).key = n /\ ValidSeckey(n) /\ ValidSeckey(k)
        BY <1>2, CreatedPair, CreatedKey DEF PubkeyCreate, When, Failed
    <2>2. k * n = n * k
        BY <2>1, KeyFacts
    <2> QED
        BY <2>1, <2>2 DEF Ecdh
<1> QED
    BY <1>1, <1>2

(* Through every change of both, by any tweaks in any order, a public key  *)
(* stays that of its secret key, the x-only key of a pair what everybody   *)
(* can check; a key has three encodings, and two parties share a secret.   *)
THEOREM KeysStayInStep == KeysSpec => []KeysInStep
<1>1. KeysSpec => []KeysIInv
    BY KeysInitInv, KeysStepInv, PTL DEF KeysSpec
<1>2. KeysIInv => KeysInStep
    <2> SUFFICES ASSUME KeysIInv PROVE KeysInStep
        OBVIOUS
    <2>1. PICK k \in Scalar32, n \in Scalar32 :
            /\ owned.seckey = k /\ owned.pubkey = k
            /\ owned.pair = [sk |-> n, pk |-> n]
        BY DEF KeysIInv, OwnedTypes
    <2>2. PubkeyInStep
        BY <2>1, CreatedPair, KeyFacts DEF PubkeyInStep, Null, PubkeyCreate, When, Done
    <2>3. owned.pair = KeypairCreate(owned.pair.sk)
        <3>1. n \in Bytes32 /\ (n \notin Key => n = 0)
            BY CreatedPair, KeyFacts
        <3> QED
            BY <2>1, <3>1, CreatedPair DEF KeypairNull, Null
    <2>4. PairInStep
        BY <2>3 DEF PairInStep, KeysIInv
    <2>5. ASSUME owned.pubkey # Null PROVE owned.pubkey \in Key /\ owned.seckey = owned.pubkey
        BY <2>1, <2>5, KeyFacts DEF Null
    <2>6. OneEncoding
        BY <2>5, ThreeEncodings DEF OneEncoding
    <2>7. Agreement
        BY <2>5, SharedSecret DEF Agreement
    <2> QED
        BY <2>2, <2>4, <2>6, <2>7 DEF KeysInStep
<1> QED
    BY <1>1, <1>2, PTL
-----------------------------------------------------------------------------
(* Scratch spaces. *)
Aligned(n) == \E q \in Nat : n = q * Alignment

Scratches ==
    {s \in [alloc_size : Nat, max_size : 0 .. SizeMax] :
        s.alloc_size <= s.max_size /\ Aligned(s.alloc_size)}

(* What sizes a size_t holds.                                              *)
LEMMA SizeFacts ==
    \E a \in Nat, top \in Nat :
        /\ a = Alignment /\ top = SizeMax /\ a > 1
        /\ \E c \in Nat : c > 0 /\ top + 1 = c * a
<1>1. PICK a \in Nat, top \in Nat : a = Alignment /\ top = SizeMax /\ a > 1
    BY AlignmentAssumption
<1>2. PICK d, r : d = (top + 1) \div a /\ r = (top + 1) % a
    OBVIOUS
<1>3. top + 1 = d * a + r /\ d \in Int /\ r = 0
    BY <1>1, <1>2, AlignmentAssumption
<1>4. d > 0
    <2>1. CASE d <= 0
        <3>1. d * a <= 0
            BY <1>1, <1>3, <2>1
        <3> QED
            BY <1>1, <1>3, <3>1
    <2> QED
        BY <1>3, <2>1
<1> QED
    BY <1>1, <1>3, <1>4

(* The remainder by a number, of one that is known in parts.               *)
LEMMA PartsUnique ==
    ASSUME NEW m \in Nat, m > 0, NEW q \in Int, NEW r \in 0 .. m - 1
    PROVE  (q * m + r) \div m = q /\ (q * m + r) % m = r
<1>1. PICK d, e : d = (q * m + r) \div m /\ e = (q * m + r) % m
    OBVIOUS
<1>2. d \in Int /\ e \in 0 .. m - 1 /\ q * m + r = d * m + e
    BY <1>1
<1>3. (q - d) * m = e - r /\ q - d \in Int
    <2>1. (q - d) * m = q * m - d * m
        BY <1>2
    <2> QED
        BY <1>2, <2>1
<1>4. PICK x \in Int : x = q - d
    BY <1>3
<1>5. x < 1
    <2>1. CASE x >= 1
        <3>1. x * m >= m
            <4>1. x * m = m + (x - 1) * m /\ (x - 1) * m >= 0
                BY <1>4, <2>1
            <4> QED
                BY <4>1
        <3> QED
            BY <1>2, <1>3, <1>4, <3>1
    <2> QED
        BY <2>1
<1>6. x > -1
    <2>1. CASE x <= -1
        <3>1. x * m <= -m
            <4>1. x * m = (x + 1) * m - m /\ (x + 1) * m <= 0
                BY <1>4, <2>1
            <4> QED
                BY <4>1
        <3> QED
            BY <1>2, <1>3, <1>4, <3>1
    <2> QED
        BY <2>1
<1>7. x = 0
    BY <1>5, <1>6
<1>8. q = d /\ e = r
    BY <1>2, <1>3, <1>4, <1>7
<1> QED
    BY <1>1, <1>8

(* Sizes that a size_t holds do not wrap around.                           *)
LEMMA WrapFacts ==
    /\ \A n \in 0 .. SizeMax : Wrap(n) = n
    /\ Wrap(-1) = SizeMax /\ Wrap(SizeMax + 1) = 0
<1>1. PICK top \in Nat : top = SizeMax
    BY SizeFacts
<1>2. \A n \in 0 .. top : (0 * (top + 1) + n) % (top + 1) = n
    BY <1>1, PartsUnique
<1>3. ((-1) * (top + 1) + top) % (top + 1) = top
    BY <1>1, PartsUnique
<1>4. (1 * (top + 1) + 0) % (top + 1) = 0
    BY <1>1, PartsUnique
<1>5. \A n \in 0 .. top : 0 * (top + 1) + n = n
    BY <1>1
<1>6. (-1) * (top + 1) + top = -1 /\ 1 * (top + 1) + 0 = top + 1
    BY <1>1
<1> QED
    BY <1>1, <1>2, <1>3, <1>4, <1>5, <1>6 DEF Wrap

(* A size is rounded up to the next multiple of the alignment, or down to  *)
(* zero if that is more than a size_t holds.                               *)
LEMMA RoundFacts ==
    ASSUME NEW size \in 0 .. SizeMax
    PROVE  /\ RoundToAlign(size) \in 0 .. SizeMax /\ Aligned(RoundToAlign(size))
           /\ size + (Alignment - 1) <= SizeMax =>
                 /\ RoundToAlign(size) >= size
                 /\ RoundToAlign(size) <= size + (Alignment - 1)
           /\ size = 0 => RoundToAlign(size) = 0
<1>1. PICK a \in Nat, top \in Nat, c \in Nat :
        a = Alignment /\ top = SizeMax /\ a > 1 /\ c > 0 /\ top + 1 = c * a
    BY SizeFacts
<1>2. PICK n \in 0 .. top : n = Wrap(size - 1) /\ (size = 0 => n = top) /\ (size > 0 => n = size - 1)
    <2>1. CASE size = 0
        <3>1. size - 1 = -1 /\ Wrap(-1) = top
            BY <1>1, <2>1, WrapFacts
        <3> QED
            BY <1>1, <2>1, <3>1
    <2>2. CASE size # 0
        <3>1. size - 1 \in 0 .. top /\ Wrap(size - 1) = size - 1
            BY <1>1, <2>2, WrapFacts
        <3> QED
            BY <1>1, <2>2, <3>1
    <2> QED
        BY <2>1, <2>2
<1>3. PICK q, t : q = n \div a /\ t = n % a
    OBVIOUS
<1>4. q \in Int /\ t \in 0 .. a - 1 /\ n = q * a + t
    <2>1. n \in Int
        BY <1>1, <1>2
    <2> QED
        BY <1>1, <1>3, <2>1
<1>5. q >= 0
    <2>1. CASE q <= -1
        <3>1. q * a <= -a
            <4>1. q * a = (q + 1) * a - a /\ (q + 1) * a <= 0
                BY <1>1, <1>4, <2>1
            <4> QED
                BY <1>1, <1>4, <4>1
        <3> QED
            BY <1>1, <1>2, <1>4, <3>1
    <2> QED
        BY <1>4, <2>1
<1>6. PICK u \in Nat : u = (1 + q) * a /\ u = n - t + a
    <2>1. (1 + q) * a = a + q * a
        BY <1>1, <1>4
    <2>2. (1 + q) * a = n - t + a /\ (1 + q) * a \in Int
        BY <1>1, <1>2, <1>4, <2>1
    <2>3. n - t + a >= 0
        BY <1>1, <1>2, <1>4
    <2> QED
        BY <2>2, <2>3
<1>7. u <= top + 1
    <2>1. CASE 1 + q > c
        <3>1. q * a >= c * a
            <4>1. q * a = c * a + (q - c) * a /\ (q - c) * a >= 0
                BY <1>1, <1>4, <2>1
            <4> QED
                BY <1>1, <1>4, <4>1
        <3> QED
            BY <1>1, <1>2, <1>4, <3>1
    <2>2. CASE 1 + q <= c
        <3>1. PICK e \in Nat : e = c - (1 + q)
            BY <1>1, <1>4, <2>2
        <3>2. c = (1 + q) + e /\ e * a >= 0
            BY <1>1, <1>4, <3>1
        <3>3. ((1 + q) + e) * a = (1 + q) * a + e * a
            BY <1>1, <1>4
        <3> QED
            BY <1>1, <1>6, <3>2, <3>3
    <2> QED
        BY <1>1, <1>4, <2>1, <2>2
<1>8. RoundToAlign(size) = Wrap(u)
    BY <1>1, <1>2, <1>3, <1>6 DEF RoundToAlign
<1>9. CASE u = top + 1
    <2>1. RoundToAlign(size) = 0 /\ 0 = 0 * a
        BY <1>1, <1>8, <1>9, WrapFacts
    <2>2. size + (a - 1) <= top => size = 0
        BY <1>1, <1>2, <1>4, <1>6, <1>9
    <2> QED
        BY <1>1, <2>1, <2>2 DEF Aligned
<1>10. CASE u # top + 1
    <2>1. u \in 0 .. top /\ RoundToAlign(size) = u
        BY <1>1, <1>7, <1>8, <1>10, WrapFacts
    <2>2. Aligned(u)
        BY <1>1, <1>4, <1>5, <1>6 DEF Aligned
    <2>3. size # 0
        <3>1. SUFFICES ASSUME size = 0 PROVE FALSE
            OBVIOUS
        <3>2. n = top /\ u = top - t + a
            BY <1>2, <1>6, <3>1
        <3>3. t = a - 1
            <4>1. top = (c - 1) * a + (a - 1) /\ c - 1 \in Int /\ a - 1 \in 0 .. a - 1
                BY <1>1
            <4>2. ((c - 1) * a + (a - 1)) % a = a - 1
                BY <1>1, <4>1, PartsUnique
            <4> QED
                BY <1>3, <3>2, <4>1, <4>2
        <3> QED
            BY <1>1, <1>10, <3>2, <3>3
    <2> QED
        BY <1>1, <1>2, <1>4, <1>6, <2>1, <2>2, <2>3
<1> QED
    BY <1>9, <1>10

(* The requests of a batch, one after the other: what is there after each. *)
AreAllocs(f, s, requests, n) ==
    f = [i \in 0 .. n |->
            IF i = 0 THEN [s |-> s, ok |-> TRUE]
            ELSE [s |-> Alloc(f[i - 1].s, requests[i]).s,
                  ok |-> f[i - 1].ok /\ Alloc(f[i - 1].s, requests[i]).ptr # NoMemory]]

(* One of them, from the one before.                                       *)
AfterAlloc(acc, size) ==
    [s |-> Alloc(acc.s, size).s, ok |-> acc.ok /\ Alloc(acc.s, size).ptr # NoMemory]

(* An object takes up its size, rounded, if there is room for it.          *)
LEMMA AllocFacts ==
    ASSUME NEW s \in Scratches, NEW size \in 0 .. SizeMax
    PROVE  LET a == Alloc(s, size)
           IN  /\ a.s \in Scratches /\ a.s.max_size = s.max_size
               /\ a.s.alloc_size >= s.alloc_size
               /\ a.ptr = NoMemory => a.s = s
               /\ a.ptr # NoMemory =>
                     a.ptr = s.alloc_size /\ s.alloc_size + size <= a.s.alloc_size
               /\ size + (Alignment - 1) <= Left(s) =>
                     a.ptr # NoMemory /\ Left(a.s) >= Left(s) - size - (Alignment - 1)
               /\ size = 0 => a.ptr # NoMemory /\ a.s = s
<1>1. PICK a \in Nat, top \in Nat : a = Alignment /\ top = SizeMax /\ a > 1
    BY SizeFacts
<1>2. PICK m \in 0 .. top, n \in Nat :
        s = [alloc_size |-> n, max_size |-> m] /\ n <= m /\ Aligned(n)
    BY <1>1 DEF Scratches
<1>3. PICK d \in 0 .. top : d = RoundToAlign(size) /\ Aligned(d)
    BY <1>1, RoundFacts
<1>4. Left(s) = m - n
    BY <1>2 DEF Left
<1>5. size + (a - 1) <= top => d >= size /\ d <= size + (a - 1)
    BY <1>1, <1>3, RoundFacts
<1>6. size = 0 => d = 0
    BY <1>3, RoundFacts
<1>7. Aligned(n + d)
    <2>1. PICK q \in Nat, t \in Nat : n = q * a /\ d = t * a
        BY <1>1, <1>2, <1>3 DEF Aligned
    <2>2. n + d = (q + t) * a /\ q + t \in Nat
        BY <1>1, <2>1
    <2> QED
        BY <1>1, <2>2 DEF Aligned
<1>8. CASE d < size \/ d > m - n
    <2>1. Alloc(s, size) = [ptr |-> NoMemory, s |-> s]
        BY <1>3, <1>4, <1>8 DEF Alloc
    <2>2. ~(size + (a - 1) <= m - n) /\ size # 0
        BY <1>1, <1>2, <1>5, <1>6, <1>8
    <2> QED
        BY <1>1, <1>2, <1>4, <2>1, <2>2
<1>9. CASE ~(d < size \/ d > m - n)
    <2>1. Alloc(s, size) = [ptr |-> n, s |-> [alloc_size |-> n + d, max_size |-> m]]
        BY <1>2, <1>3, <1>4, <1>9 DEF Alloc
    <2>2. n # NoMemory
        BY <1>2 DEF NoMemory
    <2>3. [alloc_size |-> n + d, max_size |-> m] \in Scratches
        BY <1>1, <1>2, <1>7, <1>9 DEF Scratches
    <2>4. Left([alloc_size |-> n + d, max_size |-> m]) = m - (n + d)
        BY DEF Left
    <2>5. size + (a - 1) <= m - n => m - (n + d) >= m - n - size - (a - 1)
        BY <1>1, <1>2, <1>5
    <2>6. n + d >= n /\ n + size <= n + d
        BY <1>1, <1>2, <1>9
    <2>7. size = 0 => [alloc_size |-> n + d, max_size |-> m] = s
        BY <1>2, <1>6
    <2> QED
        BY <1>1, <1>2, <1>4, <2>1, <2>2, <2>3, <2>4, <2>5, <2>6, <2>7
<1> QED
    BY <1>8, <1>9

(* What is there after each request exists.                                *)
LEMMA AllocsExist ==
    ASSUME NEW s, NEW requests, NEW l \in Nat
    PROVE  \E f : AreAllocs(f, s, requests, l)
<1> DEFINE T == {m \in Nat : ~ \E f : AreAllocs(f, s, requests, m)}
<1> SUFFICES ASSUME T # {} PROVE FALSE
    OBVIOUS
<1>1. PICK m \in T : \A n \in T : m <= n
    BY NatMinimum
<1>2. CASE m = 0
    <2>1. AreAllocs([i \in 0 .. 0 |-> [s |-> s, ok |-> TRUE]], s, requests, 0)
        BY DEF AreAllocs
    <2> QED
        BY <1>1, <1>2, <2>1
<1>3. CASE m # 0
    <2>1. m - 1 \in Nat /\ m - 1 \notin T
        BY <1>1, <1>3
    <2>2. PICK f : AreAllocs(f, s, requests, m - 1)
        BY <2>1
    <2> DEFINE last == AfterAlloc(f[m - 1], requests[m])
               g == [i \in 0 .. m |-> IF i = m THEN last ELSE f[i]]
    <2>0. \A i \in 0 .. m - 1 :
            f[i] = IF i = 0 THEN [s |-> s, ok |-> TRUE] ELSE AfterAlloc(f[i - 1], requests[i])
        BY <2>2, Zenon DEF AreAllocs, AfterAlloc
    <2>3. \A i \in 0 .. m - 1 : g[i] = f[i]
        BY <1>3, <2>1
    <2>4. g[m] = last
        BY <1>3, <2>1
    <2> HIDE DEF g
    <2>5. \A i \in 0 .. m :
            g[i] = IF i = 0 THEN [s |-> s, ok |-> TRUE] ELSE AfterAlloc(g[i - 1], requests[i])
        <3> TAKE i \in 0 .. m
        <3>1. CASE i = m
            BY <1>3, <2>1, <2>3, <2>4, <3>1
        <3>2. CASE i # m
            <4>1. i \in 0 .. m - 1 /\ (i # 0 => i - 1 \in 0 .. m - 1)
                BY <1>3, <2>1, <3>2
            <4> QED
                BY <2>0, <2>3, <4>1
        <3> QED
            BY <3>1, <3>2
    <2>6. g = [i \in 0 .. m |-> g[i]]
        BY DEF g
    <2>7. AreAllocs(g, s, requests, m)
        BY <2>5, <2>6, Zenon DEF AreAllocs, AfterAlloc
    <2> QED
        BY <1>1, <2>7
<1> QED
    BY <1>2, <1>3

(* The requests of a batch, step by step.                                  *)
AllocSteps(f, s, requests, n) ==
    /\ AllocAll(s, requests) = f[n] /\ f[0] = [s |-> s, ok |-> TRUE]
    /\ \A i \in 1 .. n : f[i] = AfterAlloc(f[i - 1], requests[i])

(* Every batch has such steps.                                             *)
LEMMA AllocAllSteps ==
    ASSUME NEW s, NEW requests, NEW n \in Nat, n = Len(requests)
    PROVE  \E f : AllocSteps(f, s, requests, n)
<1>1. PICK f : f = CHOOSE g : AreAllocs(g, s, requests, n)
    OBVIOUS
<1>2. AreAllocs(f, s, requests, n)
    BY <1>1, AllocsExist
<1>3. AllocAll(s, requests) = f[n]
    BY <1>1 DEF AllocAll, AreAllocs
<1>4. /\ f[0] = [s |-> s, ok |-> TRUE]
      /\ \A i \in 1 .. n : f[i] = AfterAlloc(f[i - 1], requests[i])
    <2>1. \A i \in 0 .. n :
            f[i] = IF i = 0 THEN [s |-> s, ok |-> TRUE] ELSE AfterAlloc(f[i - 1], requests[i])
        BY <1>2, Zenon DEF AreAllocs, AfterAlloc
    <2>2. 0 \in 0 .. n /\ \A i \in 1 .. n : i \in 0 .. n /\ i # 0
        OBVIOUS
    <2> QED
        BY <2>1, <2>2
<1> QED
    BY <1>3, <1>4, Zenon DEF AllocSteps

(* What an object may take up.                                             *)
Need(size) == IF size = 0 THEN 0 ELSE size + (Alignment - 1)

(* Requests that together stay within what is left all succeed.            *)
LEMMA AllocsFit ==
    ASSUME NEW s \in Scratches, NEW requests, NEW n \in Nat, n = Len(requests),
           NEW need \in [0 .. n -> Nat], need[0] <= Left(s),
           \A i \in 1 .. n : requests[i] \in Nat /\ need[i - 1] >= need[i] + Need(requests[i])
    PROVE  AllocAll(s, requests).ok
<1>0. \E f : AllocSteps(f, s, requests, n)
    BY AllocAllSteps
<1>1. PICK f : /\ AllocAll(s, requests) = f[n] /\ f[0] = [s |-> s, ok |-> TRUE]
               /\ \A i \in 1 .. n : f[i] = AfterAlloc(f[i - 1], requests[i])
    BY <1>0, Zenon DEF AllocSteps
<1>2. PICK a \in Nat, top \in Nat : a = Alignment /\ top = SizeMax /\ a > 1
    BY SizeFacts
<1> DEFINE Fine(i) == f[i].s \in Scratches /\ f[i].ok /\ need[i] <= Left(f[i].s)
           T == {i \in 0 .. n : ~Fine(i)}
<1>3. SUFFICES ASSUME T # {} PROVE FALSE
    BY <1>1
<1>4. PICK i \in T : \A j \in T : i <= j
    <2>1. T \subseteq Nat
        OBVIOUS
    <2> QED
        BY <1>3, <2>1, NatMinimum
<1>5. i # 0
    BY <1>1, <1>4
<1>6. i \in 1 .. n /\ i - 1 \in 0 .. n /\ Fine(i - 1)
    <2>1. i \in 1 .. n /\ i - 1 \in 0 .. n /\ ~(i <= i - 1)
        BY <1>4, <1>5
    <2> QED
        BY <1>4, <2>1
<1>7. PICK p \in Scratches, size \in Nat : p = f[i - 1].s /\ size = requests[i]
    BY <1>6
<1>8. PICK left \in Nat, m \in 0 .. top : left = Left(p) /\ left <= m
    <2>1. PICK m \in 0 .. top, k \in Nat : p.max_size = m /\ p.alloc_size = k /\ k <= m
        BY <1>2 DEF Scratches
    <2>2. m - k \in Nat /\ m - k <= m /\ Left(p) = m - k
        BY <1>2, <2>1 DEF Left
    <2> QED
        BY <2>2
<1>9. need[i] \in Nat /\ need[i - 1] \in Nat /\ need[i - 1] >= need[i] + Need(size) /\ need[i - 1] <= left
    BY <1>6, <1>7, <1>8
<1>10. size \in 0 .. top
    BY <1>2, <1>8, <1>9 DEF Need
<1>11. Alloc(p, size).ptr # NoMemory /\ Alloc(p, size).s \in Scratches
       /\ need[i] <= Left(Alloc(p, size).s)
    <2>1. CASE size = 0
        <3>1. Alloc(p, size).ptr # NoMemory /\ Alloc(p, size).s = p
            BY <1>2, <1>10, <2>1, AllocFacts
        <3> QED
            BY <1>8, <1>9, <2>1, <3>1 DEF Need
    <2>2. CASE size # 0
        <3>1. size + (a - 1) <= left
            BY <1>2, <1>8, <1>9, <2>2 DEF Need
        <3>2. /\ Alloc(p, size).ptr # NoMemory /\ Alloc(p, size).s \in Scratches
              /\ Left(Alloc(p, size).s) >= left - size - (a - 1)
            BY <1>2, <1>8, <1>10, <3>1, AllocFacts
        <3>3. PICK then \in Int : then = Left(Alloc(p, size).s) /\ then >= left - size - (a - 1)
            <4>1. Left(Alloc(p, size).s) \in Int
                BY <3>2 DEF Scratches, Left
            <4> QED
                BY <3>2, <4>1, Zenon
        <3>4. PICK x \in Nat, y \in Nat :
                x = need[i] /\ y = need[i - 1] /\ y >= x + size + (a - 1) /\ y <= left
            <4>1. Need(size) = size + (a - 1)
                BY <1>2, <2>2 DEF Need
            <4>2. need[i - 1] >= need[i] + size + (a - 1)
                BY <1>2, <1>9, <4>1
            <4> QED
                BY <1>9, <4>2, Zenon
        <3>5. x <= then
            BY <1>2, <3>3, <3>4
        <3> QED
            BY <3>2, <3>3, <3>4, <3>5, Zenon
    <2> QED
        BY <2>1, <2>2
<1>12. Fine(i)
    <2>1. f[i] = AfterAlloc(f[i - 1], requests[i])
        BY <1>1, <1>6
    <2>2. f[i].s = Alloc(p, size).s
        BY <1>7, <2>1 DEF AfterAlloc
    <2>3. f[i].ok = (f[i - 1].ok /\ Alloc(p, size).ptr # NoMemory)
        BY <1>7, <2>1 DEF AfterAlloc
    <2> QED
        BY <1>6, <1>11, <2>2, <2>3
<1> QED
    BY <1>4, <1>12

(* What is said to fit fits with the padding of so many objects.           *)
LEMMA MaxAllocationFacts ==
    ASSUME NEW s \in Scratches, NEW k \in Nat
    PROVE  /\ Left(s) \in 0 .. SizeMax /\ MaxAllocation(s, k) \in Nat
           /\ MaxAllocation(s, k) # 0 =>
                 MaxAllocation(s, k) + k * (Alignment - 1) <= Left(s)
<1>1. PICK a \in Nat, top \in Nat : a = Alignment /\ top = SizeMax /\ a > 1
    BY SizeFacts
<1>2. PICK left \in 0 .. top : left = Left(s)
    <2>1. PICK m \in 0 .. top, n \in Nat : s.max_size = m /\ s.alloc_size = n /\ n <= m
        BY <1>1 DEF Scratches
    <2>2. m - n \in 0 .. top /\ Left(s) = m - n
        BY <1>1, <2>1 DEF Left
    <2> QED
        BY <2>2
<1>3. PICK b \in Nat : b = a - 1 /\ b > 0
    BY <1>1
<1>4. CASE k > top \div b
    BY <1>1, <1>2, <1>3, <1>4 DEF MaxAllocation
<1>5. CASE ~(k > top \div b)
    <2>1. PICK d, r : d = top \div b /\ r = top % b
        OBVIOUS
    <2>2. d \in Int /\ r \in 0 .. b - 1 /\ top = d * b + r
        BY <1>1, <1>3, <2>1
    <2>3. PICK e \in Nat : e = d - k
        <3>1. ~(k > d)
            BY <1>5, <2>1, Zenon
        <3> QED
            BY <2>2, <3>1
    <2>4. d * b = k * b + e * b /\ e * b >= 0 /\ k * b \in Nat
        <3>1. d = k + e
            BY <2>2, <2>3
        <3> QED
            BY <1>3, <2>2, <2>3, <3>1
    <2>5. PICK pad \in 0 .. top : pad = k * b
        BY <1>1, <2>2, <2>4
    <2>6. Wrap(k * b) = pad
        BY <1>1, <2>5, WrapFacts
    <2>7. MaxAllocation(s, k) = IF left <= pad THEN 0 ELSE left - pad
        BY <1>1, <1>2, <1>3, <1>5, <2>6 DEF MaxAllocation
    <2> QED
        BY <1>1, <1>2, <1>3, <2>5, <2>7
<1> QED
    BY <1>4, <1>5

(* Objects of any sizes that together stay within what is said to fit can  *)
(* all be allocated; sum[i] are the sizes of those after the first i.      *)
LEMMA GrantFits ==
    ASSUME NEW s \in Scratches, NEW requests, NEW n \in Nat, n = Len(requests),
           NEW sum \in [0 .. n -> Nat], sum[0] <= MaxAllocation(s, n),
           \A i \in 1 .. n : requests[i] \in Nat /\ sum[i - 1] = sum[i] + requests[i]
    PROVE  AllocAll(s, requests).ok
<1>1. PICK a \in Nat, top \in Nat : a = Alignment /\ top = SizeMax /\ a > 1
    BY SizeFacts
<1>2. PICK b \in Nat : b = a - 1
    BY <1>1
<1> DEFINE need == [i \in 0 .. n |-> IF sum[i] = 0 THEN 0 ELSE sum[i] + (n - i) * b]
<1>3. need \in [0 .. n -> Nat]
    <2>1. ASSUME NEW i \in 0 .. n
          PROVE  sum[i] + (n - i) * b \in Nat
        <3>1. n - i \in Nat /\ sum[i] \in Nat
            OBVIOUS
        <3>2. (n - i) * b \in Nat
            BY <3>1
        <3> QED
            BY <3>1, <3>2
    <2> QED
        BY <2>1
<1>4. need[0] <= Left(s)
    <2>1. PICK left \in Nat, most \in Nat :
            /\ left = Left(s) /\ most = MaxAllocation(s, n)
            /\ most # 0 => most + n * b <= left
        <3>1. /\ Left(s) \in 0 .. top /\ MaxAllocation(s, n) \in Nat
              /\ MaxAllocation(s, n) # 0 => MaxAllocation(s, n) + n * b <= Left(s)
            BY <1>1, <1>2, MaxAllocationFacts
        <3>2. Left(s) \in Nat
            BY <1>1, <3>1
        <3> QED
            BY <3>1, <3>2, Zenon
    <2>2. need[0] = IF sum[0] = 0 THEN 0 ELSE sum[0] + n * b
        BY <1>2
    <2>3. n * b \in Nat /\ sum[0] \in Nat
        BY <1>2
    <2> QED
        BY <2>1, <2>2, <2>3
<1>5. ASSUME NEW i \in 1 .. n
      PROVE  requests[i] \in Nat /\ need[i - 1] >= need[i] + Need(requests[i])
    <2>1. PICK x \in Nat, y \in Nat, z \in Nat :
            x = sum[i] /\ y = sum[i - 1] /\ z = requests[i] /\ y = x + z
        <3>1. i \in 0 .. n /\ i - 1 \in 0 .. n
            OBVIOUS
        <3> QED
            BY <3>1
    <2>2. PICK k \in Nat : k = (n - i) * b /\ (n - (i - 1)) * b = k + b
        <3>0. n - i \in Nat /\ n - (i - 1) = (n - i) + 1
            OBVIOUS
        <3>1. PICK e \in Nat : e = n - i /\ n - (i - 1) = e + 1
            BY <3>0, Zenon
        <3>2. (e + 1) * b = e * b + b /\ e * b \in Nat
            BY <1>2
        <3> QED
            BY <3>1, <3>2
    <2>3. need[i] = IF x = 0 THEN 0 ELSE x + k
        BY <2>1, <2>2
    <2>4. need[i - 1] = IF y = 0 THEN 0 ELSE y + (k + b)
        <3>1. i - 1 \in 0 .. n
            OBVIOUS
        <3> QED
            BY <2>1, <2>2, <3>1
    <2>5. Need(requests[i]) = IF z = 0 THEN 0 ELSE z + b
        BY <1>1, <1>2, <2>1 DEF Need
    <2> HIDE DEF need
    <2>6. CASE y = 0
        BY <1>2, <2>1, <2>2, <2>3, <2>4, <2>5, <2>6
    <2>7. CASE y # 0
        <3>1. PICK p \in Nat : p = need[i] /\ p <= x + k
            BY <2>1, <2>2, <2>3
        <3>2. PICK q \in Nat : q = Need(requests[i]) /\ q <= z + b
            BY <1>2, <2>1, <2>5
        <3>3. need[i - 1] = y + (k + b)
            BY <2>4, <2>7
        <3>4. y + (k + b) >= p + q
            <4>1. y = x + z /\ p <= x + k /\ q <= z + b
                BY <2>1, <3>1, <3>2, Zenon
            <4> QED
                BY <4>1
        <3> QED
            BY <2>1, <3>1, <3>2, <3>3, <3>4
    <2> QED
        BY <2>6, <2>7
<1> HIDE DEF need
<1> QED
    BY <1>3, <1>4, <1>5, AllocsFit

(* Allocations leave a space that can go back to where it was.             *)
LEMMA AllocsKeep ==
    ASSUME NEW s \in Scratches, NEW requests, NEW n \in Nat, n = Len(requests),
           \A i \in 1 .. n : requests[i] \in 0 .. SizeMax
    PROVE  ApplyCheckpoint(AllocAll(s, requests).s, Checkpoint(s)) = s
<1>0. \E f : AllocSteps(f, s, requests, n)
    BY AllocAllSteps
<1>1. PICK f : /\ AllocAll(s, requests) = f[n] /\ f[0] = [s |-> s, ok |-> TRUE]
               /\ \A i \in 1 .. n : f[i] = AfterAlloc(f[i - 1], requests[i])
    BY <1>0, Zenon DEF AllocSteps
<1> DEFINE Fine(i) == /\ f[i].s \in Scratches /\ f[i].s.max_size = s.max_size
                      /\ f[i].s.alloc_size >= s.alloc_size
           T == {i \in 0 .. n : ~Fine(i)}
<1>2. T = {}
    <2>1. SUFFICES ASSUME T # {} PROVE FALSE
        OBVIOUS
    <2>2. PICK i \in T : \A j \in T : i <= j
        <3>1. T \subseteq Nat
            OBVIOUS
        <3> QED
            BY <2>1, <3>1, NatMinimum
    <2>3. s.alloc_size \in Nat
        BY DEF Scratches
    <2>4. i # 0
        BY <1>1, <2>2, <2>3
    <2>5. i \in 1 .. n /\ Fine(i - 1)
        <3>1. i \in 1 .. n /\ i - 1 \in 0 .. n /\ ~(i <= i - 1)
            BY <2>2, <2>4
        <3> QED
            BY <2>2, <3>1
    <2>6. PICK p \in Scratches, size \in 0 .. SizeMax : p = f[i - 1].s /\ size = requests[i]
        BY <2>5
    <2>7. f[i].s = Alloc(p, size).s
        <3>1. f[i] = AfterAlloc(f[i - 1], requests[i])
            BY <1>1, <2>5
        <3> QED
            BY <2>6, <3>1 DEF AfterAlloc
    <2>8. /\ Alloc(p, size).s \in Scratches /\ Alloc(p, size).s.max_size = p.max_size
          /\ Alloc(p, size).s.alloc_size >= p.alloc_size
        BY <2>6, AllocFacts
    <2>9. p.alloc_size \in Nat /\ Alloc(p, size).s.alloc_size \in Nat
        BY <2>8 DEF Scratches
    <2>10. Fine(i)
        BY <2>3, <2>5, <2>6, <2>7, <2>8, <2>9
    <2> QED
        BY <2>2, <2>10
<1>3. Fine(n)
    BY <1>2
<1>4. PICK p \in Scratches : p = AllocAll(s, requests).s /\ p.max_size = s.max_size /\ p.alloc_size >= s.alloc_size
    BY <1>1, <1>3
<1>5. [p EXCEPT !.alloc_size = s.alloc_size] = s
    BY <1>4 DEF Scratches
<1>6. s.alloc_size > p.alloc_size => p = s
    BY <1>4 DEF Scratches
<1> QED
    BY <1>4, <1>5, <1>6 DEF ApplyCheckpoint, Checkpoint

(* The smaller and the larger of two.                                      *)
LEMMA MinOfTwo ==
    ASSUME NEW x \in Int, NEW y \in Int
    PROVE  Min({x, y}) = IF x <= y THEN x ELSE y
<1>1. \E m \in {x, y} : \A e \in {x, y} : m <= e
    OBVIOUS
<1>2. Min({x, y}) \in {x, y} /\ \A e \in {x, y} : Min({x, y}) <= e
    BY <1>1 DEF Min
<1> QED
    BY <1>2

(* Likewise.                                                               *)
LEMMA MaxOfTwo ==
    ASSUME NEW x \in Int, NEW y \in Int
    PROVE  Max({x, y}) = IF x >= y THEN x ELSE y
<1>1. \E m \in {x, y} : \A e \in {x, y} : m >= e
    OBVIOUS
<1>2. Max({x, y}) \in {x, y} /\ \A e \in {x, y} : Max({x, y}) >= e
    BY <1>1 DEF Max
<1> QED
    BY <1>2

(* A quotient, multiplied again, is at most the dividend.                  *)
LEMMA QuotientFits ==
    ASSUME NEW x \in Nat, NEW y \in Nat, y > 0
    PROVE  x \div y \in Nat /\ \A n \in 0 .. x \div y : n * y <= x
<1>1. PICK d, r : d = x \div y /\ r = x % y
    OBVIOUS
<1>2. d \in Int /\ r \in 0 .. y - 1 /\ x = d * y + r
    BY <1>1
<1>3. d >= 0
    <2>1. CASE d <= -1
        <3>1. d * y = (d + 1) * y - y /\ (d + 1) * y <= 0
            BY <1>2, <2>1
        <3> QED
            BY <1>2, <3>1
    <2> QED
        BY <1>2, <2>1
<1>4. ASSUME NEW n \in 0 .. d
      PROVE  n * y <= x
    <2>1. PICK e \in Nat : e = d - n /\ d = n + e
        <3>1. d - n \in Nat /\ d = n + (d - n)
            BY <1>2
        <3> QED
            BY <3>1, Zenon
    <2>2. (n + e) * y = n * y + e * y /\ e * y \in Nat /\ n * y \in Nat
        BY <1>2
    <2>3. d * y = n * y + e * y
        BY <2>1, <2>2
    <2> QED
        BY <1>2, <2>2, <2>3
<1> QED
    BY <1>1, <1>2, <1>3, <1>4

(* A quotient that is rounded up.                                          *)
LEMMA CeilFacts ==
    ASSUME NEW x \in Nat, NEW y \in Nat, x > 0, y > 0
    PROVE  /\ CeilOf(x, y) \in Nat /\ CeilOf(x, y) > 0
           /\ (CeilOf(x, y) - 1) * y < x /\ x <= CeilOf(x, y) * y
<1>1. PICK d, r : d = (x - 1) \div y /\ r = (x - 1) % y
    OBVIOUS
<1>2. d \in Int /\ r \in 0 .. y - 1 /\ x - 1 = d * y + r
    BY <1>1
<1>3. d \in Nat
    BY <1>1, <1>2, QuotientFits
<1>4. (d + 1) * y = d * y + y /\ d * y \in Nat
    BY <1>2, <1>3
<1>5. CeilOf(x, y) = d + 1
    BY <1>1, <1>3 DEF CeilOf
<1> QED
    BY <1>2, <1>3, <1>4, <1>5

(* Batches of even size are not larger than what fits, no batch before the *)
(* last takes all the points, and all of them together do.                 *)
LEMMA BatchFacts ==
    ASSUME NEW most \in Nat, NEW n \in Nat, n > 0
    PROVE  LET b == BatchSizes(most, n)
           IN  /\ b.ok = (most # 0)
               /\ b.ok => /\ b.batches \in Nat /\ b.batches > 0 /\ b.points \in 1 .. most
                          /\ b.points * (b.batches - 1) < n
                          /\ n <= b.points * b.batches
<1>1. CASE most = 0
    BY <1>1 DEF BatchSizes
<1>2. CASE most # 0
    <2>1. PICK c \in 1 .. most : c = Min({most, MaxPointsPerBatch})
        <3>1. MaxPointsPerBatch \in Nat \ {0}
            BY SizesAssumption
        <3>2. Min({most, MaxPointsPerBatch}) \in 1 .. most
            BY <1>2, <3>1, MinOfTwo
        <3> QED
            BY <3>2
    <2>2. PICK b \in Nat : b = CeilOf(n, c) /\ b > 0 /\ (b - 1) * c < n /\ n <= b * c
        <3>1. c \in Nat /\ c > 0
            BY <2>1
        <3>2. CeilOf(n, c) \in Nat /\ CeilOf(n, c) > 0 /\ (CeilOf(n, c) - 1) * c < n
                /\ n <= CeilOf(n, c) * c
            BY <3>1, CeilFacts
        <3> QED
            BY <3>2, Zenon
    <2>3. PICK p \in Nat : p = CeilOf(n, b) /\ p > 0 /\ (p - 1) * b < n /\ n <= p * b
        BY <2>2, CeilFacts
    <2>4. BatchSizes(most, n) = [ok |-> TRUE, batches |-> b, points |-> p]
        BY <1>2, <2>1, <2>2, <2>3 DEF BatchSizes, EvenSize
    <2>5. p <= c
        <3>1. SUFFICES ASSUME p > c PROVE FALSE
            BY <2>1
        <3>2. PICK e \in Nat : e = p - 1 - c /\ p - 1 = c + e
            <4>1. p - 1 - c \in Nat /\ p - 1 = c + (p - 1 - c)
                BY <2>1, <3>1
            <4> QED
                BY <4>1, Zenon
        <3>3. (c + e) * b = b * c + e * b /\ e * b \in Nat /\ b * c \in Nat
            BY <2>1, <2>2
        <3>4. (p - 1) * b = b * c + e * b
            BY <3>2, <3>3
        <3>5. b * c + e * b < n /\ n <= b * c
            BY <2>2, <2>3, <3>4
        <3> QED
            BY <3>3, <3>5
    <2>6. p * (b - 1) < n
        <3>1. PICK e \in Nat : e = c - p /\ c = p + e
            <4>1. c - p \in Nat /\ c = p + (c - p)
                BY <2>1, <2>5
            <4> QED
                BY <4>1, Zenon
        <3>2. PICK d \in Nat : d = b - 1
            BY <2>2
        <3>3. d * (p + e) = p * d + d * e /\ d * e \in Nat /\ p * d \in Nat
            OBVIOUS
        <3>4. d * c = p * d + d * e
            BY <3>1, <3>3
        <3>5. d * c < n
            BY <2>2, <3>2
        <3>6. p * d < n
            BY <3>3, <3>4, <3>5
        <3> QED
            BY <3>2, <3>6
    <2>7. p \in 1 .. most
        BY <2>1, <2>3, <2>5
    <2>8. n <= p * b
        BY <2>3
    <2>9. PICK r : r = BatchSizes(most, n)
        OBVIOUS
    <2>10. r.ok = TRUE /\ r.batches = b /\ r.points = p
        BY <2>4, <2>9
    <2>11. /\ r.ok = (most # 0) /\ r.batches \in Nat /\ r.batches > 0 /\ r.points \in 1 .. most
           /\ r.points * (r.batches - 1) < n /\ n <= r.points * r.batches
        BY <1>2, <2>2, <2>6, <2>7, <2>8, <2>10, Zenon
    <2> QED
        BY <2>9, <2>11, Zenon
<1> QED
    BY <1>1, <1>2

(* Batches of points after each other.                                     *)
Follow(plan, n, count, points) ==
    /\ \A i \in 1 .. count :
          /\ Batch(plan, n, i).size \in 1 .. points
          /\ Batch(plan, n, i).offset =
                IF i = 1 THEN 0 ELSE Batch(plan, n, i - 1).offset + Batch(plan, n, i - 1).size
    /\ Batch(plan, n, count).offset + Batch(plan, n, count).size = n

PlanDivides(plan, n, count, points) ==
    /\ plan.points = points /\ plan.batches = count /\ points > 0 /\ count > 0
    /\ points * (count - 1) < n /\ n <= points * count

(* Such batches begin where the one before ends.                           *)
LEMMA BatchesFollow ==
    ASSUME NEW n \in Nat, NEW count \in Nat, NEW points \in Nat, NEW plan,
           PlanDivides(plan, n, count, points)
    PROVE  Follow(plan, n, count, points)
<1>0. /\ plan.points = points /\ plan.batches = count /\ points > 0 /\ count > 0
      /\ points * (count - 1) < n /\ n <= points * count
    BY DEF PlanDivides
<1>1. ASSUME NEW i \in 1 .. count
      PROVE  /\ points * (i - 1) \in Nat /\ points * (i - 1) < n
             /\ Batch(plan, n, i).offset = points * (i - 1)
             /\ i < count => Batch(plan, n, i).size = points
             /\ i = count => Batch(plan, n, i).size = n - points * (i - 1)
    <2>1. PICK k \in Nat, e \in Nat : k = i - 1 /\ e = count - i /\ count - 1 = k + e
        <3>1. i - 1 \in Nat /\ count - i \in Nat /\ count - 1 = (i - 1) + (count - i)
            OBVIOUS
        <3> QED
            BY <3>1, Zenon
    <2>2. points * (k + e) = points * k + points * e /\ points * k \in Nat /\ points * e \in Nat
        OBVIOUS
    <2>3. PICK o \in Nat, x \in Nat :
            o = points * k /\ x = points * e /\ o + x < n /\ (e >= 1 => x >= points)
        <3>1. points * k + points * e < n
            BY <1>0, <2>1, <2>2
        <3>2. e >= 1 => points * e >= points
            <4>1. points * e = points + points * (e - 1)
                OBVIOUS
            <4>2. e >= 1 => points * (e - 1) >= 0
                OBVIOUS
            <4>3. points * e \in Nat /\ points * (e - 1) \in Int
                OBVIOUS
            <4> QED
                BY <4>1, <4>2, <4>3
        <3> QED
            BY <2>2, <3>1, <3>2, Zenon
    <2>4. Batch(plan, n, i) = [offset |-> o, size |-> IF n - o <= points THEN n - o ELSE points]
        <3>1. Min({n - o, points}) = IF n - o <= points THEN n - o ELSE points
            BY MinOfTwo
        <3> QED
            BY <1>0, <2>1, <2>3, <3>1 DEF Batch
    <2>5. points * (i - 1) = o
        BY <2>1, <2>3
    <2>6. i < count => n - o > points
        <3>1. i < count => e >= 1
            BY <2>1
        <3> QED
            BY <2>3, <3>1
    <2>7. i = count => n - o <= points
        <3>1. SUFFICES ASSUME i = count PROVE n - o <= points
            OBVIOUS
        <3>2. points * count = points * k + points
            <4>1. count = k + 1 /\ points * (k + 1) = points * k + points
                BY <2>1, <3>1
            <4> QED
                BY <4>1
        <3>3. n <= o + points
            BY <1>0, <2>3, <3>2
        <3> QED
            BY <3>3
    <2>8. o < n
        BY <2>3
    <2> QED
        BY <2>4, <2>5, <2>6, <2>7, <2>8
<1>2. ASSUME NEW i \in 1 .. count
      PROVE  Batch(plan, n, i).size \in 1 .. points
    <2>1. CASE i < count
        BY <1>0, <1>1, <2>1
    <2>2. CASE i = count
        <3>1. PICK o \in Nat : o = points * (count - 1) /\ o < n
            BY <1>0, <1>1, <2>2
        <3>2. o + points = points * count
            BY <3>1
        <3>3. n - o \in 1 .. points
            BY <1>0, <3>1, <3>2
        <3> QED
            BY <1>1, <2>2, <3>1, <3>3
    <2> QED
        BY <2>1, <2>2
<1>3. ASSUME NEW i \in 1 .. count
      PROVE  Batch(plan, n, i).offset =
                IF i = 1 THEN 0 ELSE Batch(plan, n, i - 1).offset + Batch(plan, n, i - 1).size
    <2>1. CASE i = 1
        <3>1. Batch(plan, n, i).offset = points * (1 - 1) /\ points * (1 - 1) = 0
            BY <1>1, <2>1
        <3> QED
            BY <2>1, <3>1
    <2>2. CASE i # 1
        <3>1. PICK j \in 1 .. count : j = i - 1 /\ j < count
            <4>1. i - 1 \in 1 .. count /\ i - 1 < count
                BY <2>2
            <4> QED
                BY <4>1, Zenon
        <3>2. Batch(plan, n, j).offset = points * (j - 1) /\ Batch(plan, n, j).size = points
            BY <1>1, <3>1
        <3>3. points * (i - 1) = points * (j - 1) + points
            BY <3>1
        <3>4. Batch(plan, n, i).offset = points * (i - 1)
            BY <1>1
        <3>5. Batch(plan, n, j) = Batch(plan, n, i - 1)
            BY <3>1
        <3> QED
            BY <2>2, <3>2, <3>3, <3>4, <3>5
    <2> QED
        BY <2>1, <2>2
<1>4. Batch(plan, n, count).offset + Batch(plan, n, count).size = n
    <2>1. PICK o \in Nat : o = points * (count - 1) /\ Batch(plan, n, count).offset = o
            /\ Batch(plan, n, count).size = n - o
        BY <1>0, <1>1
    <2> QED
        BY <2>1
<1> QED
    BY <1>2, <1>3, <1>4 DEF Follow

(* What the windows need are numbers.                                      *)
LEMMA WindowFacts ==
    ASSUME NEW w \in 1 .. MaxBucketWindow
    PROVE  /\ 2 ^ w \in Nat /\ WnafWords(w + 1) \in Nat
           /\ EntrySize(w) \in Nat /\ EntrySize(w) > 0 /\ Overhead(w) \in Nat
<1>1. 2 ^ w \in Nat
    <2>1. w \in 1 .. 12
        BY DEF MaxBucketWindow
    <2>2. CASE w = 1 BY <2>2
    <2>3. CASE w = 2 BY <2>3
    <2>4. CASE w = 3 BY <2>4
    <2>5. CASE w = 4 BY <2>5
    <2>6. CASE w = 5 BY <2>6
    <2>7. CASE w = 6 BY <2>7
    <2>8. CASE w = 7 BY <2>8
    <2>9. CASE w = 8 BY <2>9
    <2>10. CASE w = 9 BY <2>10
    <2>11. CASE w = 10 BY <2>11
    <2>12. CASE w = 11 BY <2>12
    <2>13. CASE w = 12 BY <2>13
    <2> QED
        BY <2>1, <2>2, <2>3, <2>4, <2>5, <2>6, <2>7, <2>8, <2>9, <2>10, <2>11, <2>12, <2>13
<1>2. WnafWords(w + 1) \in Nat
    <2>1. w + 1 \in Nat /\ w + 1 > 0 /\ WnafBits \in Nat /\ WnafBits > 0
        BY SizesAssumption DEF MaxBucketWindow
    <2> QED
        BY <2>1, CeilFacts DEF WnafWords
<1>3. PICK p \in Nat, k \in Nat : p = 2 ^ w /\ k = WnafWords(w + 1)
    BY <1>1, <1>2
<1>4. PICK ge \in Nat, sc \in Nat, pp \in Nat, int \in Nat, gej \in Nat, ps \in Nat :
        /\ ge = GeSize /\ sc = ScalarSize /\ pp = PippengerPointSize /\ int = IntSize
        /\ gej = GejSize /\ ps = PippengerStateSize /\ ge > 0
    <2>1. /\ GeSize \in Nat /\ ScalarSize \in Nat /\ PippengerPointSize \in Nat /\ IntSize \in Nat
          /\ GejSize \in Nat /\ PippengerStateSize \in Nat /\ GeSize > 0
        BY SizesAssumption
    <2> QED
        BY <2>1, Zenon
<1>5. (k + 1) * int \in Nat /\ p * gej \in Nat
    OBVIOUS
<1>6. EntrySize(w) = ge + sc + pp + (k + 1) * int
    BY <1>3, <1>4 DEF EntrySize
<1>7. EntrySize(w) \in Nat /\ EntrySize(w) > 0
    BY <1>4, <1>5, <1>6
<1>8. Overhead(w) = p * gej + 2 * EntrySize(w) + ps
    BY <1>3, <1>4 DEF Overhead
<1> QED
    BY <1>1, <1>2, <1>5, <1>7, <1>8

(* Up to how many points a window is best is a number.                     *)
LEMMA BestFacts == DOMAIN BestUpTo = 1 .. 11 /\ \A v \in 1 .. 11 : BestUpTo[v] \in Nat
<1>1. DOMAIN BestUpTo = 1 .. 11
    BY DEF BestUpTo
<1>2. ASSUME NEW v \in 1 .. 11 PROVE BestUpTo[v] \in Nat
    <2>2. CASE v = 1 BY <2>2 DEF BestUpTo
    <2>3. CASE v = 2 BY <2>3 DEF BestUpTo
    <2>4. CASE v = 3 BY <2>4 DEF BestUpTo
    <2>5. CASE v = 4 BY <2>5 DEF BestUpTo
    <2>6. CASE v = 5 BY <2>6 DEF BestUpTo
    <2>7. CASE v = 6 BY <2>7 DEF BestUpTo
    <2>8. CASE v = 7 BY <2>8 DEF BestUpTo
    <2>9. CASE v = 8 BY <2>9 DEF BestUpTo
    <2>10. CASE v = 9 BY <2>10 DEF BestUpTo
    <2>11. CASE v = 10 BY <2>11 DEF BestUpTo
    <2>12. CASE v = 11 BY <2>12 DEF BestUpTo
    <2> QED
        BY <2>2, <2>3, <2>4, <2>5, <2>6, <2>7, <2>8, <2>9, <2>10, <2>11, <2>12
<1> QED
    BY <1>1, <1>2

(* The window of so many points is the first that is best for as many.     *)
LEMMA BucketWindowFacts ==
    ASSUME NEW n \in Nat, NEW w \in 1 .. MaxBucketWindow, w < 12 => n <= BestUpTo[w],
           \A v \in 1 .. w - 1 : n > BestUpTo[v]
    PROVE  BucketWindow(n) = w
<1> DEFINE enough == {v \in DOMAIN BestUpTo : n <= BestUpTo[v]}
<1>1. w \in 1 .. 12 /\ MaxBucketWindow = 12
    BY DEF MaxBucketWindow
<1>2. \A v \in enough : v \in 1 .. 11 /\ v >= w
    <2>1. ASSUME NEW v \in 1 .. 11, n <= BestUpTo[v], v < w PROVE FALSE
        <3>1. v \in 1 .. w - 1 /\ BestUpTo[v] \in Nat
            BY <1>1, <2>1, BestFacts
        <3> QED
            BY <2>1, <3>1
    <2> QED
        BY <1>1, <2>1, BestFacts
<1>3. BucketWindow(n) = IF enough = {} THEN MaxBucketWindow ELSE Min(enough)
    BY DEF BucketWindow
<1>4. CASE w = 12
    <2>1. enough = {}
        BY <1>2, <1>4
    <2> QED
        BY <1>1, <1>3, <1>4, <2>1
<1>5. CASE w # 12
    <2>1. w \in enough
        BY <1>1, <1>5, BestFacts
    <2>2. \A v \in enough : w <= v
        BY <1>1, <1>2
    <2> HIDE DEF enough
    <2>3. Min(enough) \in enough /\ \A v \in enough : Min(enough) <= v
        BY <2>1, <2>2 DEF Min
    <2>4. Min(enough) = w
        <3>1. PICK m \in enough : m = Min(enough)
            BY <2>3
        <3>2. m \in 1 .. 11 /\ m >= w
            BY <1>2
        <3>3. m <= w
            BY <2>1, <2>3, <3>1
        <3> QED
            BY <1>1, <3>1, <3>2, <3>3
    <2> QED
        BY <1>3, <2>1, <2>4
<1> QED
    BY <1>4, <1>5

(* So many points fit, with the window that is best for them; and after    *)
(* windows up to w those that are said to fit do, all that an earlier      *)
(* window is best for among them.                                          *)
Fits(room, n) ==
    \E v \in 1 .. MaxBucketWindow :
        v = BucketWindow(n) /\ Overhead(v) + n * (2 * EntrySize(v)) <= room

Tried(room, acc, w) ==
    /\ \E res \in Nat, done \in BOOLEAN : acc = [res |-> res, done |-> done]
    /\ \A n \in 1 .. acc.res : Fits(room, n)
    /\ ~acc.done /\ w < MaxBucketWindow => \A v \in 1 .. w : BestUpTo[v] <= acc.res

(* Trying one more window keeps this.                                      *)
LEMMA TryWindowFacts ==
    ASSUME NEW room \in Nat, NEW w \in 1 .. MaxBucketWindow, NEW acc, Tried(room, acc, w - 1)
    PROVE  Tried(room, TryWindow(room, acc, w), w)
<1>1. w \in 1 .. 12 /\ MaxBucketWindow = 12
    BY DEF MaxBucketWindow
<1>2. PICK res \in Nat, done \in BOOLEAN : acc = [res |-> res, done |-> done]
    BY DEF Tried
<1>3. PICK over \in Nat, pair \in Nat : over = Overhead(w) /\ pair = 2 * EntrySize(w) /\ pair > 0
    BY WindowFacts
<1>4. CASE done
    <2>1. TryWindow(room, acc, w) = acc
        BY <1>2, <1>4 DEF TryWindow
    <2> QED
        BY <1>2, <1>4, <2>1 DEF Tried
<1>5. CASE ~done /\ over > room
    <2>1. TryWindow(room, acc, w) = [res |-> res, done |-> TRUE]
        BY <1>2, <1>3, <1>5 DEF TryWindow
    <2>2. PICK t : t = TryWindow(room, acc, w) /\ t = [res |-> res, done |-> TRUE]
        BY <2>1
    <2>3. t.res = res /\ t.done /\ acc.res = res
        BY <1>2, <2>2
    <2>4. \E x \in Nat, y \in BOOLEAN : t = [res |-> x, done |-> y]
        BY <2>2
    <2>5. \A n \in 1 .. t.res : Fits(room, n)
        BY <2>3, Zenon DEF Tried
    <2>6. Tried(room, t, w)
        BY <2>3, <2>4, <2>5, Zenon DEF Tried
    <2> QED
        BY <2>2, <2>6
<1>6. CASE ~done /\ ~(over > room)
    <2>1. PICK most \in Nat : most = BucketWindowInv(w) /\ (w < 12 => most = BestUpTo[w])
        <3>1. w = 12 => BucketWindowInv(w) = SizeMax
            BY <1>1 DEF BucketWindowInv
        <3>2. w # 12 => BucketWindowInv(w) = BestUpTo[w] /\ BestUpTo[w] \in Nat
            BY <1>1, BestFacts DEF BucketWindowInv
        <3>3. SizeMax \in Nat
            BY SizeFacts
        <3> QED
            BY <1>1, <3>1, <3>2, <3>3
    <2>2. PICK fit \in Nat : fit = (room - over) \div pair /\ \A n \in 0 .. fit : n * pair <= room - over
        <3>1. room - over \in Nat
            BY <1>6
        <3> QED
            BY <1>3, <3>1, QuotientFits
    <2>3. PICK k \in Nat : k = Min({fit, most}) /\ k <= fit /\ k <= most /\ (~(k < most) => k = most)
        BY MinOfTwo
    <2>4. PICK r \in Nat : r = Max({res, k}) /\ r >= res /\ r >= k /\ (r = res \/ r = k)
        BY MaxOfTwo
    <2>5. TryWindow(room, acc, w) = [res |-> r, done |-> (k < most)]
        BY <1>2, <1>3, <1>6, <2>1, <2>2, <2>3, <2>4 DEF TryWindow
    <2>6. \A v \in 1 .. w - 1 : BestUpTo[v] <= res
        <3>1. ~acc.done /\ acc.res = res /\ w - 1 < MaxBucketWindow
            BY <1>1, <1>2, <1>6
        <3> QED
            BY <3>1, Zenon DEF Tried
    <2>7. ASSUME NEW n \in 1 .. r PROVE Fits(room, n)
        <3>1. CASE n <= res
            <4>1. n \in 1 .. acc.res
                BY <1>2, <3>1
            <4> QED
                BY <4>1, Zenon DEF Tried
        <3>2. CASE n > res
            <4>1. n <= k
                BY <2>4, <3>2
            <4>2. \A v \in 1 .. w - 1 : n > BestUpTo[v]
                <5>1. ASSUME NEW v \in 1 .. w - 1 PROVE n > BestUpTo[v]
                    <6>1. BestUpTo[v] \in Nat /\ BestUpTo[v] <= res
                        BY <1>1, <2>6, BestFacts
                    <6> QED
                        BY <3>2, <6>1
                <5> QED
                    BY <5>1
            <4>3. w < 12 => n <= BestUpTo[w]
                BY <2>1, <2>3, <4>1
            <4>4. BucketWindow(n) = w
                BY <4>2, <4>3, BucketWindowFacts
            <4>5. n \in 0 .. fit
                BY <2>3, <4>1
            <4>6. n * pair <= room - over /\ n * pair \in Nat
                BY <2>2, <4>5
            <4>7. over + n * pair <= room
                BY <4>6
            <4> QED
                BY <1>3, <4>4, <4>7 DEF Fits
        <3> QED
            BY <3>1, <3>2
    <2>8. ASSUME ~(k < most), w < 12, NEW v \in 1 .. w
          PROVE  BestUpTo[v] <= r
        <3>1. CASE v = w
            BY <2>1, <2>3, <2>4, <2>8, <3>1
        <3>2. CASE v # w
            <4>1. v \in 1 .. w - 1 /\ BestUpTo[v] \in Nat
                BY <1>1, <3>2, BestFacts
            <4>2. BestUpTo[v] <= res
                BY <2>6, <4>1
            <4> QED
                BY <2>4, <4>1, <4>2
        <3> QED
            BY <3>1, <3>2
    <2>9. PICK end \in BOOLEAN : end <=> k < most
        OBVIOUS
    <2>10. PICK t : t = TryWindow(room, acc, w) /\ t = [res |-> r, done |-> end]
        <3>1. CASE k < most
            BY <2>5, <2>9, <3>1
        <3>2. CASE ~(k < most)
            BY <2>5, <2>9, <3>2
        <3> QED
            BY <3>1, <3>2
    <2>11. t.res = r /\ t.done = end
        BY <2>10
    <2> QED
        BY <1>1, <2>7, <2>8, <2>9, <2>10, <2>11 DEF Tried
<1> QED
    BY <1>2, <1>4, <1>5, <1>6

(* What is known after each window.                                        *)
AreWindows(f, room, l) ==
    f = [w \in 0 .. l |->
            IF w = 0 THEN [res |-> 0, done |-> FALSE] ELSE TryWindow(room, f[w - 1], w)]

(* It exists.                                                              *)
LEMMA WindowsExist ==
    ASSUME NEW room, NEW l \in Nat
    PROVE  \E f : AreWindows(f, room, l)
<1> DEFINE T == {m \in Nat : ~ \E f : AreWindows(f, room, m)}
<1> SUFFICES ASSUME T # {} PROVE FALSE
    OBVIOUS
<1>1. PICK m \in T : \A n \in T : m <= n
    BY NatMinimum
<1>2. CASE m = 0
    <2>1. AreWindows([w \in 0 .. 0 |-> [res |-> 0, done |-> FALSE]], room, 0)
        BY DEF AreWindows
    <2> QED
        BY <1>1, <1>2, <2>1
<1>3. CASE m # 0
    <2>1. m - 1 \in Nat /\ m - 1 \notin T
        BY <1>1, <1>3
    <2>2. PICK f : AreWindows(f, room, m - 1)
        BY <2>1
    <2> DEFINE last == TryWindow(room, f[m - 1], m)
               g == [i \in 0 .. m |-> IF i = m THEN last ELSE f[i]]
    <2>3. \A i \in 0 .. m - 1 :
            f[i] = IF i = 0 THEN [res |-> 0, done |-> FALSE] ELSE TryWindow(room, f[i - 1], i)
        BY <2>2, Zenon DEF AreWindows
    <2>4. \A i \in 0 .. m - 1 : g[i] = f[i]
        BY <1>3, <2>1
    <2>5. g[m] = last
        BY <1>3, <2>1
    <2>6. g = [i \in 0 .. m |-> g[i]]
        OBVIOUS
    <2> HIDE DEF g
    <2>7. \A i \in 0 .. m :
            g[i] = IF i = 0 THEN [res |-> 0, done |-> FALSE] ELSE TryWindow(room, g[i - 1], i)
        <3> TAKE i \in 0 .. m
        <3>1. CASE i = m
            BY <1>3, <2>1, <2>4, <2>5, <3>1
        <3>2. CASE i # m
            <4>1. i \in 0 .. m - 1 /\ (i # 0 => i - 1 \in 0 .. m - 1)
                BY <1>3, <2>1, <3>2
            <4> QED
                BY <2>3, <2>4, <4>1
        <3> QED
            BY <3>1, <3>2
    <2>8. AreWindows(g, room, m)
        BY <2>6, <2>7, Zenon DEF AreWindows
    <2> QED
        BY <1>1, <2>8
<1> QED
    BY <1>2, <1>3

(* As many points as are said to fit do, and any fewer.                    *)
LEMMA PippengerPointsFit ==
    ASSUME NEW s \in Scratches
    PROVE  /\ PippengerMaxPoints(s) \in Nat
           /\ \A n \in 1 .. PippengerMaxPoints(s) :
                 Fits(MaxAllocation(s, PippengerObjects), n)
<1>1. PICK room \in Nat : room = MaxAllocation(s, PippengerObjects)
    BY MaxAllocationFacts DEF PippengerObjects
<1>2. MaxBucketWindow = 12
    BY DEF MaxBucketWindow
<1>3. PICK f : f = CHOOSE g : AreWindows(g, room, MaxBucketWindow)
    OBVIOUS
<1>4. AreWindows(f, room, MaxBucketWindow)
    <2>1. \E g : AreWindows(g, room, MaxBucketWindow)
        BY <1>2, WindowsExist
    <2> QED
        BY <1>3, <2>1, Zenon
<1>5. PippengerMaxPoints(s) = f[MaxBucketWindow].res
    BY <1>1, <1>3 DEF PippengerMaxPoints, AreWindows
<1>6. \A w \in 0 .. MaxBucketWindow :
        f[w] = IF w = 0 THEN [res |-> 0, done |-> FALSE] ELSE TryWindow(room, f[w - 1], w)
    BY <1>4, Zenon DEF AreWindows
<1> DEFINE T == {w \in 0 .. MaxBucketWindow : ~Tried(room, f[w], w)}
<1>7. T = {}
    <2>1. SUFFICES ASSUME T # {} PROVE FALSE
        OBVIOUS
    <2>2. PICK w \in T : \A v \in T : w <= v
        <3>1. T \subseteq Nat
            OBVIOUS
        <3> QED
            BY <2>1, <3>1, NatMinimum
    <2>3. w # 0
        <3>1. SUFFICES ASSUME w = 0 PROVE FALSE
            OBVIOUS
        <3>2. f[0] = [res |-> 0, done |-> FALSE]
            BY <1>2, <1>6
        <3>3. PICK z : z = f[0] /\ z = [res |-> 0, done |-> FALSE]
            BY <3>2
        <3>4. z.res = 0 /\ ~z.done /\ 1 .. 0 = {}
            BY <3>3
        <3>5. Tried(room, z, 0)
            <4>1. \E res \in Nat, done \in BOOLEAN : z = [res |-> res, done |-> done]
                BY <3>3
            <4> QED
                BY <3>4, <4>1, Zenon DEF Tried
        <3> QED
            BY <2>2, <3>1, <3>3, <3>5
    <2>4. w \in 1 .. MaxBucketWindow /\ Tried(room, f[w - 1], w - 1)
        <3>1. w \in 1 .. MaxBucketWindow /\ w - 1 \in 0 .. MaxBucketWindow /\ ~(w <= w - 1)
            BY <1>2, <2>2, <2>3
        <3> QED
            BY <2>2, <3>1
    <2>5. Tried(room, TryWindow(room, f[w - 1], w), w)
        BY <2>4, TryWindowFacts
    <2>6. f[w] = TryWindow(room, f[w - 1], w)
        BY <1>6, <2>2, <2>3
    <2> QED
        BY <2>2, <2>5, <2>6
<1>8. Tried(room, f[MaxBucketWindow], MaxBucketWindow)
    BY <1>2, <1>7
<1> QED
    BY <1>1, <1>5, <1>8 DEF Tried

(* The sizes of five or six objects in a row, those after the first i.     *)
Six(a, b, c, d, e, f) ==
    [i \in 0 .. 6 |->
        CASE i = 0 -> a + b + c + d + e + f [] i = 1 -> b + c + d + e + f
          [] i = 2 -> c + d + e + f [] i = 3 -> d + e + f
          [] i = 4 -> e + f [] i = 5 -> f [] OTHER -> 0]

(* Six objects that together stay within what is said to fit, fit.         *)
LEMMA SixFit ==
    ASSUME NEW s \in Scratches, NEW a \in Nat, NEW b \in Nat, NEW c \in Nat, NEW d \in Nat,
           NEW e \in Nat, NEW f \in Nat, a + b + c + d + e + f <= MaxAllocation(s, 6)
    PROVE  AllocAll(s, <<a, b, c, d, e, f>>).ok
<1> DEFINE sum == Six(a, b, c, d, e, f)
           requests == <<a, b, c, d, e, f>>
<1>1. sum \in [0 .. 6 -> Nat] /\ sum[0] = a + b + c + d + e + f
    BY DEF Six
<1>2. 6 = Len(requests)
    OBVIOUS
<1>3. ASSUME NEW i \in 1 .. 6
      PROVE  requests[i] \in Nat /\ sum[i - 1] = sum[i] + requests[i]
    <2>1. CASE i = 1
        BY <2>1 DEF Six
    <2>2. CASE i = 2
        BY <2>2 DEF Six
    <2>3. CASE i = 3
        BY <2>3 DEF Six
    <2>4. CASE i = 4
        BY <2>4 DEF Six
    <2>5. CASE i = 5
        BY <2>5 DEF Six
    <2>6. CASE i = 6
        BY <2>6 DEF Six
    <2> QED
        BY <2>1, <2>2, <2>3, <2>4, <2>5, <2>6
<1> HIDE DEF sum, requests
<1>4. sum[0] <= MaxAllocation(s, 6)
    BY <1>1
<1>5. AllocAll(s, requests).ok
    BY <1>1, <1>2, <1>3, <1>4, GrantFits
<1> QED
    BY <1>5 DEF requests

(* The same of five objects.                                               *)
LEMMA FiveFit ==
    ASSUME NEW s \in Scratches, NEW a \in Nat, NEW b \in Nat, NEW c \in Nat, NEW d \in Nat,
           NEW e \in Nat, a + b + c + d + e <= MaxAllocation(s, 5)
    PROVE  AllocAll(s, <<a, b, c, d, e>>).ok
<1> DEFINE sum == [i \in 0 .. 5 |-> Six(a, b, c, d, e, 0)[i]]
           requests == <<a, b, c, d, e>>
<1>1. sum \in [0 .. 5 -> Nat] /\ sum[0] = a + b + c + d + e
    BY DEF Six
<1>2. 5 = Len(requests)
    OBVIOUS
<1>3. ASSUME NEW i \in 1 .. 5
      PROVE  requests[i] \in Nat /\ sum[i - 1] = sum[i] + requests[i]
    <2>1. CASE i = 1
        BY <2>1 DEF Six
    <2>2. CASE i = 2
        BY <2>2 DEF Six
    <2>3. CASE i = 3
        BY <2>3 DEF Six
    <2>4. CASE i = 4
        BY <2>4 DEF Six
    <2>5. CASE i = 5
        BY <2>5 DEF Six
    <2> QED
        BY <2>1, <2>2, <2>3, <2>4, <2>5
<1> HIDE DEF sum, requests
<1>4. sum[0] <= MaxAllocation(s, 5)
    BY <1>1
<1>5. AllocAll(s, requests).ok
    BY <1>1, <1>2, <1>3, <1>4, GrantFits
<1> QED
    BY <1>5 DEF requests

(* And of three.                                                           *)
LEMMA ThreeFit ==
    ASSUME NEW s \in Scratches, NEW a \in Nat, NEW b \in Nat, NEW c \in Nat,
           a + b + c <= MaxAllocation(s, 3)
    PROVE  AllocAll(s, <<a, b, c>>).ok
<1> DEFINE sum == [i \in 0 .. 3 |-> Six(a, b, c, 0, 0, 0)[i]]
           requests == <<a, b, c>>
<1>1. sum \in [0 .. 3 -> Nat] /\ sum[0] = a + b + c
    BY DEF Six
<1>2. 3 = Len(requests)
    OBVIOUS
<1>3. ASSUME NEW i \in 1 .. 3
      PROVE  requests[i] \in Nat /\ sum[i - 1] = sum[i] + requests[i]
    <2>1. CASE i = 1
        BY <2>1 DEF Six
    <2>2. CASE i = 2
        BY <2>2 DEF Six
    <2>3. CASE i = 3
        BY <2>3 DEF Six
    <2> QED
        BY <2>1, <2>2, <2>3
<1> HIDE DEF sum, requests
<1>4. sum[0] <= MaxAllocation(s, 3)
    BY <1>1
<1>5. AllocAll(s, requests).ok
    BY <1>1, <1>2, <1>3, <1>4, GrantFits
<1> QED
    BY <1>5 DEF requests

(* The points Strauss' method is said to have room for, and any fewer.     *)
LEMMA StraussPointsFit ==
    ASSUME NEW s \in Scratches
    PROVE  /\ StraussMaxPoints(s) \in Nat
           /\ \A n \in 1 .. StraussMaxPoints(s) : AllocAll(s, StraussRequests(n)).ok
<1>1. PICK room \in Nat : room = MaxAllocation(s, 5)
    BY MaxAllocationFacts
<1>2. PICK ge \in Nat, fe \in Nat, t \in Nat, sp \in Nat, gej \in Nat, sc \in Nat :
        /\ ge = GeSize /\ fe = FeSize /\ t = PointTableSize /\ sp = StraussPointSize
        /\ gej = GejSize /\ sc = ScalarSize /\ sc > 0
    <2>1. /\ GeSize \in Nat /\ FeSize \in Nat /\ PointTableSize \in Nat /\ StraussPointSize \in Nat
          /\ GejSize \in Nat /\ ScalarSize \in Nat /\ ScalarSize > 0
        BY SizesAssumption
    <2> QED
        BY <2>1, Zenon
<1>3. (ge + fe) * t \in Nat
    OBVIOUS
<1>4. PICK per \in Nat : per = (ge + fe) * t + sp + gej + sc
    BY <1>3
<1>5. per > 0
    BY <1>2, <1>3, <1>4
<1>6. StraussScratchSize(1) = per
    BY <1>2, <1>3, <1>4 DEF StraussScratchSize
<1>7. StraussMaxPoints(s) = room \div per
    BY <1>1, <1>6 DEF StraussMaxPoints, StraussObjects
<1>8. StraussMaxPoints(s) \in Nat /\ \A n \in 0 .. StraussMaxPoints(s) : n * per <= room
    BY <1>5, <1>7, QuotientFits
<1>9. ASSUME NEW n \in 1 .. StraussMaxPoints(s)
      PROVE  AllocAll(s, StraussRequests(n)).ok
    <2>1. n \in Nat /\ n * per <= room
        BY <1>8
    <2>2. /\ n * gej \in Nat /\ n * sc \in Nat /\ n * t * fe \in Nat /\ n * t * ge \in Nat
          /\ n * sp \in Nat
        <3>1. n * t \in Nat
            BY <2>1
        <3> QED
            BY <2>1, <3>1
    <2>3. n * per = n * gej + n * sc + n * t * fe + n * t * ge + n * sp
        BY <1>4, <2>1
    <2>4. n * gej + n * sc + n * t * fe + n * t * ge + n * sp <= MaxAllocation(s, 5)
        BY <1>1, <2>1, <2>3
    <2>5. AllocAll(s, <<n * gej, n * sc, n * t * fe, n * t * ge, n * sp>>).ok
        BY <2>2, <2>4, FiveFit
    <2> QED
        BY <1>2, <2>5 DEF StraussRequests
<1> QED
    BY <1>8, <1>9

(* The points Pippenger's method is said to have room for, and any fewer,  *)
(* with the window that is best for them.                                  *)
LEMMA PippengerRequestsFit ==
    ASSUME NEW s \in Scratches, NEW n \in 1 .. PippengerMaxPoints(s)
    PROVE  AllocAll(s, PippengerRequests(n)).ok
<1>1. PICK room \in Nat : room = MaxAllocation(s, 6)
    BY MaxAllocationFacts
<1>2. PICK w \in 1 .. MaxBucketWindow :
        w = BucketWindow(n) /\ Overhead(w) + n * (2 * EntrySize(w)) <= room
    <2>1. Fits(room, n)
        BY <1>1, PippengerPointsFit DEF PippengerObjects
    <2> QED
        BY <2>1, Zenon DEF Fits
<1>3. PICK ge \in Nat, sc \in Nat, pp \in Nat, int \in Nat, gej \in Nat, ps \in Nat :
        /\ ge = GeSize /\ sc = ScalarSize /\ pp = PippengerPointSize /\ int = IntSize
        /\ gej = GejSize /\ ps = PippengerStateSize
    <2>1. /\ GeSize \in Nat /\ ScalarSize \in Nat /\ PippengerPointSize \in Nat /\ IntSize \in Nat
          /\ GejSize \in Nat /\ PippengerStateSize \in Nat
        BY SizesAssumption
    <2> QED
        BY <2>1, Zenon
<1>4. PICK p \in Nat, k \in Nat : p = 2 ^ w /\ k = WnafWords(w + 1)
    BY WindowFacts
<1>5. PICK e \in Nat : e = Entries(n) /\ e = 2 * n + 2
    <2>1. n \in Nat /\ 2 * n + 2 \in Nat
        BY PippengerPointsFit
    <2> QED
        BY <2>1 DEF Entries
<1>6. PICK es \in Nat : es = EntrySize(w) /\ es = ge + sc + pp + (k + 1) * int
    BY <1>3, <1>4, WindowFacts DEF EntrySize
<1>7. Overhead(w) = p * gej + 2 * es + ps
    BY <1>3, <1>4, <1>6 DEF Overhead
<1>8. /\ e * ge \in Nat /\ e * sc \in Nat /\ e * pp \in Nat /\ e * k * int \in Nat
      /\ p * gej \in Nat /\ e * int \in Nat
    <2>1. e * k \in Nat
        OBVIOUS
    <2> QED
        BY <2>1
<1>9. n \in Nat
    BY PippengerPointsFit
<1>10. 2 * es + n * (2 * es) = e * ge + e * sc + e * pp + e * k * int + e * int
    <2>1. 2 * es + n * (2 * es) = (2 * n + 2) * es
        BY <1>9
    <2>2. e * es = e * (ge + sc + pp + (k + 1) * int)
        BY <1>6
    <2>3. e * (ge + sc + pp + (k + 1) * int) = e * ge + e * sc + e * pp + e * k * int + e * int
        OBVIOUS
    <2>4. (2 * n + 2) * es = e * es
        BY <1>5
    <2> QED
        BY <2>1, <2>2, <2>3, <2>4
<1>11. PICK x1 \in Nat, x2 \in Nat, x4 \in Nat, x5 \in Nat, x6 \in Nat, x7 \in Nat :
        /\ x1 = e * ge /\ x2 = e * sc /\ x4 = e * pp /\ x5 = e * k * int /\ x6 = p * gej
        /\ x7 = e * int
    BY <1>8, Zenon
<1>12. x1 + x2 + ps + x4 + x5 + x6 <= room
    <2>1. n * (2 * es) \in Nat
        BY <1>9
    <2>2. PICK y \in Nat : y = n * (2 * es)
        BY <2>1, Zenon
    <2>3. x6 + 2 * es + ps + y <= room
        BY <1>2, <1>6, <1>7, <1>11, <2>2
    <2>4. 2 * es + y = x1 + x2 + x4 + x5 + x7
        BY <1>10, <1>11, <2>2
    <2> QED
        BY <2>3, <2>4
<1>13. AllocAll(s, <<x1, x2, ps, x4, x5, x6>>).ok
    BY <1>1, <1>12, SixFit
<1>14. PippengerRequests(n) = <<x1, x2, ps, x4, x5, x6>>
    BY <1>2, <1>3, <1>4, <1>5, <1>11 DEF PippengerRequests
<1> QED
    BY <1>13, <1>14

(* Every batch that is planned fits.                                       *)
LEMMA FewerFit ==
    ASSUME NEW s \in Scratches
    PROVE  FewerFitToo(s)
BY StraussPointsFit, PippengerRequestsFit DEF FewerFitToo

(* The batches of a plan divide the points between them.                   *)
LEMMA PlanCovers ==
    ASSUME NEW s \in Scratches, NEW n \in Nat \ {0}
    PROVE  BatchesCover(s, n)
<1>1. PICK pm \in Nat, sm \in Nat : pm = PippengerMaxPoints(s) /\ sm = StraussMaxPoints(s)
    BY StraussPointsFit, PippengerPointsFit
<1>2. n \in Nat /\ n > 0
    OBVIOUS
<1>3. PICK pb, sb : pb = BatchSizes(pm, n) /\ sb = BatchSizes(sm, n)
    OBVIOUS
<1> DEFINE Good(b, most) ==
        /\ b.batches \in Nat /\ b.batches > 0 /\ b.points \in 1 .. most
        /\ b.points * (b.batches - 1) < n /\ n <= b.points * b.batches
<1>4. (pb.ok => Good(pb, pm)) /\ (sb.ok => Good(sb, sm))
    BY <1>1, <1>2, <1>3, BatchFacts
<1>5. PICK plan : plan = Plan(s, n)
    OBVIOUS
<1> DEFINE most == IF plan.method = "strauss" THEN sm ELSE pm
           b == [i \in 1 .. plan.batches |-> Batch(plan, n, i)]
<1>6. plan.method = "simple" \/ Good(plan, most)
    <2>1. CASE ~pb.ok
        <3>1. plan = [method |-> "simple"]
            BY <1>1, <1>3, <1>5, <2>1 DEF Plan
        <3> QED
            BY <3>1
    <2>2. CASE pb.ok /\ pb.points >= PippengerThreshold
        <3>1. plan = [method |-> "pippenger", batches |-> pb.batches, points |-> pb.points]
            BY <1>1, <1>3, <1>5, <2>2 DEF Plan
        <3>2. plan.batches = pb.batches /\ plan.points = pb.points /\ most = pm
            BY <3>1
        <3> QED
            BY <1>4, <2>2, <3>2
    <2>3. CASE pb.ok /\ ~(pb.points >= PippengerThreshold) /\ ~sb.ok
        <3>1. plan = [method |-> "simple"]
            BY <1>1, <1>3, <1>5, <2>3 DEF Plan
        <3> QED
            BY <3>1
    <2>4. CASE pb.ok /\ ~(pb.points >= PippengerThreshold) /\ sb.ok
        <3>1. plan = [method |-> "strauss", batches |-> sb.batches, points |-> sb.points]
            BY <1>1, <1>3, <1>5, <2>4 DEF Plan
        <3>2. plan.batches = sb.batches /\ plan.points = sb.points /\ most = sm
            BY <3>1
        <3> QED
            BY <1>4, <2>4, <3>2
    <2> QED
        BY <2>1, <2>2, <2>3, <2>4
<1>7. ASSUME plan.method # "simple"
      PROVE  /\ \A i \in DOMAIN b :
                  /\ b[i].size \in 1 .. most
                  /\ b[i].offset = IF i = 1 THEN 0 ELSE b[i - 1].offset + b[i - 1].size
             /\ b[plan.batches].offset + b[plan.batches].size = n
    <2>1. PICK count \in Nat, points \in Nat :
            /\ count = plan.batches /\ points = plan.points /\ count > 0 /\ points \in 1 .. most
            /\ points * (count - 1) < n /\ n <= points * count
        <3>1. Good(plan, most) /\ most \in Nat
            BY <1>6, <1>7
        <3>2. plan.points \in Nat
            BY <3>1
        <3> QED
            BY <3>1, <3>2, Zenon
    <2>2. points > 0
        BY <2>1
    <2>3. /\ \A i \in 1 .. count :
                /\ Batch(plan, n, i).size \in 1 .. points
                /\ Batch(plan, n, i).offset =
                      IF i = 1 THEN 0
                      ELSE Batch(plan, n, i - 1).offset + Batch(plan, n, i - 1).size
          /\ Batch(plan, n, count).offset + Batch(plan, n, count).size = n
        <3>1. PlanDivides(plan, n, count, points)
            BY <2>1, <2>2 DEF PlanDivides
        <3>2. Follow(plan, n, count, points)
            BY <1>2, <3>1, BatchesFollow
        <3> QED
            BY <3>2 DEF Follow
    <2>4. DOMAIN b = 1 .. count /\ \A i \in 1 .. count : b[i] = Batch(plan, n, i)
        BY <2>1
    <2>5. count \in 1 .. count /\ \A i \in 1 .. count : i # 1 => i - 1 \in 1 .. count
        BY <2>1
    <2>6. most \in Nat
        OBVIOUS
    <2> HIDE DEF b, most
    <2>7. b[plan.batches].offset + b[plan.batches].size = n
        BY <2>1, <2>3, <2>4, <2>5
    <2>8. ASSUME NEW i \in DOMAIN b
          PROVE  /\ b[i].size \in 1 .. most
                 /\ b[i].offset = IF i = 1 THEN 0 ELSE b[i - 1].offset + b[i - 1].size
        <3>1. i \in 1 .. count /\ b[i] = Batch(plan, n, i)
            BY <2>4
        <3>2. b[i].size \in 1 .. most
            BY <2>1, <2>3, <2>6, <3>1
        <3>3. i # 1 => b[i - 1] = Batch(plan, n, i - 1)
            BY <2>4, <2>5, <3>1
        <3> QED
            BY <2>3, <3>1, <3>2, <3>3
    <2> QED
        BY <2>7, <2>8
<1> QED
    <2>1. CASE plan.method = "simple"
        BY <1>5, <2>1 DEF BatchesCover
    <2>2. CASE plan.method # "simple"
        BY <1>1, <1>5, <1>7, <2>2 DEF BatchesCover
    <2> QED
        BY <2>1, <2>2

FrameSet == [start : Nat, size : 0 .. SizeMax]
Mark == [at : Nat, n : Nat]

End(frame) == frame.start + frame.size

(* The frames lie one behind the other below what is allocated, and every  *)
(* checkpoint behind those that were there when it was taken, in order.    *)
FramesOrdered(f, top) ==
    \A i \in DOMAIN f :
        /\ Aligned(f[i].start) /\ End(f[i]) <= top
        /\ \A j \in DOMAIN f : i < j => End(f[i]) <= f[j].start

MarksOrdered(m, f, top) ==
    \A k \in DOMAIN m :
        /\ Aligned(m[k].at) /\ m[k].at <= top /\ m[k].n <= Len(f)
        /\ \A i \in DOMAIN f : i <= m[k].n => End(f[i]) <= m[k].at
        /\ \A l \in DOMAIN m : k < l => m[k].at <= m[l].at /\ m[k].n <= m[l].n

(* Nothing is allocated before the first batch.                            *)
AtBottom(m, top) == IF m = <<>> THEN top = 0 ELSE m[1].at = 0

SpaceUsed ==
    \E s \in Scratches, f \in Seq(FrameSet), m \in Seq(Mark) :
        /\ space = [scratch |-> s, frames |-> f, marks |-> m]
        /\ FramesOrdered(f, s.alloc_size) /\ MarksOrdered(m, f, s.alloc_size)
        /\ AtBottom(m, s.alloc_size)

SpaceIInv == space = NoSpace \/ SpaceUsed

(* Without a space there is no batch.                                      *)
LEMMA UsedIn ==
    ASSUME SpaceIInv, space.scratch # NoScratch \/ space.marks # <<>>
    PROVE  SpaceUsed
BY DEF SpaceIInv, NoSpace

(* A new space has nothing allocated.                                      *)
LEMMA CreateInv ==
    ASSUME NEW size \in 0 .. SizeMax, CreateSpace(size)
    PROVE  SpaceUsed'
<1>1. Aligned(0)
    <2>1. 0 = 0 * Alignment
        BY SizeFacts
    <2> QED
        BY <2>1 DEF Aligned
<1>2. ScratchOf(size) \in Scratches
    BY <1>1 DEF ScratchOf, Scratches
<1>3. <<>> \in Seq(FrameSet) /\ <<>> \in Seq(Mark)
    OBVIOUS
<1>4. FramesOrdered(<<>>, 0) /\ MarksOrdered(<<>>, <<>>, 0) /\ AtBottom(<<>>, 0)
    BY DEF FramesOrdered, MarksOrdered, AtBottom
<1>5. space' = [scratch |-> ScratchOf(size), frames |-> <<>>, marks |-> <<>>]
    BY DEF CreateSpace, SpaceOf
<1>6. ScratchOf(size).alloc_size = 0
    BY DEF ScratchOf
<1> QED
    BY <1>2, <1>3, <1>4, <1>5, <1>6 DEF SpaceUsed

(* A batch begins at a checkpoint behind all that is there.                *)
LEMMA BeginBatchInv == SpaceIInv /\ BeginBatch => SpaceUsed'
<1>1. SUFFICES ASSUME SpaceUsed, BeginBatch PROVE SpaceUsed'
    BY UsedIn DEF BeginBatch
<1>2. PICK s \in Scratches, f \in Seq(FrameSet), m \in Seq(Mark) :
        /\ space = [scratch |-> s, frames |-> f, marks |-> m]
        /\ FramesOrdered(f, s.alloc_size) /\ MarksOrdered(m, f, s.alloc_size)
        /\ AtBottom(m, s.alloc_size)
    BY <1>1 DEF SpaceUsed
<1>3. PICK top \in Nat : top = s.alloc_size /\ Aligned(top)
    BY DEF Scratches
<1> DEFINE new == [at |-> top, n |-> Len(f)]
           o == Append(m, new)
<1>4. new \in Mark /\ o \in Seq(Mark) /\ Len(o) = Len(m) + 1
    BY DEF Mark
<1>5. space' = [scratch |-> s, frames |-> f, marks |-> o]
    BY <1>1, <1>2, <1>3 DEF BeginBatch, Checkpoint
<1>6. \A k \in DOMAIN o : (k \in DOMAIN m /\ o[k] = m[k]) \/ (k = Len(m) + 1 /\ o[k] = new)
    BY <1>4
<1>7. Len(m) \in Nat /\ DOMAIN m = 1 .. Len(m) /\ Len(f) \in Nat /\ DOMAIN f = 1 .. Len(f)
      /\ DOMAIN o = 1 .. Len(m) + 1
    BY <1>4
<1>8. \A i \in DOMAIN f : f[i] \in FrameSet /\ End(f[i]) \in Nat /\ End(f[i]) <= top
    <2>1. ASSUME NEW i \in DOMAIN f PROVE f[i] \in FrameSet /\ End(f[i]) \in Nat /\ End(f[i]) <= top
        <3>1. f[i] \in FrameSet
            BY <1>7
        <3>2. End(f[i]) <= top
            BY <1>2, <1>3 DEF FramesOrdered
        <3>3. f[i].start \in Nat /\ f[i].size \in Nat
            BY <3>1, SizeFacts DEF FrameSet
        <3> QED
            BY <3>1, <3>2, <3>3 DEF End
    <2> QED
        BY <2>1
<1> HIDE DEF o
<1>9. MarksOrdered(o, f, top)
    <2>1. ASSUME NEW k \in DOMAIN o
          PROVE  /\ Aligned(o[k].at) /\ o[k].at <= top /\ o[k].n <= Len(f)
                 /\ \A i \in DOMAIN f : i <= o[k].n => End(f[i]) <= o[k].at
        <3>1. CASE k \in DOMAIN m /\ o[k] = m[k]
            BY <1>2, <1>3, <3>1 DEF MarksOrdered
        <3>2. CASE k = Len(m) + 1 /\ o[k] = new
            BY <1>3, <1>7, <1>8, <3>2
        <3> QED
            BY <1>6, <3>1, <3>2
    <2>2. ASSUME NEW k \in DOMAIN o, NEW l \in DOMAIN o, k < l
          PROVE  o[k].at <= o[l].at /\ o[k].n <= o[l].n
        <3>1. k \in DOMAIN m /\ o[k] = m[k] /\ m[k].at <= top /\ m[k].n <= Len(f)
            <4>1. k \in DOMAIN m /\ o[k] = m[k]
                BY <1>6, <1>7, <2>2
            <4> QED
                BY <1>2, <1>3, <4>1 DEF MarksOrdered
        <3>2. CASE l \in DOMAIN m /\ o[l] = m[l]
            BY <1>2, <2>2, <3>1, <3>2 DEF MarksOrdered
        <3>3. CASE o[l] = new
            BY <3>1, <3>3
        <3> QED
            BY <1>6, <3>2, <3>3
    <2> QED
        BY <2>1, <2>2 DEF MarksOrdered
<1>10. AtBottom(o, top)
    <2>1. CASE m = <<>>
        <3>1. top = 0 /\ Len(m) = 0
            BY <1>2, <1>3, <2>1 DEF AtBottom
        <3>2. 1 \in DOMAIN o /\ 1 \notin DOMAIN m
            BY <1>7, <3>1
        <3>3. o[1] = new
            BY <1>6, <3>2
        <3> QED
            BY <3>1, <3>2, <3>3 DEF AtBottom
    <2>2. CASE m # <<>>
        <3>1. m[1].at = 0 /\ Len(m) > 0
            BY <1>2, <2>2 DEF AtBottom
        <3>2. 1 \in DOMAIN o /\ 1 # Len(m) + 1
            BY <1>7, <3>1
        <3>3. o[1] = m[1]
            BY <1>6, <3>2
        <3> QED
            BY <3>1, <3>2, <3>3 DEF AtBottom
    <2> QED
        BY <2>1, <2>2
<1> QED
    BY <1>2, <1>3, <1>4, <1>5, <1>9, <1>10 DEF SpaceUsed

(* An object is put behind the others, or nothing changes.                 *)
LEMMA AllocateInv ==
    ASSUME SpaceIInv, NEW size \in 0 .. SizeMax, Allocate(size)
    PROVE  SpaceUsed'
<1>1. SpaceUsed
    BY UsedIn DEF Allocate
<1>2. PICK s \in Scratches, f \in Seq(FrameSet), m \in Seq(Mark) :
        /\ space = [scratch |-> s, frames |-> f, marks |-> m]
        /\ FramesOrdered(f, s.alloc_size) /\ MarksOrdered(m, f, s.alloc_size)
        /\ AtBottom(m, s.alloc_size)
    BY <1>1 DEF SpaceUsed
<1>3. PICK top \in Nat : top = s.alloc_size /\ Aligned(top)
    BY DEF Scratches
<1>4. PICK a : a = Alloc(s, size)
    OBVIOUS
<1>5. CASE a.ptr = NoMemory
    <2>1. a.s = s
        BY <1>4, <1>5, AllocFacts
    <2>2. space' = [space EXCEPT !.scratch = a.s, !.frames = f]
        BY <1>2, <1>4, <1>5 DEF Allocate
    <2>3. space' = space
        <3>1. space' = [scratch |-> a.s, frames |-> f, marks |-> m]
            BY <1>2, <2>2
        <3> QED
            BY <1>2, <2>1, <3>1, Zenon
    <2> QED
        BY <1>1, <2>3 DEF SpaceUsed
<1>6. CASE a.ptr # NoMemory
    <2>1. PICK t \in Scratches : t = a.s /\ a.ptr = top /\ top + size <= t.alloc_size /\ t.alloc_size >= top
        BY <1>3, <1>4, <1>6, AllocFacts
    <2>2. PICK end \in Nat : end = t.alloc_size /\ end >= top /\ top + size <= end
        <3>1. t.alloc_size \in Nat
            BY DEF Scratches
        <3> QED
            BY <2>1, <3>1
    <2> DEFINE new == [start |-> top, size |-> size]
               g == Append(f, new)
    <2>3. new \in FrameSet /\ g \in Seq(FrameSet) /\ Len(g) = Len(f) + 1
        BY DEF FrameSet
    <2>4. space' = [scratch |-> t, frames |-> g, marks |-> m]
        BY <1>2, <1>4, <1>6, <2>1 DEF Allocate
    <2>5. Len(m) \in Nat /\ DOMAIN m = 1 .. Len(m) /\ Len(f) \in Nat /\ DOMAIN f = 1 .. Len(f)
          /\ DOMAIN g = 1 .. Len(f) + 1
        BY <2>3
    <2>6. \A i \in DOMAIN g : (i \in DOMAIN f /\ g[i] = f[i]) \/ (i = Len(f) + 1 /\ g[i] = new)
        BY <2>3
    <2>7. End(new) = top + size /\ size \in Nat
        BY SizeFacts DEF End
    <2>8. \A i \in DOMAIN f : End(f[i]) \in Nat /\ f[i].start \in Nat
        <3>1. ASSUME NEW i \in DOMAIN f PROVE End(f[i]) \in Nat /\ f[i].start \in Nat
            <4>1. f[i] \in FrameSet
                BY <2>5
            <4>2. f[i].start \in Nat /\ f[i].size \in Nat
                BY <4>1, SizeFacts DEF FrameSet
            <4> QED
                BY <4>2 DEF End
        <3> QED
            BY <3>1
    <2>9. \A k \in DOMAIN m : m[k].at \in Nat /\ m[k].n \in Nat
        <3>1. \A k \in DOMAIN m : m[k] \in Mark
            BY <2>5
        <3> QED
            BY <3>1 DEF Mark
    <2> HIDE DEF g, new
    <2>10. FramesOrdered(g, end)
        <3>1. ASSUME NEW i \in DOMAIN g
              PROVE  Aligned(g[i].start) /\ End(g[i]) <= end
            <4>1. CASE i \in DOMAIN f /\ g[i] = f[i]
                <5>1. Aligned(f[i].start) /\ End(f[i]) <= top /\ End(f[i]) \in Nat
                    BY <1>2, <1>3, <2>8, <4>1 DEF FramesOrdered
                <5> QED
                    BY <2>2, <4>1, <5>1
            <4>2. CASE g[i] = new
                BY <1>3, <2>2, <2>7, <4>2 DEF new
            <4> QED
                BY <2>6, <4>1, <4>2
        <3>2. ASSUME NEW i \in DOMAIN g, NEW j \in DOMAIN g, i < j
              PROVE  End(g[i]) <= g[j].start
            <4>1. i \in DOMAIN f /\ g[i] = f[i] /\ End(f[i]) <= top
                <5>1. i \in DOMAIN f /\ g[i] = f[i]
                    BY <2>5, <2>6, <3>2
                <5> QED
                    BY <1>2, <1>3, <5>1 DEF FramesOrdered
            <4>2. CASE j \in DOMAIN f /\ g[j] = f[j]
                BY <1>2, <3>2, <4>1, <4>2 DEF FramesOrdered
            <4>3. CASE g[j] = new
                BY <4>1, <4>3 DEF new
            <4> QED
                BY <2>6, <4>2, <4>3
        <3> QED
            BY <3>1, <3>2 DEF FramesOrdered
    <2>11. MarksOrdered(m, g, end)
        <3>1. ASSUME NEW k \in DOMAIN m
              PROVE  /\ Aligned(m[k].at) /\ m[k].at <= end /\ m[k].n <= Len(g)
                     /\ \A i \in DOMAIN g : i <= m[k].n => End(g[i]) <= m[k].at
                     /\ \A l \in DOMAIN m : k < l => m[k].at <= m[l].at /\ m[k].n <= m[l].n
            <4>1. /\ Aligned(m[k].at) /\ m[k].at <= top /\ m[k].n <= Len(f)
                  /\ \A i \in DOMAIN f : i <= m[k].n => End(f[i]) <= m[k].at
                  /\ \A l \in DOMAIN m : k < l => m[k].at <= m[l].at /\ m[k].n <= m[l].n
                BY <1>2, <1>3 DEF MarksOrdered
            <4>2. m[k].at \in Nat /\ m[k].n \in Nat
                BY <2>9
            <4>3. m[k].at <= end /\ m[k].n <= Len(g)
                BY <2>2, <2>3, <2>5, <4>1, <4>2
            <4>4. \A i \in DOMAIN g : i <= m[k].n => i \in DOMAIN f /\ g[i] = f[i]
                <5>1. \A i \in DOMAIN g : i <= m[k].n => i # Len(f) + 1
                    BY <2>5, <4>1, <4>2
                <5> QED
                    BY <2>6, <5>1
            <4> QED
                BY <4>1, <4>3, <4>4
        <3> QED
            BY <3>1 DEF MarksOrdered
    <2>12. AtBottom(m, end)
        <3>1. m # <<>>
            BY <1>2 DEF Allocate
        <3> QED
            BY <1>2, <3>1 DEF AtBottom
    <2> QED
        BY <2>2, <2>3, <2>4, <2>10, <2>11, <2>12 DEF SpaceUsed
<1> QED
    BY <1>5, <1>6

(* The end of a batch leaves the frames that were there at its beginning.  *)
LEMMA EndBatchInv == SpaceIInv /\ EndBatch => SpaceUsed'
<1>1. SUFFICES ASSUME SpaceUsed, EndBatch PROVE SpaceUsed'
    BY UsedIn DEF EndBatch
<1>2. PICK s \in Scratches, f \in Seq(FrameSet), m \in Seq(Mark) :
        /\ space = [scratch |-> s, frames |-> f, marks |-> m]
        /\ FramesOrdered(f, s.alloc_size) /\ MarksOrdered(m, f, s.alloc_size)
        /\ AtBottom(m, s.alloc_size)
    BY <1>1 DEF SpaceUsed
<1>3. m # <<>> /\ Len(m) \in Nat /\ DOMAIN m = 1 .. Len(m) /\ Len(m) > 0
    BY <1>1, <1>2 DEF EndBatch
<1>4. PICK last \in DOMAIN m : last = Len(m)
    BY <1>3
<1>5. PICK mark \in Mark : mark = m[last]
    BY <1>3, <1>4
<1>6. PICK at \in Nat, n \in Nat : at = mark.at /\ n = mark.n
    BY DEF Mark
<1>7. /\ Aligned(at) /\ at <= s.alloc_size /\ n <= Len(f)
      /\ \A i \in DOMAIN f : i <= n => End(f[i]) <= at
    BY <1>2, <1>5, <1>6 DEF MarksOrdered
<1>8. PICK top \in Nat, max \in 0 .. SizeMax :
        s = [alloc_size |-> top, max_size |-> max] /\ top <= max
    BY DEF Scratches
<1> DEFINE t == [alloc_size |-> at, max_size |-> max]
           g == SubSeq(f, 1, n)
           o == SubSeq(m, 1, last - 1)
<1>9. ApplyCheckpoint(s, at) = t
    BY <1>7, <1>8 DEF ApplyCheckpoint
<1>10. t \in Scratches
    <2>1. at <= max
        BY <1>7, <1>8, SizeFacts
    <2> QED
        BY <1>7, <2>1 DEF Scratches
<1>11. space' = [scratch |-> t, frames |-> g, marks |-> o]
    BY <1>1, <1>2, <1>4, <1>5, <1>6, <1>9 DEF EndBatch
<1>12. /\ g \in Seq(FrameSet) /\ Len(g) = n /\ DOMAIN g = 1 .. n
       /\ \A i \in 1 .. n : i \in DOMAIN f /\ g[i] = f[i]
    <2>1. Len(f) \in Nat /\ DOMAIN f = 1 .. Len(f)
        OBVIOUS
    <2> QED
        BY <1>7, <2>1
<1>13. /\ o \in Seq(Mark) /\ DOMAIN o = 1 .. last - 1
       /\ \A k \in 1 .. last - 1 : k \in DOMAIN m /\ o[k] = m[k] /\ k < last
    BY <1>3, <1>4
<1> HIDE DEF t, g, o
<1>14. FramesOrdered(g, at)
    <2>1. ASSUME NEW i \in DOMAIN g
          PROVE  Aligned(g[i].start) /\ End(g[i]) <= at
        BY <1>2, <1>7, <1>12 DEF FramesOrdered
    <2>2. ASSUME NEW i \in DOMAIN g, NEW j \in DOMAIN g, i < j
          PROVE  End(g[i]) <= g[j].start
        BY <1>2, <1>12, <2>2 DEF FramesOrdered
    <2> QED
        BY <2>1, <2>2 DEF FramesOrdered
<1>15. MarksOrdered(o, g, at)
    <2>1. ASSUME NEW k \in DOMAIN o
          PROVE  /\ Aligned(o[k].at) /\ o[k].at <= at /\ o[k].n <= Len(g)
                 /\ \A i \in DOMAIN g : i <= o[k].n => End(g[i]) <= o[k].at
                 /\ \A l \in DOMAIN o : k < l => o[k].at <= o[l].at /\ o[k].n <= o[l].n
        <3>1. k \in DOMAIN m /\ o[k] = m[k] /\ k < last
            BY <1>13
        <3>2. /\ Aligned(m[k].at) /\ m[k].at <= at /\ m[k].n <= n
              /\ \A i \in DOMAIN f : i <= m[k].n => End(f[i]) <= m[k].at
              /\ \A l \in DOMAIN m : k < l => m[k].at <= m[l].at /\ m[k].n <= m[l].n
            BY <1>2, <1>5, <1>6, <3>1 DEF MarksOrdered
        <3>3. \A i \in DOMAIN g : i <= o[k].n => End(g[i]) <= o[k].at
            BY <1>12, <3>1, <3>2
        <3>4. \A l \in DOMAIN o : k < l => o[k].at <= o[l].at /\ o[k].n <= o[l].n
            BY <1>13, <3>1, <3>2
        <3> QED
            BY <1>12, <3>1, <3>2, <3>3, <3>4
    <2> QED
        BY <2>1 DEF MarksOrdered
<1>16. AtBottom(o, at)
    <2>1. m[1].at = 0
        BY <1>2, <1>3 DEF AtBottom
    <2>2. CASE last = 1
        <3>1. at = 0
            BY <1>5, <1>6, <2>1, <2>2
        <3>2. o = <<>>
            BY <1>13, <2>2
        <3> QED
            BY <3>1, <3>2 DEF AtBottom
    <2>3. CASE last # 1
        <3>1. 1 \in 1 .. last - 1
            BY <1>3, <1>4, <2>3
        <3>2. o[1] = m[1] /\ o # <<>>
            BY <1>13, <3>1
        <3> QED
            BY <2>1, <3>2 DEF AtBottom
    <2> QED
        BY <2>2, <2>3
<1> QED
    BY <1>10, <1>11, <1>12, <1>13, <1>14, <1>15, <1>16 DEF SpaceUsed, t

(* Every step keeps the space in order.                                    *)
LEMMA SpaceStepInv == SpaceIInv /\ [SpaceNext]_space => SpaceIInv'
<1>1. SUFFICES ASSUME SpaceIInv, [SpaceNext]_space PROVE SpaceIInv'
    OBVIOUS
<1>2. CASE BeginBatch
    BY <1>1, <1>2, BeginBatchInv DEF SpaceIInv
<1>3. CASE \E size \in Requested : Allocate(size)
    <2>1. PICK size \in Requested : Allocate(size)
        BY <1>3
    <2>2. size \in 0 .. SizeMax
        BY RequestsAssumption
    <2> QED
        BY <1>1, <2>1, <2>2, AllocateInv DEF SpaceIInv
<1>4. CASE EndBatch
    BY <1>1, <1>4, EndBatchInv DEF SpaceIInv
<1>5. CASE \E size \in BlockSizes : CreateSpace(size)
    <2>1. PICK size \in BlockSizes : CreateSpace(size)
        BY <1>5
    <2>2. size \in 0 .. SizeMax
        BY RequestsAssumption
    <2> QED
        BY <2>1, <2>2, CreateInv DEF SpaceIInv
<1>6. CASE DestroySpace
    BY <1>6 DEF DestroySpace, SpaceIInv
<1>7. CASE UNCHANGED space
    BY <1>1, <1>7 DEF SpaceIInv, SpaceUsed
<1> QED
    BY <1>1, <1>2, <1>3, <1>4, <1>5, <1>6, <1>7 DEF SpaceNext

(* A space in order holds what it says, and every planned batch.           *)
LEMMA SpaceInvHolds == SpaceIInv => SpaceHolds
<1>0. SUFFICES ASSUME SpaceIInv, space.scratch # NoScratch
               PROVE  /\ FramesApart /\ GrantHolds /\ CheckpointsStand
                      /\ FewerFitToo(space.scratch)
                      /\ \A n \in Counts : BatchesCover(space.scratch, n)
    BY DEF SpaceHolds
<1>1. SpaceUsed
    BY <1>0, UsedIn
<1>2. PICK s \in Scratches, f \in Seq(FrameSet), m \in Seq(Mark) :
        /\ space = [scratch |-> s, frames |-> f, marks |-> m]
        /\ FramesOrdered(f, s.alloc_size) /\ MarksOrdered(m, f, s.alloc_size)
        /\ AtBottom(m, s.alloc_size)
    BY <1>1 DEF SpaceUsed
<1>3. space.scratch = s /\ space.frames = f /\ space.marks = m
    BY <1>2
<1>4. PICK a \in Nat, top \in Nat : a = Alignment /\ top = SizeMax /\ a > 1
    BY SizeFacts
<1>5. FramesApart
    <2>1. ASSUME NEW i \in DOMAIN f
          PROVE  /\ f[i].start % Alignment = 0
                 /\ f[i].start + f[i].size <= s.max_size
                 /\ \A j \in DOMAIN f : i < j => f[i].start + f[i].size <= f[j].start
        <3>1. /\ Aligned(f[i].start) /\ End(f[i]) <= s.alloc_size
              /\ \A j \in DOMAIN f : i < j => End(f[i]) <= f[j].start
            BY <1>2 DEF FramesOrdered
        <3>2. PICK q \in Nat : f[i].start = q * a
            BY <1>4, <3>1 DEF Aligned
        <3>3. f[i].start % a = 0
            <4>1. (q * a + 0) % a = 0
                BY <1>4, PartsUnique
            <4>2. q * a + 0 = q * a
                OBVIOUS
            <4> QED
                BY <3>2, <4>1, <4>2
        <3>4. f[i] \in FrameSet
            OBVIOUS
        <3>5. f[i].start \in Nat /\ f[i].size \in Nat
            BY <1>4, <3>4 DEF FrameSet
        <3>6. s.alloc_size \in Nat /\ s.max_size \in Nat /\ s.alloc_size <= s.max_size
            BY <1>4 DEF Scratches
        <3> QED
            BY <1>4, <3>1, <3>3, <3>5, <3>6 DEF End
    <2> QED
        BY <1>3, <2>1 DEF FramesApart
<1>6. GrantHolds
    <2>1. ASSUME NEW x \in Requested, NEW y \in Requested, NEW z \in Requested,
                 x + y + z <= MaxAllocation(s, 3)
          PROVE  AllocAll(s, <<x, y, z>>).ok
        <3>1. x \in Nat /\ y \in Nat /\ z \in Nat
            BY <1>4, RequestsAssumption
        <3> QED
            BY <2>1, <3>1, ThreeFit
    <2> QED
        BY <1>3, <2>1 DEF GrantHolds
<1>7. CheckpointsStand
    <2>0. m = <<>> => s.alloc_size = 0
        BY <1>2 DEF AtBottom
    <2>1. \A k \in DOMAIN m : m[k].at <= s.alloc_size
        BY <1>2 DEF MarksOrdered
    <2>2. ASSUME NEW x \in Requested, NEW y \in Requested
          PROVE  ApplyCheckpoint(AllocAll(s, <<x, y>>).s, Checkpoint(s)) = s
        <3>1. x \in 0 .. SizeMax /\ y \in 0 .. SizeMax
            BY RequestsAssumption
        <3> DEFINE r == <<x, y>>
        <3>2. Len(r) = 2 /\ r[1] = x /\ r[2] = y
            OBVIOUS
        <3>3. \A i \in 1 .. 2 : i = 1 \/ i = 2
            OBVIOUS
        <3> HIDE DEF r
        <3>4. \A i \in 1 .. 2 : r[i] \in 0 .. SizeMax
            BY <3>1, <3>2, <3>3
        <3>5. ApplyCheckpoint(AllocAll(s, r).s, Checkpoint(s)) = s
            BY <3>2, <3>4, AllocsKeep
        <3> QED
            BY <3>5 DEF r
    <2> QED
        BY <1>3, <2>0, <2>1, <2>2 DEF CheckpointsStand
<1>8. FewerFitToo(space.scratch)
    BY <1>3, FewerFit
<1>9. \A n \in Counts : BatchesCover(space.scratch, n)
    BY <1>3, PlanCovers, RequestsAssumption
<1> QED
    BY <1>5, <1>6, <1>7, <1>8, <1>9

(* Objects of a scratch space never overlap, what it says it can hold it   *)
(* holds, every batch that is planned for it fits, the ends of batches     *)
(* give back what they took, and nothing is in use when it is freed.       *)
THEOREM SpaceIsSafe == SpaceSpec => []SpaceHolds
<1>1. SpaceInit => SpaceIInv
    BY DEF SpaceInit, SpaceIInv
<1>2. SpaceIInv /\ [SpaceNext]_space => SpaceIInv'
    BY SpaceStepInv
<1>3. SpaceIInv => SpaceHolds
    BY SpaceInvHolds
<1> QED
    BY <1>1, <1>2, <1>3, PTL DEF SpaceSpec
=============================================================================
