-------------------------- MODULE Prevector_proofs --------------------------
(***************************************************************************)
(* prevector keeps the promise of std::vector, and every block of the heap *)
(* has one owner: for any number of objects, any capacity of the object    *)
(* itself, and any lengths that a size_type can count.                     *)
(***************************************************************************)
EXTENDS Prevector, FiniteSetTheorems, SequenceTheorems, TLAPS

vars == <<vec, heap, call>>

Spec == VectorInit /\ [][VectorNext]_vars
-----------------------------------------------------------------------------
(* An object and the heap, taken apart.                                    *)
Object(b, c, e, z) ==
    [union |-> [block |-> b, capacity |-> c, cells |-> e], size |-> z]

Placed(b, c, e, z, h) == [v |-> Object(b, c, e, z), h |-> h]

(* How many elements fit what _size can count.                             *)
Counts(n) == n \in Nat /\ N + 1 + n < SizeMod

(* The n elements of s are kept in f, of k cells, in the object or in a    *)
(* block of its own.                                                       *)
Shape(s, n, k, f) ==
    /\ Counts(n) /\ k \in Nat /\ n <= k /\ f \in [1 .. k -> Cell]
    /\ \E b, c, e, z, h :
          /\ b \in Nat /\ c \in Nat /\ e \in [1 .. N -> Cell] /\ z \in Nat
          /\ s = Placed(b, c, e, z, h)
          /\ \/ z = n /\ k = N /\ f = e
             \/ z = n + N + 1 /\ k = c /\ b \in DOMAIN h /\ h[b] = f

(* The block an object owns.                                               *)
Own(v) == IF IsDirect(v) THEN {} ELSE {v.union.block}

(* From s to r only the object's own block changed, was freed, or is new.  *)
Frame(s, r) ==
    /\ \A b : b \in DOMAIN r.h <=> (b \in DOMAIN s.h /\ b \notin Own(s.v)) \/ b \in Own(r.v)
    /\ \A b \in DOMAIN s.h : b \notin Own(s.v) => r.h[b] = s.h[b] /\ b \notin Own(r.v)

LEMMA FrameAgain ==
    ASSUME NEW s, NEW r, NEW t, Frame(s, r), Frame(r, t)
    PROVE  Frame(s, t)
BY DEF Frame

LEMMA NumbersAre ==
    ASSUME PrevectorAssumption
    PROVE  N \in Nat /\ SizeMod \in Nat /\ MaxLen \in Nat /\ MaxArg \in Nat
BY DEF PrevectorAssumption

LEMMA ShapeFacts ==
    ASSUME PrevectorAssumption, NEW s, NEW n, NEW k, NEW f, Shape(s, n, k, f)
    PROVE  /\ Size(s.v) = n /\ Capacity(s.v) = k /\ Cells(s) = f
           /\ Len(f) = k /\ f \in Seq(Cell)
           /\ Elements(s) = [i \in 1 .. n |-> f[i]]
           /\ IsDirect(s.v) => k = N
           /\ Own(s.v) \subseteq DOMAIN s.h
<1>1. N \in Nat
    BY NumbersAre
<1>2. n \in Nat /\ k \in Nat /\ n <= k /\ f \in [1 .. k -> Cell]
    BY DEF Shape, Counts
<1>3. PICK b, c, e, z, h :
        /\ b \in Nat /\ c \in Nat /\ e \in [1 .. N -> Cell] /\ z \in Nat
        /\ s = Placed(b, c, e, z, h)
        /\ \/ z = n /\ k = N /\ f = e
           \/ z = n + N + 1 /\ k = c /\ b \in DOMAIN h /\ h[b] = f
    BY DEF Shape
<1>4. /\ s.v = Object(b, c, e, z) /\ s.h = h
      /\ s.v.size = z /\ s.v.union.block = b /\ s.v.union.capacity = c /\ s.v.union.cells = e
    BY <1>3 DEF Placed, Object
<1>5. Len(f) = k /\ f \in Seq(Cell)
    BY <1>2
<1>6. Size(s.v) = n /\ Capacity(s.v) = k /\ Cells(s) = f
    <2>1. CASE z = n /\ k = N /\ f = e
        BY <1>1, <1>2, <1>4, <2>1 DEF Size, Capacity, Cells, IsDirect
    <2>2. CASE z = n + N + 1 /\ k = c /\ b \in DOMAIN h /\ h[b] = f
        BY <1>1, <1>2, <1>4, <2>2 DEF Size, Capacity, Cells, IsDirect
    <2> QED
        BY <1>3, <2>1, <2>2
<1>7. Elements(s) = [i \in 1 .. n |-> f[i]]
    BY <1>2, <1>5, <1>6 DEF Elements, Sized
<1>8. /\ IsDirect(s.v) => k = N
      /\ Own(s.v) \subseteq DOMAIN s.h
    BY <1>1, <1>2, <1>3, <1>4 DEF Own, IsDirect
<1> QED
    BY <1>5, <1>6, <1>7, <1>8

LEMMA GrownShape ==
    ASSUME PrevectorAssumption, NEW s, NEW n, NEW k, NEW f, Shape(s, n, k, f),
           NEW d \in Int, Counts(n + d), n + d <= k
    PROVE  /\ Shape(Grown(s, d), n + d, k, f) /\ Frame(s, Grown(s, d))
           /\ Grown(s, d).h = s.h
<1>1. N \in Nat /\ SizeMod \in Nat
    BY NumbersAre
<1>2. n \in Nat /\ k \in Nat /\ n + d \in Nat /\ N + 1 + (n + d) < SizeMod
      /\ f \in [1 .. k -> Cell]
    BY DEF Shape, Counts
<1>3. PICK b, c, e, z, h :
        /\ b \in Nat /\ c \in Nat /\ e \in [1 .. N -> Cell] /\ z \in Nat
        /\ s = Placed(b, c, e, z, h)
        /\ \/ z = n /\ k = N /\ f = e
           \/ z = n + N + 1 /\ k = c /\ b \in DOMAIN h /\ h[b] = f
    BY DEF Shape
<1>4. z + d \in 0 .. SizeMod - 1
    BY <1>1, <1>2, <1>3
<1>5. PICK y \in Nat : y = z + d
    BY <1>4
<1>6. (z + d) % SizeMod = y
    BY <1>1, <1>4, <1>5
<1>7. Grown(s, d) = Placed(b, c, e, y, h)
    <2>1. Grown(s, d) = [s EXCEPT !.v.size = (z + d) % SizeMod]
        BY <1>3 DEF Grown, Placed, Object
    <2> QED
        BY <1>3, <1>6, <2>1 DEF Placed, Object
<1>8. \/ y = n + d /\ k = N /\ f = e
      \/ y = (n + d) + N + 1 /\ k = c /\ b \in DOMAIN h /\ h[b] = f
    BY <1>1, <1>2, <1>3, <1>5
<1>9. Shape(Grown(s, d), n + d, k, f)
    BY <1>2, <1>3, <1>7, <1>8 DEF Shape
<1>10. /\ s.v.size = z /\ s.v.union.block = b /\ s.h = h
       /\ Grown(s, d).v.size = y /\ Grown(s, d).v.union.block = b /\ Grown(s, d).h = h
    BY <1>3, <1>7 DEF Placed, Object
<1>11. Own(s.v) = Own(Grown(s, d).v)
    <2>1. CASE z = n /\ k = N /\ f = e
        <3>1. z <= N /\ y <= N
            BY <1>1, <1>2, <1>5, <2>1 DEF Shape
        <3> QED
            BY <1>10, <3>1 DEF Own, IsDirect
    <2>2. CASE z = n + N + 1
        <3>1. ~(z <= N) /\ ~(y <= N)
            BY <1>1, <1>2, <1>5, <2>2
        <3> QED
            BY <1>10, <3>1 DEF Own, IsDirect
    <2> QED
        BY <1>3, <2>1, <2>2
<1>12. Own(s.v) \subseteq DOMAIN h
    BY <1>10, ShapeFacts
<1> QED
    BY <1>9, <1>10, <1>11, <1>12 DEF Frame

(* A write that fits changes the cells it is for and no others.            *)
Over(f, k, at, m, items) ==
    [i \in 1 .. k |-> IF i \in at + 1 .. at + m THEN items[i - at] ELSE f[i]]

LEMMA PutIs ==
    ASSUME NEW S, NEW k \in Nat, NEW f \in [1 .. k -> S],
           NEW m \in Nat, NEW items \in [1 .. m -> S],
           NEW at \in Nat, at + m <= k
    PROVE  Put(f, at, items) = Over(f, k, at, m, items)
           /\ Over(f, k, at, m, items) \in [1 .. k -> S]
<1>1. Len(f) = k /\ Len(items) = m
    OBVIOUS
<1>2. Max({k, at + m}) = k
    <2>1. /\ k \in {k, at + m} /\ \A y \in {k, at + m} : k >= y
          /\ \A x \in {k, at + m} : (\A y \in {k, at + m} : x >= y) => x = k
        OBVIOUS
    <2> QED
        BY <2>1 DEF Max
<1>3. Put(f, at, items) = Over(f, k, at, m, items)
    <2>1. Put(f, at, items)
          = [i \in 1 .. Max({k, at + m}) |->
                IF i \in at + 1 .. at + m THEN items[i - at]
                ELSE IF i <= k THEN f[i] ELSE Unwritten]
        BY <1>1 DEF Put
    <2>2. Put(f, at, items)
          = [i \in 1 .. k |->
                IF i \in at + 1 .. at + m THEN items[i - at]
                ELSE IF i <= k THEN f[i] ELSE Unwritten]
        BY <1>2, <2>1
    <2> QED
        BY <2>2 DEF Over
<1>4. ASSUME NEW i \in 1 .. k
      PROVE  (IF i \in at + 1 .. at + m THEN items[i - at] ELSE f[i]) \in S
    OBVIOUS
<1> QED
    BY <1>3, <1>4 DEF Over

LEMMA StoreShape ==
    ASSUME PrevectorAssumption, NEW s, NEW n, NEW k, NEW f, Shape(s, n, k, f),
           NEW m \in Nat, NEW items \in [1 .. m -> Cell],
           NEW at \in Nat, at + m <= k
    PROVE  /\ Shape(Store(s, at, items), n, k, Over(f, k, at, m, items))
           /\ Frame(s, Store(s, at, items))
           /\ DOMAIN Store(s, at, items).h = DOMAIN s.h
<1> DEFINE g == Over(f, k, at, m, items)
           r == Store(s, at, items)
<1>1. N \in Nat
    BY NumbersAre
<1>2. /\ Counts(n) /\ n \in Nat /\ k \in Nat /\ n <= k /\ f \in [1 .. k -> Cell]
    BY DEF Shape, Counts
<1>3. PICK b, c, e, z, h :
        /\ b \in Nat /\ c \in Nat /\ e \in [1 .. N -> Cell] /\ z \in Nat
        /\ s = Placed(b, c, e, z, h)
        /\ \/ z = n /\ k = N /\ f = e
           \/ z = n + N + 1 /\ k = c /\ b \in DOMAIN h /\ h[b] = f
    BY DEF Shape
<1>4. /\ s.v.size = z /\ s.v.union.block = b /\ s.h = h
    BY <1>3 DEF Placed, Object
<1>5. Put(Cells(s), at, items) = g /\ g \in [1 .. k -> Cell]
    <2>1. Cells(s) = f
        BY ShapeFacts
    <2>2. Put(f, at, items) = g /\ g \in [1 .. k -> Cell]
        BY <1>2, PutIs
    <2> QED
        BY <2>1, <2>2
<1> HIDE DEF g
<1>6. CASE z = n /\ k = N /\ f = e
    <2>1. IsDirect(s.v)
        BY <1>2, <1>4, <1>6 DEF IsDirect
    <2>2. r = [s EXCEPT !.v.union = Direct(g)]
        BY <1>5, <2>1 DEF Store
    <2>3. r = Placed(Null, 0, g, z, h)
        BY <1>3, <2>2 DEF Placed, Object, Direct
    <2>4. Shape(r, n, k, g)
        BY <1>2, <1>5, <1>6, <2>3 DEF Shape, Null
    <2>5. r.v.size = z /\ r.h = h
        BY <2>3 DEF Placed, Object
    <2>6. Own(s.v) = {} /\ Own(r.v) = {}
        BY <1>2, <1>4, <1>6, <2>5 DEF Own, IsDirect
    <2>7. Frame(s, r)
        BY <1>4, <2>5, <2>6 DEF Frame
    <2> QED
        BY <1>4, <2>4, <2>5, <2>7 DEF g
<1>7. CASE z = n + N + 1 /\ k = c /\ b \in DOMAIN h /\ h[b] = f
    <2>1. ~IsDirect(s.v)
        BY <1>1, <1>2, <1>4, <1>7 DEF IsDirect
    <2>2. r = [s EXCEPT !.h[b] = g]
        BY <1>4, <1>5, <2>1 DEF Store
    <2>3. r = Placed(b, c, e, z, [h EXCEPT ![b] = g])
        BY <1>3, <2>2 DEF Placed
    <2>4. PICK j : j = [h EXCEPT ![b] = g]
        OBVIOUS
    <2>5. DOMAIN j = DOMAIN h /\ j[b] = g /\ \A a \in DOMAIN h : a # b => j[a] = h[a]
        BY <1>7, <2>4
    <2>6. Shape(r, n, k, g)
        <3>1. r = Placed(b, c, e, z, j)
            BY <2>3, <2>4
        <3>2. z = n + N + 1 /\ k = c /\ b \in DOMAIN j /\ j[b] = g
            BY <1>7, <2>5
        <3> QED
            BY <1>2, <1>3, <1>5, <3>1, <3>2 DEF Shape
    <2>7. r.v.size = z /\ r.v.union.block = b /\ r.h = j
        BY <2>3, <2>4 DEF Placed, Object
    <2>8. Own(s.v) = {b} /\ Own(r.v) = {b}
        BY <1>1, <1>2, <1>4, <1>7, <2>7 DEF Own, IsDirect
    <2>9. Frame(s, r)
        BY <1>4, <1>7, <2>5, <2>7, <2>8 DEF Frame
    <2> QED
        BY <1>4, <2>5, <2>6, <2>7, <2>9 DEF g
<1> QED
    BY <1>3, <1>6, <1>7

(* A block is free: the choice change_capacity makes finds one.            *)
HasRoom(h) == \E b \in 1 .. Cardinality(Objects) + 1 : b \notin DOMAIN h

LEMMA CellsStay ==
    ASSUME NEW S, Unwritten \in S, NEW k \in Nat, NEW f \in [1 .. k -> S], NEW c \in Nat
    PROVE  /\ Sized(f, c) \in [1 .. c -> S] /\ Len(Sized(f, c)) = c
           /\ \A i \in 1 .. c : i <= k => Sized(f, c)[i] = f[i]
<1>1. Len(f) = k
    OBVIOUS
<1>2. Sized(f, c) = [i \in 1 .. c |-> IF i <= k THEN f[i] ELSE Unwritten]
    BY <1>1 DEF Sized
<1> QED
    BY <1>2

LEMMA ChangeShape ==
    ASSUME PrevectorAssumption, NEW s, NEW n, NEW k, NEW f, Shape(s, n, k, f),
           HasRoom(s.h), NEW c \in Nat, n <= c
    PROVE  /\ Frame(s, ChangeCapacity(s, c))
           /\ \E x, g : /\ x \in Nat
                        /\ Shape(ChangeCapacity(s, c), n, x, g) /\ c <= x
                        /\ \A i \in 1 .. n : g[i] = f[i]
<1> DEFINE r == ChangeCapacity(s, c)
<1>1. N \in Nat /\ SizeMod \in Nat
    BY NumbersAre
<1>2. /\ Counts(n) /\ n \in Nat /\ k \in Nat /\ n <= k /\ f \in [1 .. k -> Cell]
      /\ N + 1 + n < SizeMod
    BY DEF Shape, Counts
<1>3. PICK b, l, e, z, h :
        /\ b \in Nat /\ l \in Nat /\ e \in [1 .. N -> Cell] /\ z \in Nat
        /\ s = Placed(b, l, e, z, h)
        /\ \/ z = n /\ k = N /\ f = e
           \/ z = n + N + 1 /\ k = l /\ b \in DOMAIN h /\ h[b] = f
    BY DEF Shape
<1>4. /\ s.v.size = z /\ s.v.union.block = b /\ s.h = h
    BY <1>3 DEF Placed, Object
<1>5. Unwritten \in Cell
    BY DEF Cell
<1>6. PICK junk : junk = [i \in 1 .. N |-> Unwritten]
    OBVIOUS
<1>7. junk \in [1 .. N -> Cell]
    BY <1>5, <1>6
<1>8. PICK x : x = Elements(s)
    OBVIOUS
<1>9. x = [i \in 1 .. n |-> f[i]] /\ x \in [1 .. n -> Cell] /\ \A i \in 1 .. n : x[i] = f[i]
    BY <1>2, <1>8, ShapeFacts
<1>10. n \in Nat /\ x \in [1 .. n -> Cell]
    BY <1>2, <1>9
<1>11. CASE c <= N /\ z = n /\ k = N /\ f = e
    <2>1. IsDirect(s.v)
        BY <1>2, <1>4, <1>11 DEF IsDirect
    <2>2. r = s
        BY <1>11, <2>1 DEF ChangeCapacity
    <2>3. Frame(s, r)
        BY <2>2, ShapeFacts DEF Frame
    <2> QED
        BY <1>2, <1>11, <2>2, <2>3
<1>12. CASE c <= N /\ z = n + N + 1 /\ k = l /\ b \in DOMAIN h /\ h[b] = f
    <2>1. ~IsDirect(s.v)
        BY <1>1, <1>2, <1>4, <1>12 DEF IsDirect
    <2>2. PICK g : g = Put(junk, 0, x)
        OBVIOUS
    <2>3. g = Over(junk, N, 0, n, x) /\ g \in [1 .. N -> Cell]
        <3>1. 0 \in Nat /\ 0 + n <= N
            BY <1>1, <1>2, <1>12
        <3>2. /\ Put(junk, 0, x) = Over(junk, N, 0, n, x)
              /\ Over(junk, N, 0, n, x) \in [1 .. N -> Cell]
            BY <1>1, <1>7, <1>10, <3>1, PutIs
        <3> QED
            BY <2>2, <3>2
    <2>4. \A i \in 1 .. n : g[i] = f[i]
        BY <1>1, <1>2, <1>9, <1>12, <2>3 DEF Over
    <2>5. s.v.size - (N + 1) = n
        BY <1>1, <1>2, <1>4, <1>12
    <2>6. r = Placed(Null, 0, g, n, Free(h, b))
        BY <1>4, <1>6, <1>8, <1>12, <2>1, <2>2, <2>5 DEF ChangeCapacity, Direct, Placed, Object
    <2>7. n <= N
        BY <1>1, <1>2, <1>12
    <2>8. Shape(r, n, N, g)
        BY <1>1, <1>2, <2>3, <2>6, <2>7 DEF Shape, Null
    <2>9. r.v.size = n /\ r.h = Free(h, b)
        BY <2>6 DEF Placed, Object
    <2>10. Own(r.v) = {} /\ Own(s.v) = {b}
        BY <1>1, <1>2, <1>4, <1>12, <2>7, <2>9 DEF Own, IsDirect
    <2>11. Frame(s, r)
        BY <1>4, <2>9, <2>10 DEF Frame, Free
    <2> QED
        BY <1>1, <1>12, <2>4, <2>8, <2>11
<1>13. CASE ~(c <= N) /\ z = n + N + 1 /\ k = l /\ b \in DOMAIN h /\ h[b] = f
    <2>1. ~IsDirect(s.v)
        BY <1>1, <1>2, <1>4, <1>13 DEF IsDirect
    <2>2. PICK g : g = Sized(f, c)
        OBVIOUS
    <2>3. g \in [1 .. c -> Cell] /\ \A i \in 1 .. n : g[i] = f[i]
        BY <1>2, <1>5, <2>2, CellsStay
    <2>4. r = [s EXCEPT !.v.union = Indirect(b, c), !.h[b] = Sized(@, c)]
        BY <1>4, <1>13, <2>1 DEF ChangeCapacity
    <2>5. PICK j : j = [h EXCEPT ![b] = g]
        OBVIOUS
    <2>6. r = Placed(b, c, junk, z, j)
        <3>1. r = [v |-> [s.v EXCEPT !.union = Indirect(b, c)], h |-> [h EXCEPT ![b] = Sized(@, c)]]
            BY <1>3, <2>4 DEF Placed
        <3>2. [s.v EXCEPT !.union = Indirect(b, c)] = Object(b, c, junk, z)
            <4>1. s.v = Object(b, l, e, z)
                BY <1>3 DEF Placed
            <4>2. [s.v EXCEPT !.union = Indirect(b, c)]
                  = [union |-> Indirect(b, c), size |-> z]
                BY <4>1 DEF Object
            <4> QED
                BY <1>6, <4>2 DEF Object, Indirect
        <3>3. [h EXCEPT ![b] = Sized(@, c)] = j
            BY <1>13, <2>2, <2>5
        <3> QED
            BY <3>1, <3>2, <3>3 DEF Placed
    <2>7. DOMAIN j = DOMAIN h /\ j[b] = g /\ \A a \in DOMAIN h : a # b => j[a] = h[a]
        BY <1>13, <2>5
    <2>8. Shape(r, n, c, g)
        BY <1>2, <1>3, <1>7, <1>13, <2>3, <2>6, <2>7 DEF Shape
    <2>9. r.v.size = z /\ r.v.union.block = b /\ r.h = j
        BY <2>6 DEF Placed, Object
    <2>10. Own(s.v) = {b} /\ Own(r.v) = {b}
        BY <1>1, <1>2, <1>4, <1>13, <2>9 DEF Own, IsDirect
    <2>11. Frame(s, r)
        BY <1>4, <1>13, <2>7, <2>9, <2>10 DEF Frame
    <2> QED
        BY <2>3, <2>8, <2>11
<1>14. CASE ~(c <= N) /\ z = n /\ k = N /\ f = e
    <2>1. IsDirect(s.v)
        BY <1>2, <1>4, <1>14 DEF IsDirect
    <2>2. PICK a : a = CHOOSE q \in 1 .. Cardinality(Objects) + 1 : q \notin DOMAIN h
        OBVIOUS
    <2>3. a \in Nat /\ a \notin DOMAIN h
        <3>1. a \in 1 .. Cardinality(Objects) + 1 /\ a \notin DOMAIN h
            BY <1>4, <2>2 DEF HasRoom
        <3> QED
            BY <3>1
    <2>4. PICK g : g = Sized(x, c)
        OBVIOUS
    <2>5. g \in [1 .. c -> Cell] /\ \A i \in 1 .. n : g[i] = f[i]
        <3>1. /\ Sized(x, c) \in [1 .. c -> Cell]
              /\ \A i \in 1 .. c : i <= n => Sized(x, c)[i] = x[i]
            BY <1>5, <1>10, CellsStay
        <3>2. ASSUME NEW i \in 1 .. n PROVE g[i] = f[i]
            <4>1. i \in 1 .. c /\ i <= n
                BY <1>2
            <4> QED
                BY <1>9, <2>4, <3>1, <4>1
        <3> QED
            BY <2>4, <3>1, <3>2
    <2>6. PICK j : j = Allocate(h, a, g)
        OBVIOUS
    <2>7. DOMAIN j = DOMAIN h \cup {a} /\ j[a] = g /\ \A q \in DOMAIN h : q # a => j[q] = h[q]
        BY <2>3, <2>6 DEF Allocate
    <2>8. PICK y \in Nat : y = n + N + 1
        BY <1>1, <1>2
    <2>9. (n + (N + 1)) % SizeMod = y
        BY <1>1, <1>2, <2>8
    <2>10. r = Placed(a, c, junk, y, j)
        <3>1. r = Grown([v |-> [s.v EXCEPT !.union = Indirect(a, c)], h |-> j], N + 1)
            BY <1>4, <1>8, <1>14, <2>1, <2>2, <2>4, <2>6 DEF ChangeCapacity
        <3>2. [s.v EXCEPT !.union = Indirect(a, c)] = Object(a, c, junk, n)
            <4>1. s.v = Object(b, l, e, n)
                BY <1>3, <1>14 DEF Placed
            <4>2. [s.v EXCEPT !.union = Indirect(a, c)]
                  = [union |-> Indirect(a, c), size |-> n]
                BY <4>1 DEF Object
            <4> QED
                BY <1>6, <4>2 DEF Object, Indirect
        <3> QED
            BY <2>9, <3>1, <3>2 DEF Grown, Object, Placed
    <2>11. Shape(r, n, c, g)
        BY <1>2, <1>7, <1>14, <2>3, <2>5, <2>7, <2>8, <2>10 DEF Shape
    <2>12. r.v.size = y /\ r.v.union.block = a /\ r.h = j
        BY <2>10 DEF Placed, Object
    <2>13. Own(s.v) = {} /\ Own(r.v) = {a}
        BY <1>1, <1>2, <1>4, <1>14, <2>8, <2>12 DEF Own, IsDirect
    <2>14. Frame(s, r)
        BY <1>4, <2>3, <2>7, <2>12, <2>13 DEF Frame
    <2> QED
        BY <2>5, <2>11, <2>14
<1> QED
    BY <1>3, <1>11, <1>12, <1>13, <1>14
-----------------------------------------------------------------------------
(* From s to r only what is s's own changed, and r has n elements, those   *)
(* of g.                                                                   *)
Gives(s, r, n, g) ==
    /\ Frame(s, r)
    /\ \E k, f : Shape(r, n, k, f) /\ \A i \in 1 .. n : f[i] = g[i]

LEMMA GivesElements ==
    ASSUME PrevectorAssumption, NEW s, NEW r, NEW n \in Nat, NEW g,
           Gives(s, r, n, g), g = [i \in 1 .. n |-> g[i]]
    PROVE  Elements(r) = g /\ g \in [1 .. n -> Cell]
<1>1. PICK k, f : Shape(r, n, k, f) /\ \A i \in 1 .. n : f[i] = g[i]
    BY DEF Gives
<1>2. Elements(r) = [i \in 1 .. n |-> f[i]]
    BY <1>1, ShapeFacts
<1>3. n \in Nat /\ k \in Nat /\ n <= k /\ f \in [1 .. k -> Cell]
    BY <1>1 DEF Shape
<1>4. Elements(r) = g
    BY <1>1, <1>2
<1> QED
    BY <1>2, <1>3, <1>4

LEMMA RoomShape ==
    ASSUME PrevectorAssumption, NEW s, NEW n, NEW k, NEW f, Shape(s, n, k, f),
           HasRoom(s.h), NEW c \in Nat
    PROVE  /\ Frame(s, Room(s, c))
           /\ \E x, g : /\ x \in Nat
                        /\ Shape(Room(s, c), n, x, g) /\ c <= x
                        /\ \A i \in 1 .. n : g[i] = f[i]
<1>1. n \in Nat /\ k \in Nat /\ n <= k
    BY DEF Shape, Counts
<1>2. Capacity(s.v) = k
    BY ShapeFacts
<1>3. CASE k < c
    <2>1. Room(s, c) = ChangeCapacity(s, c) /\ n <= c
        BY <1>1, <1>2, <1>3 DEF Room
    <2> QED
        BY <2>1, ChangeShape
<1>4. CASE ~(k < c)
    <2>1. Room(s, c) = s /\ c <= k
        BY <1>1, <1>2, <1>4 DEF Room
    <2>2. Frame(s, s)
        BY ShapeFacts DEF Frame
    <2> QED
        BY <1>1, <2>1, <2>2
<1> QED
    BY <1>3, <1>4

LEMMA GrowthShape ==
    ASSUME PrevectorAssumption, NEW s, NEW n, NEW k, NEW f, Shape(s, n, k, f),
           HasRoom(s.h), NEW m \in Nat, n + m <= MaxLen
    PROVE  /\ Frame(s, GrowthRoom(s, m))
           /\ \E x, g : /\ x \in Nat
                        /\ Shape(GrowthRoom(s, m), n, x, g) /\ n + m <= x
                        /\ \A i \in 1 .. n : g[i] = f[i]
<1>1. n \in Nat /\ k \in Nat /\ n <= k
    BY DEF Shape, Counts
<1>2. Size(s.v) = n /\ Capacity(s.v) = k
    BY ShapeFacts
<1>3. /\ MaxLen \in Nat /\ SizeMod \in Nat /\ N \in Nat
      /\ N + 1 + MaxLen < SizeMod /\ MaxLen + (MaxLen \div 2) < SizeMod
    BY DEF PrevectorAssumption
<1>4. PICK q \in Nat : q = n + m
    BY <1>1
<1>5. (n + m) % SizeMod = q
    BY <1>1, <1>3, <1>4
<1>6. PICK c \in Nat : c = q + (q \div 2)
    BY <1>4
<1>7. q <= c /\ c < SizeMod
    <2>1. q <= MaxLen
        BY <1>4
    <2> QED
        BY <1>3, <1>6, <2>1
<1>8. c % SizeMod = c
    BY <1>3, <1>7
<1>9. CASE k < q
    <2>1. GrowthRoom(s, m) = ChangeCapacity(s, c)
        BY <1>2, <1>5, <1>6, <1>8, <1>9 DEF GrowthRoom
    <2>2. n <= c
        BY <1>1, <1>4, <1>7
    <2>3. PICK x, g : /\ x \in Nat
                      /\ Shape(ChangeCapacity(s, c), n, x, g) /\ c <= x
                      /\ \A i \in 1 .. n : g[i] = f[i]
        BY <2>2, ChangeShape
    <2>4. Frame(s, ChangeCapacity(s, c))
        BY <2>2, ChangeShape
    <2>5. n + m <= x
        BY <1>1, <1>4, <1>7, <2>3
    <2> QED
        BY <2>1, <2>3, <2>4, <2>5
<1>10. CASE ~(k < q)
    <2>1. GrowthRoom(s, m) = s
        BY <1>2, <1>5, <1>10 DEF GrowthRoom
    <2>2. Frame(s, s)
        BY ShapeFacts DEF Frame
    <2>3. n + m <= k
        BY <1>1, <1>4, <1>10
    <2> QED
        BY <1>1, <2>1, <2>2, <2>3
<1> QED
    BY <1>9, <1>10

(* The m elements of s from at + 1 on.                                     *)
Behind(at, m, n) == at + m = n

TailOf(s, at, n) == SubSeq(Elements(s), at + 1, n)

LEMMA TailCells ==
    ASSUME PrevectorAssumption, NEW s, NEW n, NEW k, NEW f, Shape(s, n, k, f),
           NEW at \in Nat, NEW m \in Nat, Behind(at, m, n)
    PROVE  TailOf(s, at, n) = [i \in 1 .. m |-> f[at + i]]
<1>1. n \in Nat /\ k \in Nat /\ n <= k /\ f \in [1 .. k -> Cell]
    BY DEF Shape, Counts
<1>2. Elements(s) = [i \in 1 .. n |-> f[i]]
    BY ShapeFacts
<1>3. PICK x : x = Elements(s)
    OBVIOUS
<1>4. x \in [1 .. n -> Cell] /\ \A i \in 1 .. n : x[i] = f[i]
    BY <1>1, <1>2, <1>3
<1>5. x \in Seq(Cell) /\ Len(x) = n
    BY <1>1, <1>4
<1>6. SubSeq(x, at + 1, n) = [i \in 1 .. m |-> x[at + i]]
    BY <1>1, <1>5 DEF Behind
<1>7. ASSUME NEW i \in 1 .. m
      PROVE  at + i \in 1 .. n
    BY <1>1 DEF Behind
<1> QED
    BY <1>3, <1>4, <1>6, <1>7 DEF TailOf

LEMMA EraseShape ==
    ASSUME PrevectorAssumption, NEW s, NEW n, NEW k, NEW f, Shape(s, n, k, f),
           NEW at \in Nat, NEW d \in Nat, NEW u \in Nat, at <= u, u + d = n
    PROVE  /\ Gives(s, Erase(s, at, d), u,
                    [i \in 1 .. u |-> IF i <= at THEN f[i] ELSE f[i + d]])
           /\ DOMAIN Erase(s, at, d).h = DOMAIN s.h
<1>1. /\ n \in Nat /\ k \in Nat /\ n <= k /\ N + 1 + n < SizeMod
      /\ f \in [1 .. k -> Cell]
    BY DEF Shape, Counts
<1>2. N \in Nat /\ SizeMod \in Nat
    BY NumbersAre
<1>3. Size(s.v) = n
    BY ShapeFacts
<1>4. PICK p \in Nat : p = at + d
    OBVIOUS
<1>5. PICK m \in Nat : m = n - p
    BY <1>1, <1>4
<1>6. PICK t : t = SubSeq(Elements(s), p + 1, n)
    OBVIOUS
<1>7. t \in [1 .. m -> Cell] /\ \A i \in 1 .. m : t[i] = f[p + i]
    <2>1. p + m = n
        BY <1>1, <1>5
    <2>2. Behind(p, m, n)
        BY <2>1 DEF Behind
    <2>3. TailOf(s, p, n) = [i \in 1 .. m |-> f[p + i]]
        BY <2>2, TailCells
    <2>4. ASSUME NEW i \in 1 .. m PROVE p + i \in 1 .. k
        BY <1>1, <2>1
    <2> QED
        BY <1>1, <1>6, <2>3, <2>4 DEF TailOf
<1>8. at + m <= k
    BY <1>1, <1>4, <1>5
<1>9. PICK w : w = Store(s, at, t)
    OBVIOUS
<1>10. PICK g : g = Over(f, k, at, m, t)
    OBVIOUS
<1>11. Shape(w, n, k, g) /\ Frame(s, w) /\ DOMAIN w.h = DOMAIN s.h
    <2>1. /\ Shape(Store(s, at, t), n, k, Over(f, k, at, m, t))
          /\ Frame(s, Store(s, at, t)) /\ DOMAIN Store(s, at, t).h = DOMAIN s.h
        BY <1>7, <1>8, StoreShape
    <2> QED
        BY <1>9, <1>10, <2>1
<1>12. PICK r : r = Grown(w, -d)
    OBVIOUS
<1>13. Erase(s, at, d) = r
    BY <1>3, <1>4, <1>6, <1>9, <1>12 DEF Erase
<1>14. u = n - d
    BY <1>1
<1>15. Shape(r, u, k, g) /\ Frame(w, r) /\ r.h = w.h
    <2>1. -d \in Int /\ n + (-d) = u
        BY <1>1, <1>14
    <2>2. Counts(u) /\ u <= k
        BY <1>1, <1>2, <1>14 DEF Counts
    <2> QED
        BY <1>11, <1>12, <2>1, <2>2, GrownShape
<1>16. Frame(s, r)
    BY <1>11, <1>15, FrameAgain
<1>17. ASSUME NEW i \in 1 .. u
       PROVE  g[i] = IF i <= at THEN f[i] ELSE f[i + d]
    <2>1. i \in 1 .. k
        BY <1>1, <1>14
    <2>2. g[i] = IF i \in at + 1 .. at + m THEN t[i - at] ELSE f[i]
        BY <1>10, <2>1 DEF Over
    <2>3. CASE i <= at
        BY <2>2, <2>3
    <2>4. CASE ~(i <= at)
        <3>1. i - at \in 1 .. m /\ p + (i - at) = i + d /\ i \in at + 1 .. at + m
            BY <1>1, <1>4, <1>5, <1>14, <2>4
        <3> QED
            BY <1>7, <2>2, <2>4, <3>1
    <2> QED
        BY <2>3, <2>4
<1>18. Gives(s, r, u, [i \in 1 .. u |-> IF i <= at THEN f[i] ELSE f[i + d]])
    BY <1>15, <1>16, <1>17 DEF Gives
<1> QED
    BY <1>11, <1>13, <1>14, <1>15, <1>18

LEMMA ClearShape ==
    ASSUME PrevectorAssumption, NEW s, NEW n, NEW k, NEW f, Shape(s, n, k, f)
    PROVE  /\ Frame(s, Clear(s)) /\ \E x, g : Shape(Clear(s), 0, x, g)
           /\ DOMAIN Clear(s).h = DOMAIN s.h
<1>1. n \in Nat
    BY DEF Shape, Counts
<1>2. Size(s.v) = n
    BY ShapeFacts
<1>3. CASE n = 0
    <2>1. Clear(s) = s
        BY <1>2, <1>3 DEF Clear
    <2>2. Frame(s, s)
        BY ShapeFacts DEF Frame
    <2> QED
        BY <1>3, <2>1, <2>2
<1>4. CASE n # 0
    <2>1. Clear(s) = Erase(s, 0, n)
        BY <1>2, <1>4 DEF Clear
    <2>2. PICK o \in Nat : o = 0
        OBVIOUS
    <2>3. o <= o /\ o + n = n
        BY <1>1, <2>2
    <2>4. /\ Gives(s, Erase(s, o, n), o,
                    [i \in 1 .. o |-> IF i <= o THEN f[i] ELSE f[i + n]])
          /\ DOMAIN Erase(s, o, n).h = DOMAIN s.h
        BY <1>1, <2>3, EraseShape
    <2> QED
        BY <2>1, <2>2, <2>4 DEF Gives
<1> QED
    BY <1>3, <1>4

(* Elements counted in and then written over all there were.               *)
LEMMA FillShape ==
    ASSUME PrevectorAssumption, NEW s, NEW k, NEW f, Shape(s, 0, k, f),
           NEW m \in Nat, Counts(m), m <= k, NEW items \in [1 .. m -> Cell]
    PROVE  Gives(s, Store(Grown(s, m), 0, items), m, items)
<1>1. k \in Nat
    BY DEF Shape
<1>2. PICK g : g = Grown(s, m)
    OBVIOUS
<1>3. Shape(g, m, k, f) /\ Frame(s, g)
    <2>1. m \in Int /\ 0 + m = m
        OBVIOUS
    <2> QED
        BY <1>2, <2>1, GrownShape
<1>4. PICK r : r = Store(g, 0, items)
    OBVIOUS
<1>5. Shape(r, m, k, Over(f, k, 0, m, items)) /\ Frame(g, r)
    <2>1. 0 \in Nat /\ 0 + m <= k
        OBVIOUS
    <2> QED
        BY <1>3, <1>4, <2>1, StoreShape
<1>6. ASSUME NEW i \in 1 .. m
      PROVE  Over(f, k, 0, m, items)[i] = items[i]
    BY <1>1 DEF Over
<1>7. Frame(s, r)
    BY <1>3, <1>5, FrameAgain
<1> QED
    BY <1>2, <1>4, <1>5, <1>6, <1>7 DEF Gives

LEMMA AssignShape ==
    ASSUME PrevectorAssumption, NEW s, NEW n, NEW k, NEW f, Shape(s, n, k, f),
           HasRoom(s.h), NEW m \in Nat, Counts(m), NEW items \in [1 .. m -> Cell]
    PROVE  Gives(s, Assign(s, items), m, items)
<1>1. Len(items) = m
    OBVIOUS
<1>2. PICK e : e = Clear(s)
    OBVIOUS
<1>3. PICK x, g : Frame(s, e) /\ Shape(e, 0, x, g) /\ DOMAIN e.h = DOMAIN s.h
    BY <1>2, ClearShape
<1>4. HasRoom(e.h)
    BY <1>3 DEF HasRoom
<1>5. PICK w : w = Room(e, m)
    OBVIOUS
<1>6. PICK y, l : /\ y \in Nat
                  /\ Frame(e, w) /\ Shape(w, 0, y, l) /\ m <= y
    BY <1>3, <1>4, <1>5, RoomShape
<1>7. Gives(w, Store(Grown(w, m), 0, items), m, items)
    BY <1>6, FillShape
<1>8. Assign(s, items) = Store(Grown(w, m), 0, items)
    BY <1>1, <1>2, <1>5 DEF Assign
<1>9. PICK r : r = Store(Grown(w, m), 0, items)
    OBVIOUS
<1>10. Frame(s, r)
    BY <1>3, <1>6, <1>7, <1>9, FrameAgain DEF Gives
<1> QED
    BY <1>7, <1>8, <1>9, <1>10 DEF Gives

LEMMA LongerShape ==
    ASSUME PrevectorAssumption, NEW s, NEW n, NEW k, NEW f, Shape(s, n, k, f),
           HasRoom(s.h), NEW d \in Nat, NEW l \in Nat, n + d = l, Counts(l)
    PROVE  Gives(s, Grown(Store(Room(s, l), n, [i \in 1 .. d |-> Default]), d), l,
                 [i \in 1 .. l |-> IF i <= n THEN f[i] ELSE Default])
<1>1. n \in Nat
    BY DEF Shape, Counts
<1>2. PICK r : r = Room(s, l)
    OBVIOUS
<1>3. PICK x, g : /\ x \in Nat
                  /\ Frame(s, r) /\ Shape(r, n, x, g) /\ l <= x
                  /\ \A i \in 1 .. n : g[i] = f[i]
    BY <1>2, RoomShape
<1>4. PICK t : t = [i \in 1 .. d |-> Default]
    OBVIOUS
<1>5. t \in [1 .. d -> Cell] /\ \A i \in 1 .. d : t[i] = Default
    BY <1>4 DEF Cell
<1>6. n + d <= x
    BY <1>3
<1>7. PICK w : w = Store(r, n, t)
    OBVIOUS
<1>8. PICK o : o = Over(g, x, n, d, t)
    OBVIOUS
<1>9. Shape(w, n, x, o) /\ Frame(r, w)
    <2>1. Shape(Store(r, n, t), n, x, Over(g, x, n, d, t)) /\ Frame(r, Store(r, n, t))
        BY <1>1, <1>3, <1>5, <1>6, StoreShape
    <2> QED
        BY <1>7, <1>8, <2>1
<1>10. PICK z : z = Grown(w, d)
    OBVIOUS
<1>11. Shape(z, l, x, o) /\ Frame(w, z)
    <2>1. d \in Int /\ Counts(n + d) /\ n + d = l
        OBVIOUS
    <2> QED
        BY <1>6, <1>9, <1>10, <2>1, GrownShape
<1>12. Frame(s, z)
    BY <1>3, <1>9, <1>11, FrameAgain
<1>13. ASSUME NEW i \in 1 .. l
       PROVE  o[i] = IF i <= n THEN f[i] ELSE Default
    <2>1. o[i] = IF i \in n + 1 .. n + d THEN t[i - n] ELSE g[i]
        BY <1>3, <1>8 DEF Over
    <2>2. CASE i <= n
        BY <1>1, <1>3, <2>1, <2>2
    <2>3. CASE ~(i <= n)
        <3>1. i \in n + 1 .. n + d /\ i - n \in 1 .. d
            BY <1>1, <2>3
        <3> QED
            BY <1>5, <2>1, <2>3, <3>1
    <2> QED
        BY <2>2, <2>3
<1>14. Gives(s, z, l, [i \in 1 .. l |-> IF i <= n THEN f[i] ELSE Default])
    BY <1>11, <1>12, <1>13 DEF Gives
<1> QED
    BY <1>2, <1>4, <1>7, <1>10, <1>14

LEMMA ResizeShape ==
    ASSUME PrevectorAssumption, NEW s, NEW n, NEW k, NEW f, Shape(s, n, k, f),
           HasRoom(s.h), NEW l \in Nat, Counts(l)
    PROVE  Gives(s, Resize(s, l), l, [i \in 1 .. l |-> IF i <= n THEN f[i] ELSE Default])
<1>1. n \in Nat
    BY DEF Shape, Counts
<1>2. Size(s.v) = n
    BY ShapeFacts
<1>3. CASE l <= n
    <2>1. PICK d \in Nat : d = n - l
        BY <1>1, <1>3
    <2>2. Resize(s, l) = Erase(s, l, d)
        BY <1>2, <1>3, <2>1 DEF Resize
    <2>3. l <= l /\ l + d = n
        BY <1>1, <2>1
    <2>4. Gives(s, Erase(s, l, d), l, [i \in 1 .. l |-> IF i <= l THEN f[i] ELSE f[i + d]])
        BY <2>3, EraseShape
    <2>5. [i \in 1 .. l |-> IF i <= l THEN f[i] ELSE f[i + d]]
          = [i \in 1 .. l |-> IF i <= n THEN f[i] ELSE Default]
        BY <1>1, <1>3
    <2> QED
        BY <2>2, <2>4, <2>5
<1>4. CASE ~(l <= n)
    <2>1. PICK d \in Nat : d = l - n
        BY <1>1, <1>4
    <2>2. Resize(s, l) = Grown(Store(Room(s, l), n, [i \in 1 .. d |-> Default]), d)
        BY <1>2, <1>4, <2>1 DEF Resize
    <2>3. n + d = l
        BY <1>1, <2>1
    <2> QED
        BY <2>2, <2>3, LongerShape
<1> QED
    BY <1>3, <1>4

(* The elements added have whatever the storage holds.                     *)
LEMMA ResizeUninitializedShape ==
    ASSUME PrevectorAssumption, NEW s, NEW n, NEW k, NEW f, Shape(s, n, k, f),
           HasRoom(s.h), NEW l \in Nat, Counts(l)
    PROVE  \E g : /\ Gives(s, ResizeUninitialized(s, l), l, g)
                  /\ \A i \in 1 .. l : i <= n => g[i] = f[i]
<1>1. n \in Nat
    BY DEF Shape, Counts
<1>2. Size(s.v) = n
    BY ShapeFacts
<1>3. CASE l < n
    <2>1. PICK d \in Nat : d = n - l
        BY <1>1, <1>3
    <2>2. ResizeUninitialized(s, l) = Erase(s, l, d)
        BY <1>2, <1>3, <2>1 DEF ResizeUninitialized
    <2>3. l <= l /\ l + d = n
        BY <1>1, <2>1
    <2>4. PICK g : g = [i \in 1 .. l |-> IF i <= l THEN f[i] ELSE f[i + d]]
        OBVIOUS
    <2>5. Gives(s, Erase(s, l, d), l, [i \in 1 .. l |-> IF i <= l THEN f[i] ELSE f[i + d]])
        BY <2>3, EraseShape
    <2>6. \A i \in 1 .. l : g[i] = f[i]
        BY <2>4
    <2> QED
        BY <2>2, <2>4, <2>5, <2>6
<1>4. CASE ~(l < n)
    <2>1. PICK d \in Nat : d = l - n
        BY <1>1, <1>4
    <2>2. PICK r : r = Room(s, l)
        OBVIOUS
    <2>3. PICK x, g : /\ x \in Nat
                      /\ Frame(s, r) /\ Shape(r, n, x, g) /\ l <= x
                      /\ \A i \in 1 .. n : g[i] = f[i]
        BY <2>2, RoomShape
    <2>4. PICK z : z = Grown(r, d)
        OBVIOUS
    <2>5. ResizeUninitialized(s, l) = z
        BY <1>2, <1>4, <2>1, <2>2, <2>4 DEF ResizeUninitialized
    <2>6. Shape(z, l, x, g) /\ Frame(r, z)
        <3>1. d \in Int /\ n + d = l
            BY <1>1, <2>1
        <3>2. Counts(n + d) /\ n + d <= x
            BY <2>3, <3>1
        <3> QED
            BY <2>3, <2>4, <3>1, <3>2, GrownShape
    <2>7. Frame(s, z)
        BY <2>3, <2>6, FrameAgain
    <2>8. Gives(s, z, l, g)
        BY <2>6, <2>7 DEF Gives
    <2>9. ASSUME NEW i \in 1 .. l, i <= n PROVE g[i] = f[i]
        BY <1>1, <2>3, <2>9
    <2> QED
        BY <2>5, <2>8, <2>9
<1> QED
    BY <1>3, <1>4

LEMMA InsertShape ==
    ASSUME PrevectorAssumption, NEW s, NEW n, NEW k, NEW f, Shape(s, n, k, f),
           HasRoom(s.h), NEW at \in Nat, NEW q \in Nat, Behind(at, q, n),
           NEW m \in Nat, NEW items \in [1 .. m -> Cell],
           NEW l \in Nat, Behind(n, m, l), l <= MaxLen
    PROVE  Gives(s, Insert(s, at, items), l,
                 [i \in 1 .. l |-> IF i <= at THEN f[i]
                                   ELSE IF i <= at + m THEN items[i - at] ELSE f[i - m]])
<1> USE DEF Behind
<1>1. n \in Nat /\ Len(items) = m
    BY DEF Shape, Counts
<1>2. PICK r : r = GrowthRoom(s, m)
    OBVIOUS
<1>3. PICK x, g : /\ x \in Nat
                  /\ Frame(s, r) /\ Shape(r, n, x, g) /\ n + m <= x
                  /\ \A i \in 1 .. n : g[i] = f[i]
    <2>1. n + m <= MaxLen
        OBVIOUS
    <2> QED
        BY <1>2, <2>1, GrowthShape
<1>4. n <= x /\ l <= x /\ g \in [1 .. x -> Cell] /\ Size(r.v) = n
    <2>1. Size(r.v) = n
        BY <1>3, ShapeFacts
    <2>2. n <= x /\ g \in [1 .. x -> Cell]
        BY <1>3 DEF Shape
    <2> QED
        BY <1>1, <1>3, <2>1, <2>2
<1>5. PICK t : t = SubSeq(Elements(r), at + 1, n)
    OBVIOUS
<1>6. t = [i \in 1 .. q |-> g[at + i]]
    <2>1. Shape(r, n, x, g) /\ Behind(at, q, n)
        BY <1>3 DEF Behind
    <2> HIDE DEF Behind
    <2>2. TailOf(r, at, n) = [i \in 1 .. q |-> g[at + i]]
        BY <2>1, TailCells
    <2> QED
        BY <1>5, <2>2 DEF TailOf
<1>7. t \in [1 .. q -> Cell] /\ \A i \in 1 .. q : t[i] = f[at + i]
    <2>1. ASSUME NEW i \in 1 .. q PROVE at + i \in 1 .. n /\ at + i \in 1 .. x
        BY <1>1, <1>3, <1>4
    <2> QED
        BY <1>3, <1>4, <1>6, <2>1
<1>8. PICK p \in Nat : p = at + m
    OBVIOUS
<1>9. PICK w : w = Store(r, p, t)
    OBVIOUS
<1>10. PICK o : o = Over(g, x, p, q, t)
    OBVIOUS
<1>11. Shape(w, n, x, o) /\ Frame(r, w)
    <2>1. p + q <= x
        BY <1>1, <1>3, <1>8
    <2>2. Shape(Store(r, p, t), n, x, Over(g, x, p, q, t)) /\ Frame(r, Store(r, p, t))
        BY <1>3, <1>7, <2>1, StoreShape
    <2> QED
        BY <1>9, <1>10, <2>2
<1>12. PICK y : y = Grown(w, m)
    OBVIOUS
<1>13. Shape(y, l, x, o) /\ Frame(w, y)
    <2>1. m \in Int /\ n + m = l /\ n + m <= x
        BY <1>3
    <2>2. Counts(n + m)
        <3>1. N \in Nat /\ MaxLen \in Nat /\ SizeMod \in Nat /\ N + 1 + MaxLen < SizeMod
            BY DEF PrevectorAssumption
        <3> QED
            BY <2>1, <3>1 DEF Counts
    <2> QED
        BY <1>11, <1>12, <2>1, <2>2, GrownShape
<1>14. PICK z : z = Store(y, at, items)
    OBVIOUS
<1>15. PICK u : u = Over(o, x, at, m, items)
    OBVIOUS
<1>16. Shape(z, l, x, u) /\ Frame(y, z)
    <2>1. at + m <= x
        BY <1>1, <1>3
    <2>2. /\ Shape(Store(y, at, items), l, x, Over(o, x, at, m, items))
          /\ Frame(y, Store(y, at, items))
        BY <1>13, <2>1, StoreShape
    <2> QED
        BY <1>14, <1>15, <2>2
<1>17. Insert(s, at, items) = z
    BY <1>1, <1>2, <1>4, <1>5, <1>8, <1>9, <1>12, <1>14 DEF Insert
<1>18. Frame(s, z)
    BY <1>3, <1>11, <1>13, <1>16, FrameAgain
<1>19. ASSUME NEW i \in 1 .. l
       PROVE  u[i] = IF i <= at THEN f[i]
                     ELSE IF i <= at + m THEN items[i - at] ELSE f[i - m]
    <2>1. i \in 1 .. x
        BY <1>3, <1>4
    <2>2. u[i] = IF i \in at + 1 .. at + m THEN items[i - at] ELSE o[i]
        BY <1>15, <2>1 DEF Over
    <2>3. o[i] = IF i \in p + 1 .. p + q THEN t[i - p] ELSE g[i]
        BY <1>10, <2>1 DEF Over
    <2>4. CASE i <= at
        <3>1. i \in 1 .. n /\ i \notin at + 1 .. at + m /\ i \notin p + 1 .. p + q
            BY <1>1, <1>8, <2>4
        <3> QED
            BY <1>3, <2>2, <2>3, <2>4, <3>1
    <2>5. CASE ~(i <= at) /\ i <= at + m
        BY <2>2, <2>5
    <2>6. CASE ~(i <= at) /\ ~(i <= at + m)
        <3>1. /\ i \notin at + 1 .. at + m /\ i \in p + 1 .. p + q /\ i - p \in 1 .. q
              /\ at + (i - p) = i - m
            BY <1>1, <1>8, <2>6
        <3> QED
            BY <1>7, <2>2, <2>3, <2>6, <3>1
    <2> QED
        BY <2>4, <2>5, <2>6
<1> QED
    BY <1>16, <1>17, <1>18, <1>19 DEF Gives

LEMMA EmplaceBackShape ==
    ASSUME PrevectorAssumption, NEW s, NEW n, NEW k, NEW f, Shape(s, n, k, f),
           HasRoom(s.h), NEW item \in Cell, n < MaxLen
    PROVE  Gives(s, EmplaceBack(s, item), n + 1,
                 [i \in 1 .. n + 1 |-> IF i <= n THEN f[i] ELSE item])
<1>1. n \in Nat
    BY DEF Shape, Counts
<1>2. PICK one \in Nat : one = 1
    OBVIOUS
<1>3. PICK r : r = GrowthRoom(s, one)
    OBVIOUS
<1>4. MaxLen \in Nat /\ N \in Nat /\ SizeMod \in Nat /\ N + 1 + MaxLen < SizeMod
    BY DEF PrevectorAssumption
<1>5. PICK x, g : /\ x \in Nat
                  /\ Frame(s, r) /\ Shape(r, n, x, g) /\ n + one <= x
                  /\ \A i \in 1 .. n : g[i] = f[i]
    <2>1. n + one <= MaxLen
        BY <1>1, <1>2, <1>4
    <2> QED
        BY <1>3, <2>1, GrowthShape
<1>6. PICK t : t = <<item>>
    OBVIOUS
<1>7. t \in [1 .. one -> Cell] /\ t[1] = item
    BY <1>2, <1>6
<1>8. PICK w : w = Store(r, n, t)
    OBVIOUS
<1>9. PICK o : o = Over(g, x, n, one, t)
    OBVIOUS
<1>10. Shape(w, n, x, o) /\ Frame(r, w)
    <2>1. Shape(Store(r, n, t), n, x, Over(g, x, n, one, t)) /\ Frame(r, Store(r, n, t))
        BY <1>1, <1>5, <1>7, StoreShape
    <2> QED
        BY <1>8, <1>9, <2>1
<1>11. PICK z : z = Grown(w, one)
    OBVIOUS
<1>12. Shape(z, n + one, x, o) /\ Frame(w, z)
    <2>1. one \in Int /\ Counts(n + one)
        BY <1>1, <1>2, <1>4 DEF Counts
    <2> QED
        BY <1>5, <1>10, <1>11, <2>1, GrownShape
<1>13. EmplaceBack(s, item) = z
    <2>1. Size(r.v) = n
        BY <1>5, ShapeFacts
    <2> QED
        BY <1>2, <1>3, <1>6, <1>8, <1>11, <2>1 DEF EmplaceBack
<1>14. Frame(s, z)
    BY <1>5, <1>10, <1>12, FrameAgain
<1>15. ASSUME NEW i \in 1 .. n + 1
       PROVE  o[i] = IF i <= n THEN f[i] ELSE item
    <2>1. i \in 1 .. x
        BY <1>1, <1>2, <1>5
    <2>2. o[i] = IF i \in n + 1 .. n + one THEN t[i - n] ELSE g[i]
        BY <1>9, <2>1 DEF Over
    <2>3. CASE i <= n
        BY <1>1, <1>5, <2>2, <2>3
    <2>4. CASE ~(i <= n)
        <3>1. i \in n + 1 .. n + one /\ i - n = 1
            BY <1>1, <1>2, <2>4
        <3> QED
            BY <1>7, <2>2, <2>4, <3>1
    <2> QED
        BY <2>3, <2>4
<1> QED
    BY <1>2, <1>12, <1>13, <1>14, <1>15 DEF Gives

(* A new object is direct and empty, and is then filled.                   *)
LEMMA FromItemsShape ==
    ASSUME PrevectorAssumption, HasRoom(heap), NEW m \in Nat, Counts(m),
           NEW items \in [1 .. m -> Cell]
    PROVE  Gives([v |-> Fresh, h |-> heap], FromItems(items), m, items)
<1>1. PICK s : s = [v |-> Fresh, h |-> heap]
    OBVIOUS
<1>2. PICK junk : junk = [i \in 1 .. N |-> Unwritten]
    OBVIOUS
<1>3. junk \in [1 .. N -> Cell]
    BY <1>2 DEF Cell
<1>4. Shape(s, 0, N, junk)
    <2>1. s = Placed(0, 0, junk, 0, heap)
        BY <1>1, <1>2 DEF Placed, Object, Fresh, Direct, Null
    <2>2. N \in Nat /\ SizeMod \in Nat /\ MaxLen \in Nat /\ N + 1 + MaxLen < SizeMod
        BY DEF PrevectorAssumption
    <2>3. Counts(0) /\ 0 \in Nat /\ 0 <= N
        BY <2>2 DEF Counts
    <2> QED
        BY <1>3, <2>1, <2>2, <2>3 DEF Shape
<1>5. Len(items) = m /\ HasRoom(s.h)
    BY <1>1
<1>6. PICK w : w = ChangeCapacity(s, m)
    OBVIOUS
<1>7. PICK x, g : /\ x \in Nat
                  /\ Frame(s, w) /\ Shape(w, 0, x, g) /\ m <= x
    <2>1. 0 <= m
        OBVIOUS
    <2> QED
        BY <1>4, <1>5, <1>6, <2>1, ChangeShape
<1>8. PICK r : r = Store(Grown(w, m), 0, items)
    OBVIOUS
<1>9. Gives(w, r, m, items)
    BY <1>7, <1>8, FillShape
<1>10. FromItems(items) = r
    BY <1>1, <1>5, <1>6, <1>8 DEF FromItems
<1>11. Frame(s, r)
    BY <1>7, <1>9, FrameAgain DEF Gives
<1> QED
    BY <1>1, <1>9, <1>10, <1>11 DEF Gives
-----------------------------------------------------------------------------
(* Sequences put together, as functions.                                   *)
LEMMA SequenceIs ==
    ASSUME NEW S, NEW x \in Seq(S), NEW n \in Nat, Len(x) = n
    PROVE  x = [i \in 1 .. n |-> x[i]]
OBVIOUS

LEMMA FrontIs ==
    ASSUME NEW S, NEW x \in Seq(S), NEW at \in Nat, at <= Len(x)
    PROVE  /\ SubSeq(x, 1, at) \in Seq(S) /\ Len(SubSeq(x, 1, at)) = at
           /\ \A i \in 1 .. at : SubSeq(x, 1, at)[i] = x[i]
OBVIOUS

LEMMA BackIs ==
    ASSUME NEW S, NEW x \in Seq(S), NEW at \in Nat, NEW q \in Nat, at + q = Len(x)
    PROVE  /\ SubSeq(x, at + 1, Len(x)) \in Seq(S)
           /\ Len(SubSeq(x, at + 1, Len(x))) = q
           /\ \A i \in 1 .. q : SubSeq(x, at + 1, Len(x))[i] = x[at + i]
OBVIOUS

Joined(S, u, a, m, b, n) ==
    /\ u \in Seq(S) /\ Len(u) = m + n
    /\ \A i \in 1 .. m + n : u[i] = IF i <= m THEN a[i] ELSE b[i - m]

LEMMA JoinedIs ==
    ASSUME NEW S, NEW a \in Seq(S), NEW b \in Seq(S), NEW m, NEW n,
           Len(a) = m, Len(b) = n
    PROVE  Joined(S, a \o b, a, m, b, n)
BY ConcatProperties DEF Joined

Spliced(x, at, items) == SubSeq(x, 1, at) \o items \o SubSeq(x, at + 1, Len(x))

Cut(x, at, d) == SubSeq(x, 1, at) \o SubSeq(x, at + d + 1, Len(x))

LEMMA InsertedIs ==
    ASSUME NEW S, NEW x \in Seq(S), NEW at \in Nat, NEW q \in Nat, Behind(at, q, Len(x)),
           NEW m \in Nat, NEW items \in [1 .. m -> S], NEW l \in Nat, Behind(Len(x), m, l)
    PROVE  Spliced(x, at, items)
           = [i \in 1 .. l |-> IF i <= at THEN x[i]
                               ELSE IF i <= at + m THEN items[i - at] ELSE x[i - m]]
<1> USE DEF Behind, Spliced, Cut
<1>1. PICK a, c : a = SubSeq(x, 1, at) /\ c = SubSeq(x, at + 1, Len(x))
    OBVIOUS
<1>2. a \in Seq(S) /\ Len(a) = at /\ \A i \in 1 .. at : a[i] = x[i]
    <2>1. at <= Len(x)
        OBVIOUS
    <2> QED
        BY <1>1, <2>1, FrontIs
<1>3. c \in Seq(S) /\ Len(c) = q /\ \A i \in 1 .. q : c[i] = x[at + i]
    <2>1. /\ SubSeq(x, at + 1, Len(x)) \in Seq(S) /\ Len(SubSeq(x, at + 1, Len(x))) = q
          /\ \A i \in 1 .. q : SubSeq(x, at + 1, Len(x))[i] = x[at + i]
        BY BackIs
    <2> QED
        BY <1>1, <2>1
<1>4. items \in Seq(S) /\ Len(items) = m
    OBVIOUS
<1>5. PICK b : b = a \o items
    OBVIOUS
<1>6. PICK p \in Nat : p = at + m
    OBVIOUS
<1>7. /\ b \in Seq(S) /\ Len(b) = p
      /\ \A i \in 1 .. p : b[i] = IF i <= at THEN a[i] ELSE items[i - at]
    <2>1. Joined(S, a \o items, a, at, items, m)
        <3>1. a \in Seq(S) /\ Len(a) = at
            BY <1>2
        <3> QED
            BY <1>4, <3>1, JoinedIs
    <2> QED
        BY <1>5, <1>6, <2>1 DEF Joined
<1>8. PICK u : u = b \o c
    OBVIOUS
<1>9. p + q = l
    BY <1>6
<1>10. /\ u \in Seq(S) /\ Len(u) = p + q
       /\ \A i \in 1 .. p + q : u[i] = IF i <= p THEN b[i] ELSE c[i - p]
    <2>1. Joined(S, b \o c, b, p, c, q)
        <3>1. b \in Seq(S) /\ Len(b) = p /\ c \in Seq(S) /\ Len(c) = q
            BY <1>3, <1>7
        <3> QED
            BY <3>1, JoinedIs
    <2> QED
        BY <1>8, <2>1 DEF Joined
<1>11. u = [i \in 1 .. l |-> u[i]]
    BY <1>9, <1>10, SequenceIs
<1>12. ASSUME NEW i \in 1 .. l
       PROVE  u[i] = IF i <= at THEN x[i]
                     ELSE IF i <= at + m THEN items[i - at] ELSE x[i - m]
    <2>1. u[i] = IF i <= p THEN b[i] ELSE c[i - p]
        BY <1>9, <1>10
    <2>2. CASE i <= at
        BY <1>2, <1>6, <1>7, <2>1, <2>2
    <2>3. CASE ~(i <= at) /\ i <= at + m
        BY <1>6, <1>7, <2>1, <2>3
    <2>4. CASE ~(i <= at) /\ ~(i <= at + m)
        <3>1. i - p \in 1 .. q /\ at + (i - p) = i - m /\ ~(i <= p)
            BY <1>6, <1>9, <2>4
        <3> QED
            BY <1>3, <2>1, <2>4, <3>1
    <2> QED
        BY <2>2, <2>3, <2>4
<1>13. u = SubSeq(x, 1, at) \o items \o SubSeq(x, at + 1, Len(x))
    BY <1>1, <1>5, <1>8
<1> QED
    BY <1>11, <1>12, <1>13

LEMMA ErasedIs ==
    ASSUME NEW S, NEW x \in Seq(S), NEW at \in Nat, NEW d \in Nat, NEW u \in Nat,
           at <= u, Behind(u, d, Len(x))
    PROVE  Cut(x, at, d)
           = [i \in 1 .. u |-> IF i <= at THEN x[i] ELSE x[i + d]]
<1> USE DEF Behind, Spliced, Cut
<1>1. PICK p \in Nat : p = at + d
    OBVIOUS
<1>2. PICK q \in Nat : q = u - at
    OBVIOUS
<1>3. PICK a, c : a = SubSeq(x, 1, at) /\ c = SubSeq(x, p + 1, Len(x))
    OBVIOUS
<1>4. a \in Seq(S) /\ Len(a) = at /\ \A i \in 1 .. at : a[i] = x[i]
    <2>1. at <= Len(x)
        OBVIOUS
    <2> QED
        BY <1>3, <2>1, FrontIs
<1>5. c \in Seq(S) /\ Len(c) = q /\ \A i \in 1 .. q : c[i] = x[p + i]
    <2>1. p + q = Len(x)
        BY <1>1, <1>2
    <2> QED
        BY <1>3, <2>1, BackIs
<1>6. PICK y : y = a \o c
    OBVIOUS
<1>7. at + q = u
    BY <1>2
<1>8. /\ y \in Seq(S) /\ Len(y) = at + q
      /\ \A i \in 1 .. at + q : y[i] = IF i <= at THEN a[i] ELSE c[i - at]
    <2>1. Joined(S, a \o c, a, at, c, q)
        BY <1>2, <1>4, <1>5, JoinedIs
    <2> QED
        BY <1>6, <2>1 DEF Joined
<1>9. y = [i \in 1 .. u |-> y[i]]
    BY <1>7, <1>8, SequenceIs
<1>10. ASSUME NEW i \in 1 .. u
       PROVE  y[i] = IF i <= at THEN x[i] ELSE x[i + d]
    <2>1. y[i] = IF i <= at THEN a[i] ELSE c[i - at]
        BY <1>7, <1>8
    <2>2. CASE i <= at
        BY <1>4, <2>1, <2>2
    <2>3. CASE ~(i <= at)
        <3>1. i - at \in 1 .. q /\ p + (i - at) = i + d
            BY <1>1, <1>2, <2>3
        <3> QED
            BY <1>5, <2>1, <2>3, <3>1
    <2> QED
        BY <2>2, <2>3
<1>11. y = SubSeq(x, 1, at) \o SubSeq(x, at + d + 1, Len(x))
    BY <1>1, <1>3, <1>6
<1> QED
    BY <1>9, <1>10, <1>11

LEMMA AppendedIs ==
    ASSUME NEW S, NEW x \in Seq(S), NEW item \in S, NEW n \in Nat, Len(x) = n
    PROVE  Append(x, item) = [i \in 1 .. n + 1 |-> IF i <= n THEN x[i] ELSE item]
<1>1. PICK y : y = Append(x, item)
    OBVIOUS
<1>2. /\ y \in Seq(S) /\ Len(y) = n + 1
      /\ \A i \in 1 .. n : y[i] = x[i]
      /\ y[n + 1] = item
    BY <1>1
<1>3. PICK u \in Nat : u = n + 1
    OBVIOUS
<1>4. y = [i \in 1 .. u |-> y[i]]
    BY <1>2, <1>3, SequenceIs
<1>5. ASSUME NEW i \in 1 .. u
      PROVE  y[i] = IF i <= n THEN x[i] ELSE item
    <2>1. i \in 1 .. n \/ i = n + 1
        BY <1>3
    <2> QED
        BY <1>2, <2>1
<1> QED
    BY <1>1, <1>3, <1>4, <1>5
-----------------------------------------------------------------------------
(* Every call on one object keeps the promise of Vector.                   *)
Shaped(s) == \E n, k, f : Shape(s, n, k, f)

Done(s, r, x) == Frame(s, r) /\ Shaped(r) /\ Elements(r) = x

LEMMA GivesDone ==
    ASSUME PrevectorAssumption, NEW s, NEW r, NEW n \in Nat, NEW g,
           Gives(s, r, n, g), g = [i \in 1 .. n |-> g[i]]
    PROVE  Done(s, r, g)
<1>1. Elements(r) = g
    BY GivesElements
<1> QED
    BY <1>1 DEF Gives, Done, Shaped

LEMMA ElementsAre ==
    ASSUME PrevectorAssumption, NEW s, NEW n, NEW k, NEW f, Shape(s, n, k, f),
           NEW x, x = Elements(s)
    PROVE  /\ n \in Nat /\ x \in Seq(Cell) /\ Len(x) = n /\ x \in [1 .. n -> Cell]
           /\ x = [i \in 1 .. n |-> x[i]]
           /\ \A i \in 1 .. n : x[i] = f[i]
<1>1. n \in Nat /\ k \in Nat /\ n <= k /\ f \in [1 .. k -> Cell]
    BY DEF Shape, Counts
<1>2. x = [i \in 1 .. n |-> f[i]]
    BY ShapeFacts
<1>3. x \in [1 .. n -> Cell] /\ \A i \in 1 .. n : x[i] = f[i]
    BY <1>1, <1>2
<1>4. x \in Seq(Cell) /\ Len(x) = n
    BY <1>1, <1>3
<1> QED
    BY <1>1, <1>3, <1>4, SequenceIs

(* The same elements in another place.                                     *)
LEMMA SameDone ==
    ASSUME PrevectorAssumption, NEW s, NEW n, NEW k, NEW f, Shape(s, n, k, f),
           NEW r, Frame(s, r),
           \E x, g : Shape(r, n, x, g) /\ \A i \in 1 .. n : g[i] = f[i]
    PROVE  Done(s, r, Elements(s))
<1>1. PICK x, g : Shape(r, n, x, g) /\ \A i \in 1 .. n : g[i] = f[i]
    OBVIOUS
<1>2. Elements(s) = [i \in 1 .. n |-> f[i]]
    BY ShapeFacts
<1>3. Elements(r) = [i \in 1 .. n |-> g[i]]
    BY <1>1, ShapeFacts
<1> QED
    BY <1>1, <1>2, <1>3 DEF Done, Shaped

LEMMA ListCells ==
    ASSUME PrevectorAssumption, NEW items \in Lists(MaxArg)
    PROVE  \E m : /\ m \in Nat /\ Counts(m) /\ Len(items) = m
                  /\ items \in [1 .. m -> Cell] /\ items = [i \in 1 .. m |-> items[i]]
<1>1. PICK m \in 0 .. MaxArg : items \in [1 .. m -> Values]
    BY DEF Lists
<1>2. N \in Nat /\ MaxArg \in Nat /\ SizeMod \in Nat /\ N + 1 + MaxArg < SizeMod
    BY DEF PrevectorAssumption
<1>3. items \in [1 .. m -> Cell]
    BY <1>1 DEF Cell
<1>4. m \in Nat /\ Counts(m)
    BY <1>1, <1>2 DEF Counts
<1> QED
    BY <1>3, <1>4

LEMMA AssignKeeps ==
    ASSUME PrevectorAssumption, NEW s, NEW n, NEW k, NEW f, Shape(s, n, k, f),
           HasRoom(s.h), NEW c, c.op = "assign", c.items \in Lists(MaxArg)
    PROVE  Done(s, Result(s, c), StdVector!Apply(Elements(s), c))
<1>1. PICK y : y = c.items
    OBVIOUS
<1>2. PICK m : /\ m \in Nat /\ Counts(m) /\ y \in [1 .. m -> Cell]
               /\ y = [i \in 1 .. m |-> y[i]]
    BY <1>1, ListCells
<1>3. Gives(s, Assign(s, y), m, y)
    BY <1>2, AssignShape
<1>4. Done(s, Assign(s, y), y)
    BY <1>2, <1>3, GivesDone
<1>5. Result(s, c) = Assign(s, y)
    BY <1>1 DEF Result
<1>6. StdVector!Apply(Elements(s), c) = y
    BY <1>1 DEF StdVector!Apply
<1> QED
    BY <1>4, <1>5, <1>6

(* A length within the bound is one that _size counts.                     *)
LEMMA LengthCounts ==
    ASSUME PrevectorAssumption, NEW l \in 0 .. MaxLen
    PROVE  l \in Nat /\ Counts(l)
<1>1. N \in Nat /\ MaxLen \in Nat /\ SizeMod \in Nat /\ N + 1 + MaxLen < SizeMod
    BY DEF PrevectorAssumption
<1> QED
    BY <1>1 DEF Counts

LEMMA ResizeKeeps ==
    ASSUME PrevectorAssumption, NEW s, NEW n, NEW k, NEW f, Shape(s, n, k, f),
           HasRoom(s.h), NEW c, c.op = "resize", c.n \in 0 .. MaxLen
    PROVE  Done(s, Result(s, c), StdVector!Apply(Elements(s), c))
<1>1. PICK l : l = c.n
    OBVIOUS
<1>2. l \in Nat /\ Counts(l)
    BY <1>1, LengthCounts
<1>3. PICK g : g = [i \in 1 .. l |-> IF i <= n THEN f[i] ELSE Default]
    OBVIOUS
<1>4. Gives(s, Resize(s, l), l, g)
    <2>1. Gives(s, Resize(s, l), l, [i \in 1 .. l |-> IF i <= n THEN f[i] ELSE Default])
        BY <1>2, ResizeShape
    <2> QED
        BY <1>3, <2>1
<1>5. g = [i \in 1 .. l |-> g[i]]
    BY <1>3
<1>6. Done(s, Resize(s, l), g)
    BY <1>2, <1>4, <1>5, GivesDone
<1>7. Result(s, c) = Resize(s, l)
    BY <1>1 DEF Result
<1>8. StdVector!Apply(Elements(s), c) = g
    <2>1. PICK x : x = Elements(s)
        OBVIOUS
    <2>2. n \in Nat /\ Len(x) = n /\ \A i \in 1 .. n : x[i] = f[i]
        BY <2>1, ElementsAre
    <2>3. StdVector!Apply(x, c) = [i \in 1 .. l |-> IF i <= Len(x) THEN x[i] ELSE Default]
        BY <1>1 DEF StdVector!Apply
    <2>4. [i \in 1 .. l |-> IF i <= Len(x) THEN x[i] ELSE Default] = g
        BY <1>2, <1>3, <2>2
    <2> QED
        BY <2>1, <2>3, <2>4
<1> QED
    BY <1>6, <1>7, <1>8

LEMMA ResizeUninitializedKeeps ==
    ASSUME PrevectorAssumption, NEW s, NEW n, NEW k, NEW f, Shape(s, n, k, f),
           HasRoom(s.h), NEW c, c.op = "resize_uninitialized", c.n \in 0 .. MaxLen
    PROVE  LET x == Elements(s)
               y == Elements(Result(s, c))
           IN  /\ Frame(s, Result(s, c)) /\ Shaped(Result(s, c))
               /\ Len(y) = c.n /\ \A i \in 1 .. c.n : i <= Len(x) => y[i] = x[i]
<1>1. PICK l : l = c.n
    OBVIOUS
<1>2. l \in Nat /\ Counts(l)
    BY <1>1, LengthCounts
<1>3. PICK r : r = ResizeUninitialized(s, l)
    OBVIOUS
<1>4. PICK g : Gives(s, r, l, g) /\ \A i \in 1 .. l : i <= n => g[i] = f[i]
    BY <1>2, <1>3, ResizeUninitializedShape
<1>5. PICK k2, f2 : Shape(r, l, k2, f2) /\ \A i \in 1 .. l : f2[i] = g[i]
    BY <1>4 DEF Gives
<1>6. PICK y : y = Elements(r)
    OBVIOUS
<1>7. Len(y) = l /\ \A i \in 1 .. l : y[i] = f2[i]
    BY <1>5, <1>6, ElementsAre
<1>8. PICK x : x = Elements(s)
    OBVIOUS
<1>9. n \in Nat /\ Len(x) = n /\ \A i \in 1 .. n : x[i] = f[i]
    BY <1>8, ElementsAre
<1>10. ASSUME NEW i \in 1 .. l, i <= n
       PROVE  y[i] = x[i]
    <2>1. i \in 1 .. n
        BY <1>9, <1>10
    <2> QED
        BY <1>4, <1>5, <1>7, <1>9, <1>10, <2>1
<1>11. Result(s, c) = r
    BY <1>1, <1>3 DEF Result
<1>12. Frame(s, r) /\ Shaped(r)
    BY <1>4, <1>5 DEF Gives, Shaped
<1> QED
    BY <1>1, <1>6, <1>7, <1>8, <1>9, <1>10, <1>11, <1>12

LEMMA ReserveKeeps ==
    ASSUME PrevectorAssumption, NEW s, NEW n, NEW k, NEW f, Shape(s, n, k, f),
           HasRoom(s.h), NEW c, c.op = "reserve", c.n \in 0 .. MaxLen
    PROVE  Done(s, Result(s, c), StdVector!Apply(Elements(s), c))
<1>1. c.n \in Nat
    BY LengthCounts
<1>2. PICK r : r = Room(s, c.n)
    OBVIOUS
<1>3. /\ Frame(s, r)
      /\ \E x, g : Shape(r, n, x, g) /\ \A i \in 1 .. n : g[i] = f[i]
    BY <1>1, <1>2, RoomShape
<1>4. Done(s, r, Elements(s))
    BY <1>3, SameDone
<1>5. Result(s, c) = r /\ StdVector!Apply(Elements(s), c) = Elements(s)
    BY <1>2 DEF Result, StdVector!Apply
<1> QED
    BY <1>4, <1>5

LEMMA ShrinkKeeps ==
    ASSUME PrevectorAssumption, NEW s, NEW n, NEW k, NEW f, Shape(s, n, k, f),
           HasRoom(s.h), NEW c, c.op = "shrink_to_fit"
    PROVE  Done(s, Result(s, c), StdVector!Apply(Elements(s), c))
<1>1. n \in Nat /\ Size(s.v) = n
    <2>1. Size(s.v) = n
        BY ShapeFacts
    <2> QED
        BY <2>1 DEF Shape, Counts
<1>2. PICK r : r = ChangeCapacity(s, n)
    OBVIOUS
<1>3. /\ Frame(s, r)
      /\ \E x, g : Shape(r, n, x, g) /\ \A i \in 1 .. n : g[i] = f[i]
    <2>1. n <= n
        BY <1>1
    <2> QED
        BY <1>1, <1>2, <2>1, ChangeShape
<1>4. Done(s, r, Elements(s))
    BY <1>3, SameDone
<1>5. Result(s, c) = r /\ StdVector!Apply(Elements(s), c) = Elements(s)
    BY <1>1, <1>2 DEF Result, StdVector!Apply
<1> QED
    BY <1>4, <1>5

LEMMA InsertKeeps ==
    ASSUME PrevectorAssumption, NEW s, NEW n, NEW k, NEW f, Shape(s, n, k, f),
           HasRoom(s.h), NEW c, c.op = "insert", c.at \in Nat,
           c.items \in Lists(MaxArg), Legal(s.v, c)
    PROVE  Done(s, Result(s, c), StdVector!Apply(Elements(s), c))
<1>1. PICK y, at : y = c.items /\ at = c.at
    OBVIOUS
<1>2. PICK m : /\ m \in Nat /\ Counts(m) /\ Len(y) = m /\ y \in [1 .. m -> Cell]
               /\ y = [i \in 1 .. m |-> y[i]]
    BY <1>1, ListCells
<1>3. PICK x : x = Elements(s)
    OBVIOUS
<1>4. n \in Nat /\ x \in Seq(Cell) /\ Len(x) = n /\ \A i \in 1 .. n : x[i] = f[i]
    BY <1>3, ElementsAre
<1>5. at \in Nat /\ at <= n /\ n + m <= MaxLen
    <2>1. Size(s.v) = n
        BY ShapeFacts
    <2> QED
        BY <1>1, <1>2, <2>1 DEF Legal
<1>6. PICK q, l : q \in Nat /\ Behind(at, q, n) /\ l \in Nat /\ Behind(n, m, l) /\ l <= MaxLen
    <2>1. n - at \in Nat /\ at + (n - at) = n /\ n + m \in Nat
        BY <1>2, <1>4, <1>5
    <2> QED
        BY <1>5, <2>1 DEF Behind
<1>7. PICK g : g = [i \in 1 .. l |-> IF i <= at THEN f[i]
                                     ELSE IF i <= at + m THEN y[i - at] ELSE f[i - m]]
    OBVIOUS
<1>8. Gives(s, Insert(s, at, y), l, g)
    <2>1. Gives(s, Insert(s, at, y), l,
                [i \in 1 .. l |-> IF i <= at THEN f[i]
                                  ELSE IF i <= at + m THEN y[i - at] ELSE f[i - m]])
        BY <1>2, <1>5, <1>6, InsertShape
    <2> QED
        BY <1>7, <2>1
<1>9. g = [i \in 1 .. l |-> g[i]]
    BY <1>7
<1>10. Done(s, Insert(s, at, y), g)
    BY <1>6, <1>8, <1>9, GivesDone
<1>11. Result(s, c) = Insert(s, at, y)
    BY <1>1 DEF Result
<1>12. StdVector!Apply(x, c) = SubSeq(x, 1, at) \o y \o SubSeq(x, at + 1, Len(x))
    BY <1>1 DEF StdVector!Apply
<1>13. Spliced(x, at, y)
       = [i \in 1 .. l |-> IF i <= at THEN x[i]
                           ELSE IF i <= at + m THEN y[i - at] ELSE x[i - m]]
    <2>1. /\ x \in Seq(Cell) /\ at \in Nat /\ q \in Nat /\ m \in Nat /\ l \in Nat
          /\ Behind(at, q, Len(x)) /\ Behind(Len(x), m, l) /\ y \in [1 .. m -> Cell]
        BY <1>2, <1>4, <1>5, <1>6
    <2> QED
        BY <2>1, InsertedIs
<1>14. ASSUME NEW i \in 1 .. l
       PROVE  g[i] = IF i <= at THEN x[i]
                     ELSE IF i <= at + m THEN y[i - at] ELSE x[i - m]
    <2>1. i <= at => i \in 1 .. n
        BY <1>4, <1>5, <1>6 DEF Behind
    <2>2. ~(i <= at + m) => i - m \in 1 .. n
        BY <1>2, <1>4, <1>5, <1>6 DEF Behind
    <2> QED
        BY <1>4, <1>5, <1>6, <1>7, <2>1, <2>2
<1>15. StdVector!Apply(x, c) = g
    BY <1>9, <1>12, <1>13, <1>14 DEF Spliced
<1> QED
    BY <1>3, <1>10, <1>11, <1>15

LEMMA EraseKeeps ==
    ASSUME PrevectorAssumption, NEW s, NEW n, NEW k, NEW f, Shape(s, n, k, f),
           HasRoom(s.h), NEW c, c.op = "erase", c.at \in Nat, c.n \in Nat, Legal(s.v, c)
    PROVE  Done(s, Result(s, c), StdVector!Apply(Elements(s), c))
<1>1. PICK d, at : d = c.n /\ at = c.at
    OBVIOUS
<1>2. PICK x : x = Elements(s)
    OBVIOUS
<1>3. n \in Nat /\ x \in Seq(Cell) /\ Len(x) = n /\ \A i \in 1 .. n : x[i] = f[i]
    BY <1>2, ElementsAre
<1>4. at \in Nat /\ d \in Nat /\ at + d <= n
    <2>1. Size(s.v) = n
        BY ShapeFacts
    <2> QED
        BY <1>1, <2>1 DEF Legal
<1>5. PICK u : u \in Nat /\ at <= u /\ u + d = n
    <2>1. n - d \in Nat /\ at <= n - d /\ (n - d) + d = n
        BY <1>3, <1>4
    <2> QED
        BY <2>1
<1>6. PICK g : g = [i \in 1 .. u |-> IF i <= at THEN f[i] ELSE f[i + d]]
    OBVIOUS
<1>7. Gives(s, Erase(s, at, d), u, g)
    <2>1. Gives(s, Erase(s, at, d), u, [i \in 1 .. u |-> IF i <= at THEN f[i] ELSE f[i + d]])
        BY <1>4, <1>5, EraseShape
    <2> QED
        BY <1>6, <2>1
<1>8. g = [i \in 1 .. u |-> g[i]]
    BY <1>6
<1>9. Done(s, Erase(s, at, d), g)
    BY <1>5, <1>7, <1>8, GivesDone
<1>10. Result(s, c) = Erase(s, at, d)
    BY <1>1 DEF Result
<1>11. StdVector!Apply(x, c) = SubSeq(x, 1, at) \o SubSeq(x, at + d + 1, Len(x))
    BY <1>1 DEF StdVector!Apply
<1>12. Cut(x, at, d)
       = [i \in 1 .. u |-> IF i <= at THEN x[i] ELSE x[i + d]]
    <2>1. Behind(u, d, Len(x))
        BY <1>3, <1>5 DEF Behind
    <2> QED
        BY <1>3, <1>4, <1>5, <2>1, ErasedIs
<1>13. ASSUME NEW i \in 1 .. u
       PROVE  g[i] = IF i <= at THEN x[i] ELSE x[i + d]
    <2>1. i \in 1 .. n /\ i + d \in 1 .. n
        BY <1>3, <1>4, <1>5
    <2> QED
        BY <1>3, <1>6, <2>1
<1>14. StdVector!Apply(x, c) = g
    BY <1>8, <1>11, <1>12, <1>13 DEF Cut
<1> QED
    BY <1>2, <1>9, <1>10, <1>14

LEMMA PushBackKeeps ==
    ASSUME PrevectorAssumption, NEW s, NEW n, NEW k, NEW f, Shape(s, n, k, f),
           HasRoom(s.h), NEW c, c.op = "push_back", c.item \in Values, Legal(s.v, c)
    PROVE  Done(s, Result(s, c), StdVector!Apply(Elements(s), c))
<1>1. PICK y : y = c.item
    OBVIOUS
<1>2. y \in Cell
    BY <1>1 DEF Cell
<1>3. PICK x : x = Elements(s)
    OBVIOUS
<1>4. n \in Nat /\ x \in Seq(Cell) /\ Len(x) = n /\ \A i \in 1 .. n : x[i] = f[i]
    BY <1>3, ElementsAre
<1>5. n < MaxLen
    <2>1. Size(s.v) = n
        BY ShapeFacts
    <2> QED
        BY <2>1 DEF Legal
<1>6. PICK g : g = [i \in 1 .. n + 1 |-> IF i <= n THEN f[i] ELSE y]
    OBVIOUS
<1>7. PICK l : l \in Nat /\ l = n + 1
    BY <1>4
<1>8. Gives(s, EmplaceBack(s, y), l, g)
    <2>1. Gives(s, EmplaceBack(s, y), n + 1,
                [i \in 1 .. n + 1 |-> IF i <= n THEN f[i] ELSE y])
        BY <1>2, <1>5, EmplaceBackShape
    <2> QED
        BY <1>6, <1>7, <2>1
<1>9. g = [i \in 1 .. l |-> g[i]]
    BY <1>6, <1>7
<1>10. Done(s, EmplaceBack(s, y), g)
    BY <1>7, <1>8, <1>9, GivesDone
<1>11. Result(s, c) = EmplaceBack(s, y)
    BY <1>1 DEF Result
<1>12. StdVector!Apply(x, c) = Append(x, y)
    BY <1>1 DEF StdVector!Apply
<1>13. Append(x, y) = [i \in 1 .. n + 1 |-> IF i <= n THEN x[i] ELSE y]
    BY <1>2, <1>4, AppendedIs
<1>14. ASSUME NEW i \in 1 .. n + 1
       PROVE  g[i] = IF i <= n THEN x[i] ELSE y
    <2>1. i <= n => i \in 1 .. n
        BY <1>4
    <2> QED
        BY <1>4, <1>6, <2>1
<1>15. StdVector!Apply(x, c) = g
    BY <1>6, <1>7, <1>9, <1>12, <1>13, <1>14
<1> QED
    BY <1>3, <1>10, <1>11, <1>15

(* A call that is legal is defined, and does what it promises.             *)
Promised(s, r, c) ==
    /\ Frame(s, r) /\ Shaped(r) /\ StdVector!Defined(Elements(s), c)
    /\ IF c.op = "resize_uninitialized"
       THEN /\ Len(Elements(r)) = c.n
            /\ \A i \in 1 .. c.n : i <= Len(Elements(s)) => Elements(r)[i] = Elements(s)[i]
       ELSE Elements(r) = StdVector!Apply(Elements(s), c)

LEMMA ResultPromised ==
    ASSUME PrevectorAssumption, NEW s, NEW n, NEW k, NEW f, Shape(s, n, k, f),
           HasRoom(s.h), NEW c \in Calls, Legal(s.v, c)
    PROVE  Promised(s, Result(s, c), c)
<1>1. Len(Elements(s)) = n /\ Size(s.v) = n
    BY ElementsAre, ShapeFacts
<1>2. StdVector!Defined(Elements(s), c)
    BY <1>1 DEF Legal, StdVector!Defined
<1>3. ASSUME c.op # "resize_uninitialized",
             Done(s, Result(s, c), StdVector!Apply(Elements(s), c))
      PROVE  Promised(s, Result(s, c), c)
    BY <1>2, <1>3 DEF Promised, Done
<1>4. CASE c \in [op : {"assign"}, items : Lists(MaxArg)]
    <2>1. c.op = "assign" /\ c.items \in Lists(MaxArg)
        BY <1>4
    <2> QED
        BY <1>3, <2>1, AssignKeeps
<1>5. CASE c \in [op : {"resize", "resize_uninitialized", "reserve"}, n : 0 .. MaxLen]
    <2>1. c.op \in {"resize", "resize_uninitialized", "reserve"} /\ c.n \in 0 .. MaxLen
        BY <1>5
    <2>2. CASE c.op = "resize"
        BY <1>3, <2>1, <2>2, ResizeKeeps
    <2>3. CASE c.op = "resize_uninitialized"
        BY <1>2, <2>1, <2>3, ResizeUninitializedKeeps DEF Promised
    <2>4. CASE c.op = "reserve"
        BY <1>3, <2>1, <2>4, ReserveKeeps
    <2> QED
        BY <2>1, <2>2, <2>3, <2>4
<1>6. CASE c \in [op : {"shrink_to_fit"}]
    <2>1. c.op = "shrink_to_fit"
        BY <1>6
    <2> QED
        BY <1>3, <2>1, ShrinkKeeps
<1>7. CASE c \in [op : {"insert"}, at : 0 .. MaxLen, items : Lists(MaxArg)]
    <2>1. c.op = "insert" /\ c.at \in 0 .. MaxLen /\ c.items \in Lists(MaxArg)
        BY <1>7
    <2>2. c.at \in Nat
        BY <2>1, LengthCounts
    <2> QED
        BY <1>3, <2>1, <2>2, InsertKeeps
<1>8. CASE c \in [op : {"erase"}, at : 0 .. MaxLen, n : 0 .. MaxLen]
    <2>1. c.op = "erase" /\ c.at \in 0 .. MaxLen /\ c.n \in 0 .. MaxLen
        BY <1>8
    <2>2. c.at \in Nat /\ c.n \in Nat
        BY <2>1, LengthCounts
    <2> QED
        BY <1>3, <2>1, <2>2, EraseKeeps
<1>9. CASE c \in [op : {"push_back"}, item : Values]
    <2>1. c.op = "push_back" /\ c.item \in Values
        BY <1>9
    <2> QED
        BY <1>3, <2>1, PushBackKeeps
<1> QED
    BY <1>4, <1>5, <1>6, <1>7, <1>8, <1>9 DEF Calls
-----------------------------------------------------------------------------
(* The objects ve and the heap he: an object that is alive has its         *)
(* elements in it or in a block of its own, and there are no other blocks. *)
OwnOf(v) == IF v = Gone THEN {} ELSE Own(v)

At(v, h) == [v |-> v, h |-> h]

Good(ve, he) ==
    /\ ve = [o \in Objects |-> ve[o]]
    /\ \A o \in Objects : ve[o] # Gone => Shaped(At(ve[o], he))
    /\ \A b : b \in DOMAIN he <=> \E o \in Objects : b \in OwnOf(ve[o])
    /\ \A o, p \in Objects : o # p => OwnOf(ve[o]) \cap OwnOf(ve[p]) = {}

ElementsAt(v, h) == IF v = Gone THEN Gone ELSE Elements(At(v, h))

ContentsOf(ve, he) == [o \in Objects |-> ElementsAt(ve[o], he)]

(* An object is not taken for an absent one, and neither are its elements. *)
LEMMA ShapedIsAlive ==
    ASSUME PrevectorAssumption, NEW s, Shaped(s)
    PROVE  s.v # Gone /\ Elements(s) # Gone /\ s = At(s.v, s.h)
<1>1. PICK n, k, f : Shape(s, n, k, f)
    BY DEF Shaped
<1>2. PICK b, c, e, z, h :
        /\ b \in Nat /\ c \in Nat /\ e \in [1 .. N -> Cell] /\ z \in Nat
        /\ s = Placed(b, c, e, z, h)
    BY <1>1 DEF Shape
<1>3. s.v = Object(b, c, e, z) /\ s = At(s.v, s.h)
    BY <1>2 DEF Placed, At
<1>4. s.v \in [union : [block : Nat, capacity : Nat, cells : [1 .. N -> Cell]], size : Nat]
    BY <1>2, <1>3 DEF Object
<1>5. s.v # Gone
    BY <1>4 DEF PrevectorAssumption
<1>6. PICK x : x = Elements(s)
    OBVIOUS
<1>7. x \in [1 .. n -> Cell]
    BY <1>1, <1>6, ElementsAre
<1>8. n \in 0 .. SizeMod
    <2>1. Counts(n)
        BY <1>1 DEF Shape
    <2> QED
        BY <2>1, NumbersAre DEF Counts
<1>9. x # Gone
    BY <1>7, <1>8 DEF PrevectorAssumption
<1> QED
    BY <1>3, <1>5, <1>6, <1>9

(* An object does not mind what becomes of blocks that are not its own.    *)
LEMMA Relocated ==
    ASSUME PrevectorAssumption, NEW v, NEW g, NEW h, Shaped(At(v, g)),
           \A b \in Own(v) : b \in DOMAIN h /\ h[b] = g[b]
    PROVE  Shaped(At(v, h)) /\ Elements(At(v, h)) = Elements(At(v, g))
<1>1. PICK n, k, f : Shape(At(v, g), n, k, f)
    BY DEF Shaped
<1>2. N \in Nat
    BY NumbersAre
<1>3. n \in Nat /\ k \in Nat /\ n <= k /\ f \in [1 .. k -> Cell] /\ Counts(n)
    BY <1>1 DEF Shape, Counts
<1>4. PICK b, c, e, z, i :
        /\ b \in Nat /\ c \in Nat /\ e \in [1 .. N -> Cell] /\ z \in Nat
        /\ At(v, g) = Placed(b, c, e, z, i)
        /\ \/ z = n /\ k = N /\ f = e
           \/ z = n + N + 1 /\ k = c /\ b \in DOMAIN i /\ i[b] = f
    BY <1>1 DEF Shape
<1>5. v = Object(b, c, e, z) /\ g = i
    BY <1>4 DEF At, Placed
<1>6. At(v, h) = Placed(b, c, e, z, h)
    BY <1>5 DEF At, Placed
<1>7. v.size = z /\ v.union.block = b
    BY <1>5 DEF Object
<1>8. \/ z = n /\ k = N /\ f = e
      \/ z = n + N + 1 /\ k = c /\ b \in DOMAIN h /\ h[b] = f
    <2>1. CASE z = n + N + 1 /\ k = c /\ b \in DOMAIN i /\ i[b] = f
        <3>1. Own(v) = {b}
            BY <1>2, <1>3, <1>7, <2>1 DEF Own, IsDirect
        <3> QED
            BY <1>5, <2>1, <3>1
    <2> QED
        BY <1>4, <2>1
<1>9. Shape(At(v, h), n, k, f)
    BY <1>3, <1>4, <1>6, <1>8 DEF Shape
<1>10. Elements(At(v, h)) = [j \in 1 .. n |-> f[j]]
    BY <1>9, ShapeFacts
<1>11. Elements(At(v, g)) = [j \in 1 .. n |-> f[j]]
    BY <1>1, ShapeFacts
<1> QED
    BY <1>9, <1>10, <1>11 DEF Shaped

(* One object is replaced, or ends, or begins, and with it its block.      *)
LEMMA Replaced ==
    ASSUME PrevectorAssumption, NEW ve, NEW he, Good(ve, he),
           NEW o \in Objects, NEW v, NEW h, v # Gone => Shaped(At(v, h)),
           \A b : b \in DOMAIN h <=> (b \in DOMAIN he /\ b \notin OwnOf(ve[o])) \/ b \in OwnOf(v),
           \A b \in DOMAIN he : b \notin OwnOf(ve[o]) => h[b] = he[b] /\ b \notin OwnOf(v)
    PROVE  /\ Good([ve EXCEPT ![o] = v], h)
           /\ ContentsOf([ve EXCEPT ![o] = v], h)
              = [ContentsOf(ve, he) EXCEPT ![o] = ElementsAt(v, h)]
<1>1. PICK we : we = [ve EXCEPT ![o] = v]
    OBVIOUS
<1>2. /\ we = [p \in Objects |-> we[p]] /\ we[o] = v
      /\ \A p \in Objects : p # o => we[p] = ve[p]
    BY <1>1 DEF Good
<1>3. ASSUME NEW p \in Objects, p # o
      PROVE  /\ \A b \in OwnOf(ve[p]) : b \in DOMAIN he /\ b \notin OwnOf(ve[o])
             /\ \A b \in OwnOf(ve[p]) : b \in DOMAIN h /\ h[b] = he[b] /\ b \notin OwnOf(v)
    <2>1. ASSUME NEW b \in OwnOf(ve[p]) PROVE b \in DOMAIN he /\ b \notin OwnOf(ve[o])
        BY <1>3, <2>1 DEF Good
    <2> QED
        BY <2>1
<1>4. ASSUME NEW p \in Objects, p # o, ve[p] # Gone
      PROVE  Shaped(At(ve[p], h)) /\ Elements(At(ve[p], h)) = Elements(At(ve[p], he))
    <2>1. Shaped(At(ve[p], he))
        BY <1>4 DEF Good
    <2>2. \A b \in Own(ve[p]) : b \in DOMAIN h /\ h[b] = he[b]
        BY <1>3, <1>4 DEF OwnOf
    <2> QED
        BY <2>1, <2>2, Relocated
<1>5. \A p \in Objects : we[p] # Gone => Shaped(At(we[p], h))
    BY <1>2, <1>4
<1>6. ASSUME NEW b
      PROVE  b \in DOMAIN h <=> \E p \in Objects : b \in OwnOf(we[p])
    <2>1. ASSUME b \in DOMAIN h PROVE \E p \in Objects : b \in OwnOf(we[p])
        <3>1. CASE b \in OwnOf(v)
            BY <1>2, <3>1
        <3>2. CASE b \in DOMAIN he /\ b \notin OwnOf(ve[o])
            <4>1. PICK p \in Objects : b \in OwnOf(ve[p])
                BY <3>2 DEF Good
            <4>2. p # o
                BY <3>2, <4>1
            <4> QED
                BY <1>2, <4>1, <4>2
        <3> QED
            BY <2>1, <3>1, <3>2
    <2>2. ASSUME NEW p \in Objects, b \in OwnOf(we[p]) PROVE b \in DOMAIN h
        <3>1. CASE p = o
            BY <1>2, <2>2, <3>1
        <3>2. CASE p # o
            BY <1>2, <1>3, <2>2, <3>2
        <3> QED
            BY <3>1, <3>2
    <2> QED
        BY <2>1, <2>2
<1>7. ASSUME NEW p \in Objects, NEW q \in Objects, p # q, NEW b \in OwnOf(we[p])
      PROVE  b \notin OwnOf(we[q])
    <2>1. CASE p = o
        BY <1>2, <1>3, <1>7, <2>1
    <2>2. CASE q = o
        BY <1>2, <1>3, <1>7, <2>2
    <2>3. CASE p # o /\ q # o
        BY <1>2, <1>7, <2>3 DEF Good
    <2> QED
        BY <2>1, <2>2, <2>3
<1>8. Good(we, h)
    <2>1. \A p, q \in Objects : p # q => OwnOf(we[p]) \cap OwnOf(we[q]) = {}
        BY <1>7
    <2> QED
        BY <1>2, <1>5, <1>6, <2>1 DEF Good
<1>9. ASSUME NEW p \in Objects
      PROVE  ContentsOf(we, h)[p] = [ContentsOf(ve, he) EXCEPT ![o] = ElementsAt(v, h)][p]
    <2>1. CASE p = o
        BY <1>2, <2>1 DEF ContentsOf
    <2>2. CASE p # o
        <3>1. ElementsAt(we[p], h) = ElementsAt(ve[p], he)
            BY <1>2, <1>4, <2>2 DEF ElementsAt
        <3> QED
            BY <2>2, <3>1 DEF ContentsOf
    <2> QED
        BY <2>1, <2>2
<1>10. ContentsOf(we, h) = [ContentsOf(ve, he) EXCEPT ![o] = ElementsAt(v, h)]
    BY <1>9 DEF ContentsOf
<1> QED
    BY <1>1, <1>8, <1>10

LEMMA Swapped ==
    ASSUME PrevectorAssumption, NEW ve, NEW he, Good(ve, he),
           NEW o \in Objects, NEW p \in Objects
    PROVE  /\ Good([ve EXCEPT ![o] = ve[p], ![p] = ve[o]], he)
           /\ ContentsOf([ve EXCEPT ![o] = ve[p], ![p] = ve[o]], he)
              = [ContentsOf(ve, he) EXCEPT ![o] = ContentsOf(ve, he)[p],
                                           ![p] = ContentsOf(ve, he)[o]]
<1>1. PICK we : we = [ve EXCEPT ![o] = ve[p], ![p] = ve[o]]
    OBVIOUS
<1>2. DEFINE other(q) == IF q = o THEN p ELSE IF q = p THEN o ELSE q
<1>3. ASSUME NEW q \in Objects
      PROVE  other(q) \in Objects /\ we[q] = ve[other(q)] /\ other(other(q)) = q
    BY <1>1 DEF Good
<1>4. we = [q \in Objects |-> we[q]]
    BY <1>1 DEF Good
<1>5. ASSUME NEW q \in Objects, NEW r \in Objects, q # r
      PROVE  other(q) # other(r)
    BY <1>5
<1> HIDE DEF other
<1>6. \A q \in Objects : we[q] # Gone => Shaped(At(we[q], he))
    BY <1>3 DEF Good
<1>7. \A b : b \in DOMAIN he <=> \E q \in Objects : b \in OwnOf(we[q])
    <2>1. ASSUME NEW b, b \in DOMAIN he PROVE \E q \in Objects : b \in OwnOf(we[q])
        <3>1. PICK r \in Objects : b \in OwnOf(ve[r])
            BY <2>1 DEF Good
        <3>2. other(r) \in Objects /\ we[other(r)] = ve[r]
            BY <1>3
        <3> QED
            BY <3>1, <3>2
    <2>2. ASSUME NEW b, NEW q \in Objects, b \in OwnOf(we[q]) PROVE b \in DOMAIN he
        BY <1>3, <2>2 DEF Good
    <2> QED
        BY <2>1, <2>2
<1>8. \A q, r \in Objects : q # r => OwnOf(we[q]) \cap OwnOf(we[r]) = {}
    BY <1>3, <1>5 DEF Good
<1>9. Good(we, he)
    BY <1>4, <1>6, <1>7, <1>8 DEF Good
<1>10. PICK c, d : /\ c = ContentsOf(ve, he)
                   /\ d = [c EXCEPT ![o] = c[p], ![p] = c[o]]
    OBVIOUS
<1>11. d = [q \in Objects |-> d[q]] /\ \A q \in Objects : d[q] = c[other(q)]
    BY <1>10 DEF ContentsOf, other
<1>12. \A q \in Objects : ContentsOf(we, he)[q] = d[q]
    BY <1>3, <1>10, <1>11 DEF ContentsOf
<1>13. ContentsOf(we, he) = d
    BY <1>11, <1>12 DEF ContentsOf
<1> QED
    BY <1>1, <1>9, <1>10, <1>13
-----------------------------------------------------------------------------
(* There are fewer blocks than numbers for them.                           *)
LEMMA RoomIsLeft ==
    ASSUME PrevectorAssumption, NEW ve, NEW he, Good(ve, he)
    PROVE  HasRoom(he)
<1>1. IsFiniteSet(Objects) /\ Cardinality(Objects) \in Nat
    BY FS_CardinalityType DEF PrevectorAssumption
<1>2. PICK c : c \in Nat /\ c = Cardinality(Objects) + 1
    BY <1>1
<1>3. IsFiniteSet(1 .. c) /\ Cardinality(1 .. c) = c
    BY <1>2, FS_Interval
<1>4. SUFFICES ASSUME \A b \in 1 .. c : b \in DOMAIN he PROVE FALSE
    BY <1>2 DEF HasRoom
<1>5. PICK f : f = [b \in 1 .. c |-> CHOOSE o \in Objects : b \in OwnOf(ve[o])]
    OBVIOUS
<1>6. \A b \in 1 .. c : f[b] \in Objects /\ b \in OwnOf(ve[f[b]])
    BY <1>4, <1>5 DEF Good
<1>7. f \in [1 .. c -> Objects]
    BY <1>5, <1>6
<1>8. PICK x \in 1 .. c, y \in 1 .. c : x # y /\ f[x] = f[y]
    <2>1. Cardinality(Objects) < Cardinality(1 .. c)
        BY <1>1, <1>2, <1>3
    <2> QED
        BY <1>1, <1>3, <1>7, <2>1, FS_PigeonHole
<1>9. x \in OwnOf(ve[f[x]]) /\ y \in OwnOf(ve[f[x]])
    BY <1>6, <1>8
<1> QED
    BY <1>8, <1>9 DEF OwnOf, Own

LEMMA ContentsAre ==
    Contents = ContentsOf(vec, heap) /\ Contents' = ContentsOf(vec', heap')
<1>1. Contents = ContentsOf(vec, heap)
    BY DEF Contents, ContentsOf, ElementsAt, Live, State, At
<1>2. Contents' = ContentsOf(vec', heap')
    BY DEF Contents, ContentsOf, ElementsAt, Live, State, At
<1> QED
    BY <1>1, <1>2

(* What a call on the one object o leaves.                                 *)
LEMMA BecomesKeeps ==
    ASSUME PrevectorAssumption, Good(vec, heap), NEW o \in Objects,
           NEW s, s.h = heap, OwnOf(vec[o]) = Own(s.v),
           NEW r, Shaped(r), Frame(s, r), Becomes(o, r)
    PROVE  /\ Good(vec', heap') /\ Contents' = [Contents EXCEPT ![o] = Elements(r)]
           /\ Elements(r) # Gone
<1>1. r.v # Gone /\ Elements(r) # Gone /\ r = At(r.v, r.h)
    BY ShapedIsAlive
<1>2. vec' = [vec EXCEPT ![o] = r.v] /\ heap' = r.h
    BY DEF Becomes
<1>3. PICK v, h : v = r.v /\ h = r.h
    OBVIOUS
<1>4. OwnOf(v) = Own(v)
    BY <1>1, <1>3 DEF OwnOf
<1>5. /\ \A b : b \in DOMAIN h <=> (b \in DOMAIN heap /\ b \notin OwnOf(vec[o])) \/ b \in OwnOf(v)
      /\ \A b \in DOMAIN heap : b \notin OwnOf(vec[o]) => h[b] = heap[b] /\ b \notin OwnOf(v)
    BY <1>3, <1>4 DEF Frame
<1>6. Shaped(At(v, h))
    BY <1>1, <1>3
<1>7. /\ Good([vec EXCEPT ![o] = v], h)
      /\ ContentsOf([vec EXCEPT ![o] = v], h)
         = [ContentsOf(vec, heap) EXCEPT ![o] = ElementsAt(v, h)]
    BY <1>5, <1>6, Replaced
<1>8. ElementsAt(v, h) = Elements(r)
    BY <1>1, <1>3 DEF ElementsAt
<1> QED
    BY <1>1, <1>2, <1>3, <1>7, <1>8, ContentsAre

LEMMA ContentsOfOne ==
    ASSUME PrevectorAssumption, Good(vec, heap), NEW o \in Objects
    PROVE  /\ vec[o] = Gone => Contents[o] = Gone
           /\ vec[o] # Gone => /\ Shaped(State(o)) /\ Contents[o] = Elements(State(o))
                               /\ Contents[o] # Gone
<1>1. Contents[o] = ElementsAt(vec[o], heap)
    BY ContentsAre DEF ContentsOf
<1>2. ASSUME vec[o] # Gone
      PROVE  Shaped(State(o)) /\ Contents[o] = Elements(State(o)) /\ Contents[o] # Gone
    <2>1. Shaped(State(o))
        BY <1>2 DEF Good, State, At
    <2>2. Contents[o] = Elements(State(o))
        BY <1>1, <1>2 DEF ElementsAt, State, At
    <2> QED
        BY <2>1, <2>2, ShapedIsAlive
<1> QED
    BY <1>1, <1>2 DEF ElementsAt

LEMMA SingleKeeps ==
    ASSUME PrevectorAssumption, Good(vec, heap), NEW o \in Objects, Single(o)
    PROVE  Good(vec', heap') /\ \E c \in Calls : StdVector!Single(o, c)
<1>1. PICK c \in Calls : Legal(vec[o], c) /\ call' = c /\ Becomes(o, Result(State(o), c))
    BY DEF Single
<1>2. PICK s : s = State(o)
    OBVIOUS
<1>3. s.v = vec[o] /\ s.h = heap
    BY <1>2 DEF State
<1>4. vec[o] # Gone /\ Shaped(s) /\ Contents[o] = Elements(s) /\ Contents[o] # Gone
    BY <1>2, ContentsOfOne DEF Single, Live
<1>5. PICK r : r = Result(s, c)
    OBVIOUS
<1>6. Promised(s, r, c)
    <2>1. PICK n, k, f : Shape(s, n, k, f)
        BY <1>4 DEF Shaped
    <2>2. HasRoom(s.h)
        BY <1>3, RoomIsLeft
    <2> QED
        BY <1>1, <1>3, <1>5, <2>1, <2>2, ResultPromised
<1>7. /\ Good(vec', heap') /\ Contents' = [Contents EXCEPT ![o] = Elements(r)]
    <2>1. OwnOf(vec[o]) = Own(s.v)
        BY <1>3, <1>4 DEF OwnOf
    <2>2. Shaped(r) /\ Frame(s, r) /\ Becomes(o, r)
        BY <1>1, <1>2, <1>5, <1>6 DEF Promised
    <2> QED
        BY <1>3, <2>1, <2>2, BecomesKeeps
<1>8. Contents'[o] = Elements(r)
    BY <1>7 DEF Contents
<1>9. StdVector!Single(o, c)
    BY <1>1, <1>4, <1>6, <1>7, <1>8 DEF StdVector!Single, StdVector!Update, Promised
<1> QED
    BY <1>7, <1>9

(* An object that begins: what it is made of is not yet in the heap.       *)
LEMMA BeginKeeps ==
    ASSUME PrevectorAssumption, Good(vec, heap), NEW o \in Objects, o \notin Live,
           NEW m \in Nat, Counts(m), NEW items \in [1 .. m -> Cell],
           Becomes(o, FromItems(items))
    PROVE  /\ Good(vec', heap') /\ Contents' = [Contents EXCEPT ![o] = items]
           /\ Contents[o] = Gone
<1>1. PICK s, r : s = [v |-> Fresh, h |-> heap] /\ r = FromItems(items)
    OBVIOUS
<1>2. HasRoom(heap)
    BY RoomIsLeft
<1>3. Gives(s, r, m, items)
    BY <1>1, <1>2, FromItemsShape
<1>4. Done(s, r, items)
    <2>1. items = [i \in 1 .. m |-> items[i]]
        OBVIOUS
    <2> QED
        BY <1>3, <2>1, GivesDone
<1>5. vec[o] = Gone
    BY DEF Live
<1>6. OwnOf(vec[o]) = Own(s.v) /\ s.h = heap
    <2>1. N \in Nat
        BY NumbersAre
    <2>2. s.v.size = 0
        BY <1>1 DEF Fresh
    <2>3. Own(s.v) = {}
        BY <2>1, <2>2 DEF Own, IsDirect
    <2> QED
        BY <1>1, <1>5, <2>3 DEF OwnOf
<1>7. Shaped(r) /\ Frame(s, r) /\ Elements(r) = items /\ Becomes(o, r)
    BY <1>1, <1>4 DEF Done
<1>8. Good(vec', heap') /\ Contents' = [Contents EXCEPT ![o] = items]
    BY <1>6, <1>7, BecomesKeeps
<1> QED
    BY <1>5, <1>8, ContentsOfOne

LEMMA ConstructKeeps ==
    ASSUME PrevectorAssumption, Good(vec, heap), NEW o \in Objects, Construct(o)
    PROVE  Good(vec', heap') /\ StdVector!Construct(o)
<1>1. PICK items \in Lists(MaxArg) : /\ call' = [op |-> "construct", items |-> items]
                                     /\ Becomes(o, FromItems(items))
    BY DEF Construct
<1>2. PICK m : m \in Nat /\ Counts(m) /\ items \in [1 .. m -> Cell]
    BY ListCells
<1>3. /\ Good(vec', heap') /\ Contents' = [Contents EXCEPT ![o] = items]
      /\ Contents[o] = Gone
    BY <1>1, <1>2, BeginKeeps DEF Construct
<1>4. PICK c : c = [op |-> "assign", items |-> items]
    OBVIOUS
<1>5. c \in Calls /\ c.op = "assign" /\ c.items = items /\ call' = [c EXCEPT !.op = "construct"]
    BY <1>1, <1>4 DEF Calls
<1>6. StdVector!Create(o, c.items)
    BY <1>3, <1>5 DEF StdVector!Create
<1> QED
    BY <1>3, <1>5, <1>6 DEF StdVector!Construct

LEMMA ElementsCount ==
    ASSUME PrevectorAssumption, NEW s, Shaped(s)
    PROVE  \E m : m \in Nat /\ Counts(m) /\ Elements(s) \in [1 .. m -> Cell]
<1>1. PICK n, k, f : Shape(s, n, k, f)
    BY DEF Shaped
<1>2. n \in Nat /\ Elements(s) \in [1 .. n -> Cell]
    BY <1>1, ElementsAre
<1> QED
    BY <1>1, <1>2 DEF Shape

LEMMA CopyConstructKeeps ==
    ASSUME PrevectorAssumption, Good(vec, heap), NEW o \in Objects, NEW p \in Objects,
           CopyConstruct(o, p)
    PROVE  Good(vec', heap') /\ StdVector!Pair(o, p)
<1>1. PICK x : x = Elements(State(p))
    OBVIOUS
<1>2. vec[p] # Gone
    BY DEF CopyConstruct, Live
<1>3. Shaped(State(p)) /\ Contents[p] = x /\ Contents[p] # Gone
    BY <1>1, <1>2, ContentsOfOne
<1>4. PICK m : m \in Nat /\ Counts(m) /\ x \in [1 .. m -> Cell]
    BY <1>1, <1>3, ElementsCount
<1>5. o \notin Live /\ Becomes(o, FromItems(x)) /\ call' = [op |-> "copy", of |-> p]
    BY <1>1 DEF CopyConstruct
<1>6. /\ Good(vec', heap') /\ Contents' = [Contents EXCEPT ![o] = x] /\ Contents[o] = Gone
    BY <1>4, <1>5, BeginKeeps
<1> QED
    BY <1>3, <1>5, <1>6 DEF StdVector!Pair, StdVector!Create

LEMMA CopyAssignKeeps ==
    ASSUME PrevectorAssumption, Good(vec, heap), NEW o \in Objects, NEW p \in Objects,
           CopyAssign(o, p)
    PROVE  Good(vec', heap') /\ StdVector!Pair(o, p)
<1>1. vec[o] # Gone /\ vec[p] # Gone /\ call' = [op |-> "copy_assign", of |-> p]
    BY DEF CopyAssign, Live
<1>2. PICK x : x = Elements(State(p))
    OBVIOUS
<1>3. Shaped(State(p)) /\ Contents[p] = x /\ Contents[p] # Gone
    BY <1>1, <1>2, ContentsOfOne
<1>4. Shaped(State(o)) /\ Contents[o] # Gone
    BY <1>1, ContentsOfOne
<1>5. CASE o = p
    <2>1. vec' = vec /\ heap' = heap
        BY <1>5 DEF CopyAssign
    <2>2. Contents' = Contents
        BY <2>1, ContentsAre
    <2>3. Contents' = [Contents EXCEPT ![o] = Contents[p]]
        BY <1>5, <2>2 DEF Contents
    <2> QED
        BY <1>1, <1>3, <1>4, <2>1, <2>3 DEF StdVector!Pair, StdVector!Update
<1>6. CASE o # p
    <2>1. PICK s, r : s = State(o) /\ r = Assign(s, x)
        OBVIOUS
    <2>2. Becomes(o, r)
        BY <1>2, <1>6, <2>1 DEF CopyAssign
    <2>3. s.v = vec[o] /\ s.h = heap
        BY <2>1 DEF State
    <2>4. PICK m : m \in Nat /\ Counts(m) /\ x \in [1 .. m -> Cell]
        BY <1>2, <1>3, ElementsCount
    <2>5. Gives(s, r, m, x)
        <3>1. PICK n, k, f : Shape(s, n, k, f)
            BY <1>4, <2>1 DEF Shaped
        <3>2. HasRoom(s.h)
            BY <2>3, RoomIsLeft
        <3> QED
            BY <2>1, <2>4, <3>1, <3>2, AssignShape
    <2>6. Done(s, r, x)
        <3>1. x = [i \in 1 .. m |-> x[i]]
            BY <2>4
        <3> QED
            BY <2>4, <2>5, <3>1, GivesDone
    <2>7. OwnOf(vec[o]) = Own(s.v)
        BY <1>1, <2>3 DEF OwnOf
    <2>8. Shaped(r) /\ Frame(s, r) /\ Elements(r) = x
        BY <2>6 DEF Done
    <2>9. Good(vec', heap') /\ Contents' = [Contents EXCEPT ![o] = x]
        BY <2>2, <2>3, <2>7, <2>8, BecomesKeeps
    <2> QED
        BY <1>1, <1>3, <1>4, <2>9 DEF StdVector!Pair, StdVector!Update
<1> QED
    BY <1>5, <1>6

(* An object whose elements are taken: its union is left as it was.        *)
Emptied(v) == [v EXCEPT !.size = 0]

LEMMA EmptiedIs ==
    ASSUME PrevectorAssumption, NEW v, NEW g, Shaped(At(v, g)), NEW h
    PROVE  /\ Shaped(At(Emptied(v), h)) /\ OwnOf(Emptied(v)) = {} /\ Emptied(v) # Gone
           /\ ElementsAt(Emptied(v), h) = <<>>
<1>1. PICK n, k, f : Shape(At(v, g), n, k, f)
    BY DEF Shaped
<1>2. PICK b, c, e, z, i :
        /\ b \in Nat /\ c \in Nat /\ e \in [1 .. N -> Cell] /\ z \in Nat
        /\ At(v, g) = Placed(b, c, e, z, i)
    BY <1>1 DEF Shape
<1>3. v = Object(b, c, e, z)
    BY <1>2 DEF At, Placed
<1>4. PICK w, s : w = Emptied(v) /\ s = At(w, h)
    OBVIOUS
<1>5. w = Object(b, c, e, 0) /\ s = Placed(b, c, e, 0, h) /\ s.v = w
    BY <1>3, <1>4 DEF Emptied, Object, At, Placed
<1>6. N \in Nat /\ SizeMod \in Nat /\ N + 1 + 0 < SizeMod
    BY DEF PrevectorAssumption
<1>7. Shape(s, 0, N, e)
    <2>1. Counts(0) /\ 0 \in Nat /\ 0 <= N
        BY <1>6 DEF Counts
    <2> QED
        BY <1>2, <1>5, <1>6, <2>1 DEF Shape
<1>8. w.size = 0
    BY <1>5 DEF Object
<1>9. Own(w) = {}
    BY <1>6, <1>8 DEF Own, IsDirect
<1>10. Elements(s) = <<>>
    <2>1. Elements(s) = [j \in 1 .. 0 |-> e[j]]
        BY <1>7, ShapeFacts
    <2> QED
        BY <2>1
<1>11. Shaped(s) /\ w # Gone
    <2>1. Shaped(s)
        BY <1>7 DEF Shaped
    <2> QED
        BY <1>5, <2>1, ShapedIsAlive
<1> QED
    BY <1>4, <1>9, <1>10, <1>11 DEF OwnOf, ElementsAt

(* Elements taken over from p to o, which has none: swapped, and p emptied. *)
MovedTo(ve, o, p) == [ve EXCEPT ![o] = ve[p], ![p].size = 0]

LEMMA Moved ==
    ASSUME PrevectorAssumption, NEW ve, NEW he, Good(ve, he),
           NEW o \in Objects, NEW p \in Objects, ve[o] = Gone, ve[p] # Gone
    PROVE  /\ Good(MovedTo(ve, o, p), he)
           /\ ContentsOf(MovedTo(ve, o, p), he)
              = [ContentsOf(ve, he) EXCEPT ![o] = ContentsOf(ve, he)[p], ![p] = <<>>]
<1>1. o # p
    OBVIOUS
<1>2. PICK we, x : we = [ve EXCEPT ![o] = ve[p], ![p] = ve[o]] /\ x = Emptied(ve[p])
    OBVIOUS
<1>3. PICK c, d : c = ContentsOf(ve, he) /\ d = ContentsOf(we, he)
    OBVIOUS
<1>4. Good(we, he) /\ d = [c EXCEPT ![o] = c[p], ![p] = c[o]]
    <2>1. /\ Good([ve EXCEPT ![o] = ve[p], ![p] = ve[o]], he)
          /\ ContentsOf([ve EXCEPT ![o] = ve[p], ![p] = ve[o]], he)
             = [ContentsOf(ve, he) EXCEPT ![o] = ContentsOf(ve, he)[p],
                                          ![p] = ContentsOf(ve, he)[o]]
        BY Swapped
    <2> QED
        BY <1>2, <1>3, <2>1
<1>5. Shaped(At(ve[p], he))
    BY DEF Good
<1>6. Shaped(At(x, he)) /\ OwnOf(x) = {} /\ x # Gone /\ ElementsAt(x, he) = <<>>
    BY <1>2, <1>5, EmptiedIs
<1>7. we[p] = Gone
    BY <1>1, <1>2 DEF Good
<1>8. /\ Good([we EXCEPT ![p] = x], he)
      /\ ContentsOf([we EXCEPT ![p] = x], he) = [d EXCEPT ![p] = <<>>]
    <2>1. OwnOf(we[p]) = {}
        BY <1>7 DEF OwnOf
    <2>2. /\ \A b : b \in DOMAIN he <=> (b \in DOMAIN he /\ b \notin OwnOf(we[p])) \/ b \in OwnOf(x)
          /\ \A b \in DOMAIN he : b \notin OwnOf(we[p]) => he[b] = he[b] /\ b \notin OwnOf(x)
        BY <1>6, <2>1
    <2>3. /\ Good([we EXCEPT ![p] = x], he)
          /\ ContentsOf([we EXCEPT ![p] = x], he)
             = [ContentsOf(we, he) EXCEPT ![p] = ElementsAt(x, he)]
        BY <1>4, <1>6, <2>2, Replaced
    <2> QED
        BY <1>3, <1>6, <2>3
<1>9. [we EXCEPT ![p] = x] = MovedTo(ve, o, p)
    BY <1>1, <1>2 DEF Good, Emptied, MovedTo
<1>10. [d EXCEPT ![p] = <<>>] = [c EXCEPT ![o] = c[p], ![p] = <<>>]
    BY <1>1, <1>3, <1>4 DEF ContentsOf
<1> QED
    BY <1>3, <1>8, <1>9, <1>10

(* The end of an object is the end of its block.                           *)
Unowned(v, h) == IF IsDirect(v) THEN h ELSE Free(h, v.union.block)

LEMMA UnownedIs ==
    ASSUME NEW v, NEW h
    PROVE  /\ \A b : b \in DOMAIN Unowned(v, h) <=> b \in DOMAIN h /\ b \notin Own(v)
           /\ \A b \in DOMAIN h : b \notin Own(v) => Unowned(v, h)[b] = h[b]
<1>1. CASE IsDirect(v)
    BY <1>1 DEF Unowned, Own
<1>2. CASE ~IsDirect(v)
    BY <1>2 DEF Unowned, Own, Free
<1> QED
    BY <1>1, <1>2

LEMMA Ended ==
    ASSUME PrevectorAssumption, NEW ve, NEW he, Good(ve, he),
           NEW o \in Objects, ve[o] # Gone
    PROVE  /\ Good([ve EXCEPT ![o] = Gone], Unowned(ve[o], he))
           /\ ContentsOf([ve EXCEPT ![o] = Gone], Unowned(ve[o], he))
              = [ContentsOf(ve, he) EXCEPT ![o] = Gone]
<1>1. PICK h, v : h = Unowned(ve[o], he) /\ v = Gone
    OBVIOUS
<1>2. OwnOf(v) = {} /\ OwnOf(ve[o]) = Own(ve[o]) /\ ElementsAt(v, h) = Gone
    BY <1>1 DEF OwnOf, ElementsAt
<1>3. /\ \A b : b \in DOMAIN h <=> (b \in DOMAIN he /\ b \notin OwnOf(ve[o])) \/ b \in OwnOf(v)
      /\ \A b \in DOMAIN he : b \notin OwnOf(ve[o]) => h[b] = he[b] /\ b \notin OwnOf(v)
    BY <1>1, <1>2, UnownedIs
<1>4. /\ Good([ve EXCEPT ![o] = v], h)
      /\ ContentsOf([ve EXCEPT ![o] = v], h)
         = [ContentsOf(ve, he) EXCEPT ![o] = ElementsAt(v, h)]
    <2>1. v # Gone => Shaped(At(v, h))
        BY <1>1
    <2> QED
        BY <1>3, <2>1, Replaced
<1> QED
    BY <1>1, <1>2, <1>4

LEMMA DestroyKeeps ==
    ASSUME PrevectorAssumption, Good(vec, heap), NEW o \in Objects, Destroy(o)
    PROVE  Good(vec', heap') /\ StdVector!Destroy(o)
<1>1. /\ vec[o] # Gone /\ call' = [op |-> "destroy"]
      /\ vec' = [vec EXCEPT ![o] = Gone] /\ heap' = Unowned(vec[o], heap)
    BY DEF Destroy, Live, Released, Unowned
<1>2. Contents[o] # Gone
    BY <1>1, ContentsOfOne
<1>3. Good(vec', heap') /\ Contents' = [Contents EXCEPT ![o] = Gone]
    BY <1>1, Ended, ContentsAre
<1> QED
    BY <1>1, <1>2, <1>3 DEF StdVector!Destroy, StdVector!Update

LEMMA SwapKeeps ==
    ASSUME PrevectorAssumption, Good(vec, heap), NEW o \in Objects, NEW p \in Objects,
           Swap(o, p)
    PROVE  Good(vec', heap') /\ StdVector!Pair(o, p)
<1>1. /\ vec[o] # Gone /\ vec[p] # Gone /\ call' = [op |-> "swap", of |-> p]
      /\ vec' = [vec EXCEPT ![o] = vec[p], ![p] = vec[o]] /\ heap' = heap
    BY DEF Swap, Live
<1>2. Contents[o] # Gone /\ Contents[p] # Gone
    BY <1>1, ContentsOfOne
<1>3. /\ Good(vec', heap')
      /\ Contents' = [Contents EXCEPT ![o] = Contents[p], ![p] = Contents[o]]
    <2>1. /\ Good([vec EXCEPT ![o] = vec[p], ![p] = vec[o]], heap)
          /\ ContentsOf([vec EXCEPT ![o] = vec[p], ![p] = vec[o]], heap)
             = [ContentsOf(vec, heap) EXCEPT ![o] = ContentsOf(vec, heap)[p],
                                             ![p] = ContentsOf(vec, heap)[o]]
        BY Swapped
    <2> QED
        BY <1>1, <2>1, ContentsAre
<1> QED
    BY <1>1, <1>2, <1>3 DEF StdVector!Pair

LEMMA MoveConstructKeeps ==
    ASSUME PrevectorAssumption, Good(vec, heap), NEW o \in Objects, NEW p \in Objects,
           MoveConstruct(o, p)
    PROVE  Good(vec', heap') /\ StdVector!Pair(o, p)
<1>1. /\ vec[o] = Gone /\ vec[p] # Gone /\ call' = [op |-> "move", of |-> p]
      /\ vec' = [vec EXCEPT ![o] = vec[p], ![p].size = 0] /\ heap' = heap
    BY DEF MoveConstruct, Live
<1>2. Contents[o] = Gone /\ Contents[p] # Gone
    BY <1>1, ContentsOfOne
<1>3. /\ Good(vec', heap')
      /\ Contents' = [Contents EXCEPT ![o] = Contents[p], ![p] = <<>>]
    <2>1. /\ Good(MovedTo(vec, o, p), heap)
          /\ ContentsOf(MovedTo(vec, o, p), heap)
             = [ContentsOf(vec, heap) EXCEPT ![o] = ContentsOf(vec, heap)[p], ![p] = <<>>]
        BY <1>1, Moved
    <2> QED
        BY <1>1, <2>1, ContentsAre DEF MovedTo
<1> QED
    BY <1>1, <1>2, <1>3 DEF StdVector!Pair

(* An object moved to itself loses its elements, and its block.            *)
LEMMA MovedToItself ==
    ASSUME PrevectorAssumption, NEW ve, NEW he, Good(ve, he),
           NEW o \in Objects, ve[o] # Gone
    PROVE  /\ Good([ve EXCEPT ![o] = Emptied(ve[o])], Unowned(ve[o], he))
           /\ ContentsOf([ve EXCEPT ![o] = Emptied(ve[o])], Unowned(ve[o], he))
              = [ContentsOf(ve, he) EXCEPT ![o] = <<>>]
<1>1. PICK h, v : h = Unowned(ve[o], he) /\ v = Emptied(ve[o])
    OBVIOUS
<1>2. Shaped(At(ve[o], he))
    BY DEF Good
<1>3. Shaped(At(v, h)) /\ OwnOf(v) = {} /\ ElementsAt(v, h) = <<>>
    BY <1>1, <1>2, EmptiedIs
<1>4. OwnOf(ve[o]) = Own(ve[o])
    BY DEF OwnOf
<1>5. /\ \A b : b \in DOMAIN h <=> (b \in DOMAIN he /\ b \notin OwnOf(ve[o])) \/ b \in OwnOf(v)
      /\ \A b \in DOMAIN he : b \notin OwnOf(ve[o]) => h[b] = he[b] /\ b \notin OwnOf(v)
    BY <1>1, <1>3, <1>4, UnownedIs
<1>6. /\ Good([ve EXCEPT ![o] = v], h)
      /\ ContentsOf([ve EXCEPT ![o] = v], h)
         = [ContentsOf(ve, he) EXCEPT ![o] = ElementsAt(v, h)]
    BY <1>3, <1>5, Replaced
<1> QED
    BY <1>1, <1>3, <1>6

LEMMA MoveAssignKeeps ==
    ASSUME PrevectorAssumption, Good(vec, heap), NEW o \in Objects, NEW p \in Objects,
           MoveAssign(o, p)
    PROVE  Good(vec', heap') /\ StdVector!Pair(o, p)
<1>1. /\ vec[o] # Gone /\ vec[p] # Gone /\ call' = [op |-> "move_assign", of |-> p]
      /\ vec' = [vec EXCEPT ![o] = vec[p], ![p].size = 0]
      /\ heap' = Unowned(vec[o], heap)
    BY DEF MoveAssign, Live, Released, Unowned
<1>2. Contents[o] # Gone /\ Contents[p] # Gone
    BY <1>1, ContentsOfOne
<1>3. PICK h, c : h = Unowned(vec[o], heap) /\ c = Contents
    OBVIOUS
<1>4. c = ContentsOf(vec, heap)
    BY <1>3, ContentsAre
<1>5. CASE o = p
    <2>1. vec' = [vec EXCEPT ![o] = Emptied(vec[o])]
        BY <1>1, <1>5 DEF Good, Emptied
    <2>2. Good(vec', heap') /\ Contents' = [c EXCEPT ![o] = <<>>]
        <3>1. /\ Good([vec EXCEPT ![o] = Emptied(vec[o])], Unowned(vec[o], heap))
              /\ ContentsOf([vec EXCEPT ![o] = Emptied(vec[o])], Unowned(vec[o], heap))
                 = [ContentsOf(vec, heap) EXCEPT ![o] = <<>>]
            BY <1>1, MovedToItself
        <3> QED
            BY <1>1, <1>4, <2>1, <3>1, ContentsAre
    <2>3. [c EXCEPT ![o] = <<>>] = [c EXCEPT ![o] = c[p], ![p] = <<>>]
        BY <1>4, <1>5 DEF ContentsOf
    <2> QED
        BY <1>1, <1>2, <1>3, <2>2, <2>3 DEF StdVector!Pair
<1>6. CASE o # p
    <2>1. PICK we : we = [vec EXCEPT ![o] = Gone]
        OBVIOUS
    <2>2. Good(we, h) /\ ContentsOf(we, h) = [c EXCEPT ![o] = Gone]
        <3>1. /\ Good([vec EXCEPT ![o] = Gone], Unowned(vec[o], heap))
              /\ ContentsOf([vec EXCEPT ![o] = Gone], Unowned(vec[o], heap))
                 = [ContentsOf(vec, heap) EXCEPT ![o] = Gone]
            BY <1>1, Ended
        <3> QED
            BY <1>3, <1>4, <2>1, <3>1
    <2>3. we[o] = Gone /\ we[p] = vec[p]
        BY <1>6, <2>1 DEF Good
    <2>4. PICK d : d = [c EXCEPT ![o] = Gone]
        OBVIOUS
    <2>5. /\ Good([we EXCEPT ![o] = we[p], ![p].size = 0], h)
          /\ ContentsOf([we EXCEPT ![o] = we[p], ![p].size = 0], h)
             = [d EXCEPT ![o] = d[p], ![p] = <<>>]
        <3>1. /\ Good(MovedTo(we, o, p), h)
              /\ ContentsOf(MovedTo(we, o, p), h)
                 = [ContentsOf(we, h) EXCEPT ![o] = ContentsOf(we, h)[p], ![p] = <<>>]
            <4>1. Good(we, h) /\ we[o] = Gone /\ we[p] # Gone
                BY <1>1, <2>2, <2>3
            <4> QED
                BY <4>1, Moved
        <3> QED
            BY <2>2, <2>4, <3>1 DEF MovedTo
    <2>6. [we EXCEPT ![o] = we[p], ![p].size = 0] = vec'
        BY <1>1, <1>6, <2>1, <2>3 DEF Good
    <2>7. [d EXCEPT ![o] = d[p], ![p] = <<>>] = [c EXCEPT ![o] = c[p], ![p] = <<>>]
        BY <1>4, <1>6, <2>4 DEF ContentsOf
    <2>8. Good(vec', heap') /\ Contents' = [c EXCEPT ![o] = c[p], ![p] = <<>>]
        BY <1>1, <1>3, <2>5, <2>6, <2>7, ContentsAre
    <2> QED
        BY <1>1, <1>2, <1>3, <2>8 DEF StdVector!Pair
<1> QED
    BY <1>5, <1>6
-----------------------------------------------------------------------------
(* The inductive invariant.                                                *)
VInv == Good(vec, heap)

LEMMA InitHolds ==
    ASSUME VectorInit
    PROVE  VInv /\ StdVector!Init
<1>1. vec = [o \in Objects |-> Gone] /\ heap = <<>> /\ call = [op |-> "none"]
    BY DEF VectorInit
<1>2. \A o \in Objects : vec[o] = Gone /\ OwnOf(vec[o]) = {}
    BY <1>1 DEF OwnOf
<1>3. DOMAIN heap = {}
    BY <1>1
<1>4. VInv
    BY <1>1, <1>2, <1>3 DEF VInv, Good
<1>5. Contents = [o \in Objects |-> Gone]
    BY <1>2, ContentsAre DEF ContentsOf, ElementsAt
<1> QED
    BY <1>1, <1>4, <1>5 DEF StdVector!Init

LEMMA StepHolds ==
    ASSUME PrevectorAssumption, VInv, [VectorNext]_vars
    PROVE  VInv' /\ [StdVector!Next]_<<Contents, call>>
<1>1. Good(vec, heap)
    BY DEF VInv
<1>2. ASSUME Good(vec', heap') /\ StdVector!Next
      PROVE  VInv' /\ [StdVector!Next]_<<Contents, call>>
    BY <1>2 DEF VInv
<1>3. CASE UNCHANGED vars
    <2>1. vec' = vec /\ heap' = heap /\ call' = call
        BY <1>3 DEF vars
    <2>2. Contents' = Contents
        BY <2>1, ContentsAre
    <2> QED
        BY <1>1, <2>1, <2>2 DEF VInv
<1>4. ASSUME NEW o \in Objects, Single(o)
      PROVE  Good(vec', heap') /\ StdVector!Next
    BY <1>1, <1>4, SingleKeeps DEF StdVector!Next
<1>5. ASSUME NEW o \in Objects, Construct(o)
      PROVE  Good(vec', heap') /\ StdVector!Next
    BY <1>1, <1>5, ConstructKeeps DEF StdVector!Next
<1>6. ASSUME NEW o \in Objects, Destroy(o)
      PROVE  Good(vec', heap') /\ StdVector!Next
    BY <1>1, <1>6, DestroyKeeps DEF StdVector!Next
<1>7. ASSUME NEW o \in Objects, NEW p \in Objects,
             \/ CopyConstruct(o, p) \/ MoveConstruct(o, p)
             \/ CopyAssign(o, p) \/ MoveAssign(o, p) \/ Swap(o, p)
      PROVE  Good(vec', heap') /\ StdVector!Next
    <2>1. Good(vec', heap') /\ StdVector!Pair(o, p)
        BY <1>1, <1>7, CopyConstructKeeps, MoveConstructKeeps, CopyAssignKeeps,
           MoveAssignKeeps, SwapKeeps
    <2> QED
        BY <2>1 DEF StdVector!Next
<1> QED
    BY <1>2, <1>3, <1>4, <1>5, <1>6, <1>7 DEF VectorNext

LEMMA Invariance ==
    ASSUME PrevectorAssumption
    PROVE  Spec => []VInv
<1>1. VectorInit => VInv
    BY InitHolds
<1>2. VInv /\ [VectorNext]_vars => VInv'
    BY StepHolds
<1> QED
    BY <1>1, <1>2, PTL DEF Spec

(* prevector implements Vector, for any number of objects, of cells in the *)
(* object and of bits of size_type: each constructor, assignment, resize,  *)
(* insert, erase and push_back leaves the elements std::vector would, and  *)
(* copies, moves, swaps and moves to itself do.                            *)
THEOREM VectorKeepsPromise ==
    ASSUME PrevectorAssumption
    PROVE  Spec => IsVector
<1>1. VectorInit => StdVector!Init
    BY InitHolds
<1>2. VInv /\ [VectorNext]_vars => [StdVector!Next]_<<Contents, call>>
    BY StepHolds
<1> QED
    BY <1>1, <1>2, Invariance, PTL DEF Spec, IsVector, StdVector!Spec

LEMMA ShapeFits ==
    ASSUME PrevectorAssumption, NEW v, NEW h, Shaped(At(v, h))
    PROVE  /\ Size(v) <= Capacity(v) /\ Len(v.union.cells) = N
           /\ ~IsDirect(v) => Len(h[v.union.block]) = Capacity(v)
<1>1. PICK n, k, f : Shape(At(v, h), n, k, f)
    BY DEF Shaped
<1>2. PICK b, c, e, z, i :
        /\ b \in Nat /\ c \in Nat /\ e \in [1 .. N -> Cell] /\ z \in Nat
        /\ At(v, h) = Placed(b, c, e, z, i)
        /\ \/ z = n /\ k = N /\ f = e
           \/ z = n + N + 1 /\ k = c /\ b \in DOMAIN i /\ i[b] = f
    BY <1>1 DEF Shape
<1>3. N \in Nat
    BY NumbersAre
<1>4. n \in Nat /\ k \in Nat /\ n <= k /\ f \in [1 .. k -> Cell]
    BY <1>1 DEF Shape, Counts
<1>5. v = Object(b, c, e, z) /\ h = i /\ At(v, h).v = v
    BY <1>2 DEF At, Placed
<1>6. v.union.block = b /\ v.union.cells = e /\ v.size = z
    BY <1>5 DEF Object
<1>7. Size(v) = n /\ Capacity(v) = k /\ Len(f) = k
    BY <1>1, <1>5, ShapeFacts
<1>8. Len(v.union.cells) = N
    BY <1>2, <1>3, <1>6
<1>9. ~IsDirect(v) => h[b] = f
    BY <1>2, <1>3, <1>4, <1>5, <1>6 DEF IsDirect
<1> QED
    BY <1>4, <1>6, <1>7, <1>8, <1>9

(* No block of the heap is leaked, shared or freed while in use, each is   *)
(* as long as the capacity its object believes in, and no object has more  *)
(* elements than capacity.                                                 *)
THEOREM BlocksHaveOneOwner ==
    ASSUME PrevectorAssumption
    PROVE  Spec => []OneOwner
<1>1. ASSUME VInv PROVE OneOwner
    <2> DEFINE indirect == {o \in Live : ~IsDirect(vec[o])}
    <2>1. \A o \in Live : o \in Objects /\ vec[o] # Gone /\ Shaped(At(vec[o], heap))
        BY <1>1 DEF VInv, Good, Live
    <2>2. \A o \in Live : /\ Size(vec[o]) <= Capacity(vec[o])
                          /\ Len(vec[o].union.cells) = N
                          /\ ~IsDirect(vec[o]) => Len(heap[vec[o].union.block]) = Capacity(vec[o])
        BY <2>1, ShapeFits
    <2>3. \A o \in Objects : OwnOf(vec[o]) = IF o \in indirect THEN {vec[o].union.block} ELSE {}
        BY <2>1 DEF OwnOf, Own, Live
    <2>4. indirect \subseteq Objects
        BY DEF Live
    <2> HIDE DEF indirect
    <2>5. \A o, p \in indirect : vec[o].union.block = vec[p].union.block => o = p
        BY <1>1, <2>3, <2>4 DEF VInv, Good
    <2>6. \A b : b \in DOMAIN heap <=> \E o \in indirect : b = vec[o].union.block
        BY <1>1, <2>3, <2>4 DEF VInv, Good
    <2>7. DOMAIN heap = {vec[o].union.block : o \in indirect}
        BY <2>6
    <2> QED
        BY <2>2, <2>5, <2>7 DEF OneOwner, indirect
<1> QED
    BY <1>1, Invariance, PTL
=============================================================================
