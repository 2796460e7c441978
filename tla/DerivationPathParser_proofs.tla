--------------------- MODULE DerivationPathParser_proofs ---------------------
(***************************************************************************)
(* The parser, for texts of any length, any radix and any width of a word: *)
(* where its cursor is, which texts it accepts and as what, and that what  *)
(* string() prints it reads back.                                          *)
(***************************************************************************)
EXTENDS DerivationPathParser, FiniteSetTheorems, SequenceTheorems,
        WellFoundedInduction, TLAPS

(* A set of numbers that is not empty has a least element.                 *)
LEMMA Least ==
    ASSUME NEW S, S \subseteq Nat, S # {}
    PROVE  \E m \in S : \A k \in S : m <= k
<1> DEFINE R == OpToRel(<, Nat)
<1>1. \A x, y \in Nat : x < y => <<x, y>> \in R
    BY DEF OpToRel
<1>2. IsWellFoundedOn(R, Nat)
    BY NatLessThanWellFounded
<1> HIDE DEF R
<1>3. PICK x \in S : \A y \in S : ~(<<y, x>> \in R)
    BY <1>2, WFMin, Zenon
<1>4. ASSUME NEW y \in S
      PROVE  x <= y
    <2>1. x \in Nat /\ y \in Nat
        OBVIOUS
    <2>2. ~(y < x)
        BY <1>1, <1>3, <2>1
    <2> QED
        BY <2>1, <2>2
<1> QED
    BY <1>4

(* The end of a run of characters is inside the text, or just past it, and *)
(* holds no character of the run.                                          *)
LEMMA PastFacts ==
    ASSUME text \in Seq(Char), NEW C, NEW i \in 1 .. Len(text) + 1
    PROVE  /\ Past(i, C) \in i .. Len(text) + 1
           /\ \A k \in i .. Past(i, C) - 1 : text[k] \in C
           /\ AtEnd(Past(i, C)) \/ text[Past(i, C)] \notin C
<1> DEFINE S == {j \in i .. Len(text) + 1 : AtEnd(j) \/ text[j] \notin C}
           G(j) == /\ \A k \in i .. j - 1 : text[k] \in C
                   /\ AtEnd(j) \/ text[j] \notin C
<1>1. Len(text) \in Nat
    OBVIOUS
<1>2. S \subseteq Nat
    BY <1>1
<1>3. Len(text) + 1 \in S
    BY <1>1 DEF AtEnd
<1>4. PICK m \in S : \A k \in S : m <= k
    BY <1>2, <1>3, Least
<1>5. m \in i .. Len(text) + 1 /\ (AtEnd(m) \/ text[m] \notin C)
    OBVIOUS
<1>6. ASSUME NEW k \in i .. m - 1
      PROVE  text[k] \in C
    <2>1. k \in i .. Len(text) + 1 /\ ~(m <= k)
        BY <1>1, <1>5
    <2>2. k \notin S
        BY <1>4, <2>1
    <2> QED
        BY <2>1, <2>2
<1>7. G(m)
    BY <1>5, <1>6
<1>8. Past(i, C) \in i .. Len(text) + 1 /\ G(Past(i, C))
    BY <1>5, <1>7 DEF Past
<1> QED
    BY <1>8
-----------------------------------------------------------------------------
(* What the separator leaves: a cursor inside the text, before its end if  *)
(* the loop goes on, at its end if the parse has succeeded.                *)
LEMMA SeparatorFacts ==
    ASSUME text \in Seq(Char), NEW i \in 1 .. Len(text) + 1, Separator(i)
    PROVE  /\ it' \in i .. Len(text) + 1
           /\ status' \in {"loop", "parsed", "thrown"}
           /\ status' = "loop" => it' = i + 1 /\ it' # Len(text) + 1
           /\ status' = "parsed" => it' = Len(text) + 1
<1>1. Len(text) \in Nat
    OBVIOUS
<1>2. CASE AtEnd(i)
    BY <1>1, <1>2 DEF Separator, At, AtEnd
<1>3. CASE ~AtEnd(i) /\ At(i, "/")
    BY <1>1, <1>3 DEF Separator, AtEnd
<1>4. CASE ~AtEnd(i) /\ ~At(i, "/")
    BY <1>1, <1>4 DEF Separator
<1> QED
    BY <1>2, <1>3, <1>4

(* A turn of the loop appends a component and leaves the cursor behind the *)
(* digits it has skipped, and behind their mark.                           *)
LEMMA ReadComponentFacts ==
    ASSUME TypeOK, ReadComponent
    PROVE  /\ \E x \in DerivationPathIndex : indices' = Append(indices, x)
           /\ \E i \in it .. Len(text) + 1 : Separator(i)
<1> DEFINE e == Past(it, DigitChars)
           hardened == At(e, "'")
<1>1. text \in Seq(Char) /\ Len(text) \in Nat /\ it \in 1 .. Len(text) + 1
    BY DEF TypeOK
<1>2. e \in it .. Len(text) + 1
    BY <1>1, PastFacts
<1>3. hardened \in BOOLEAN /\ (hardened => e # Len(text) + 1)
    BY DEF At, AtEnd
<1>4. PICK v \in Scanned(it) : indices' = Append(indices, Component(v, hardened))
    BY DEF ReadComponent
<1>5. v \in Index
    BY <1>4 DEF Scanned, Fitted
<1>6. Component(v, hardened) \in DerivationPathIndex
    BY <1>3, <1>5 DEF Component, DerivationPathIndex
<1>7. Separator(IF hardened THEN e + 1 ELSE e)
    BY DEF ReadComponent
<1> HIDE DEF e, hardened
<1>8. (IF hardened THEN e + 1 ELSE e) \in it .. Len(text) + 1
    BY <1>1, <1>2, <1>3
<1> QED
    BY <1>4, <1>6, <1>7, <1>8

(* Every step of the parser keeps the cursor in the text.                  *)
LEMMA NextTypeOK == TypeOK /\ [Next]_vars => TypeOK'
<1> SUFFICES ASSUME TypeOK, [Next]_vars PROVE TypeOK'
    OBVIOUS
<1>1. text \in Seq(Char) /\ Len(text) \in Nat /\ it \in 1 .. Len(text) + 1
    BY DEF TypeOK
<1>2. CASE UNCHANGED vars
    BY <1>2 DEF TypeOK, vars, AtEnd
<1>3. CASE SkipRoot
    <2> DEFINE i == IF At(1, "m") THEN 2 ELSE 1
    <2>1. i \in 1 .. Len(text) + 1
        BY <1>1 DEF At, AtEnd
    <2>2. it' = (IF At(i, "/") THEN i + 1 ELSE i) /\ UNCHANGED <<text, indices>>
          /\ status' = (IF AtEnd(it)' THEN "parsed" ELSE "loop")
        BY <1>3 DEF SkipRoot, AtEnd
    <2> HIDE DEF i
    <2>3. it' \in 1 .. Len(text) + 1
        BY <1>1, <2>1, <2>2 DEF At, AtEnd
    <2> QED
        BY <2>2, <2>3 DEF TypeOK
<1>4. CASE ReadComponent
    <2>1. PICK i \in it .. Len(text) + 1 : Separator(i)
        BY <1>4, ReadComponentFacts
    <2>2. i \in 1 .. Len(text) + 1
        BY <1>1
    <2>3. /\ it' \in 1 .. Len(text) + 1
          /\ status' \in {"loop", "parsed", "thrown"}
          /\ status' = "loop" => it' # Len(text) + 1
          /\ status' = "parsed" => it' = Len(text) + 1
        BY <1>1, <2>1, <2>2, SeparatorFacts
    <2>4. indices' \in Seq(DerivationPathIndex)
        BY <1>4, ReadComponentFacts DEF TypeOK
    <2>5. UNCHANGED text
        BY <1>4 DEF ReadComponent
    <2> QED
        BY <1>1, <2>3, <2>4, <2>5 DEF TypeOK, AtEnd
<1>5. CASE InvalidComponent
    BY <1>5 DEF TypeOK, InvalidComponent
<1> QED
    BY <1>2, <1>3, <1>4, <1>5 DEF Next

(* The parser's state keeps its type for texts of any length: the cursor   *)
(* never passes the end of the text, is before it at every turn of the     *)
(* loop and at it when the text was read as a path.                        *)
THEOREM CursorInText == Spec => []TypeOK
<1>1. Init => TypeOK
    BY DEF Init, TypeOK, BoundedSeq, SeqOf, AtEnd
<1> QED
    BY <1>1, NextTypeOK, PTL DEF Spec

(* Each turn of the loop that does not end it moves the cursor, so there   *)
(* are no more turns than characters.                                      *)
THEOREM CursorAdvances == Spec => Advances
<1>1. TypeOK /\ [Next]_vars
      => [status = "loop" /\ status' = "loop" => it' > it]_vars
    <2> SUFFICES ASSUME TypeOK, Next, status = "loop", status' = "loop"
                 PROVE  it' > it
        BY DEF vars
    <2>1. ReadComponent
        BY DEF Next, SkipRoot, InvalidComponent
    <2>2. PICK i \in it .. Len(text) + 1 : Separator(i)
        BY <2>1, ReadComponentFacts
    <2>3. text \in Seq(Char) /\ it \in Nat /\ i \in 1 .. Len(text) + 1
        BY DEF TypeOK
    <2>4. it' = i + 1
        BY <2>2, <2>3, SeparatorFacts
    <2> QED
        BY <2>2, <2>3, <2>4
<1> QED
    BY <1>1, CursorInText, PTL DEF Spec, Advances
-----------------------------------------------------------------------------
(* Characters that are told apart.                                         *)
LEMMA CharFacts ==
    /\ Sign("/") # Sign("'") /\ Sign("/") # Sign("m") /\ Sign("blank") # Sign("'")
    /\ Sign("blank") # Sign("/")
    /\ \A c \in DigitChars : c # Sign("/") /\ c # Sign("'") /\ c # Sign("blank")
    /\ \A c \in DigitChars : c \in Char
<1>1. ASSUME NEW c, NEW d, c # d
      PROVE  Sign(c) # Sign(d)
    <2>1. Sign(c).sign = c /\ Sign(d).sign = d
        BY DEF Sign
    <2> QED
        BY <1>1, <2>1, Zenon
<1>2. ASSUME NEW c \in DigitChars, NEW x
      PROVE  c # Sign(x)
    <2>1. "digit" \in DOMAIN c /\ "digit" \notin DOMAIN Sign(x)
        BY DEF DigitChars, Sign
    <2> QED
        BY <2>1
<1>3. \A c \in DigitChars : c \in Char
    BY DEF DigitChars, Char
<1>4. "/" # "'" /\ "/" # "m" /\ "blank" # "'" /\ "blank" # "/"
    OBVIOUS
<1> QED
    BY <1>1, <1>2, <1>3, <1>4

(* The end of a run is the only position with what PastFacts says of it.   *)
LEMMA PastIs ==
    ASSUME text \in Seq(Char), NEW C, NEW i \in 1 .. Len(text) + 1,
           NEW j \in i .. Len(text) + 1, \A k \in i .. j - 1 : text[k] \in C,
           AtEnd(j) \/ text[j] \notin C
    PROVE  Past(i, C) = j
<1> DEFINE p == Past(i, C)
<1>1. /\ p \in i .. Len(text) + 1 /\ \A k \in i .. p - 1 : text[k] \in C
      /\ AtEnd(p) \/ text[p] \notin C
    BY PastFacts
<1>2. Len(text) \in Nat
    OBVIOUS
<1> HIDE DEF p
<1>3. ~(p < j)
    BY <1>1, <1>2 DEF AtEnd
<1>4. ~(j < p)
    BY <1>1, <1>2 DEF AtEnd
<1> QED
    BY <1>1, <1>2, <1>3, <1>4 DEF p

(* The longest root of a text is what SkipRoot skips.                      *)
LEMMA RootIs ==
    ASSUME text \in Seq(Char)
    PROVE  /\ RootLength \in Nat
           /\ LET i == IF At(1, "m") THEN 2 ELSE 1
              IN  RootLength + 1 = IF At(i, "/") THEN i + 1 ELSE i
<1> DEFINE R == {q \in Roots : IsPrefix(q, text)}
           L == {Len(r) : r \in R}
           i == IF At(1, "m") THEN 2 ELSE 1
<1>1. Len(text) \in Nat
    OBVIOUS
<1>2. <<>> \in R
    BY DEF Roots, IsPrefix
<1>3. \A c : <<c>> \in R <=> <<c>> \in Roots /\ Len(text) >= 1 /\ text[1] = c
    <2> SUFFICES ASSUME NEW c, Len(text) >= 1
                 PROVE  SubSeq(<<c>>, 1, 1) = SubSeq(text, 1, 1) <=> text[1] = c
        BY <1>1 DEF IsPrefix
    <2> QED
        BY <1>1
<1>4. \A c, d : <<c, d>> \in R <=>
          <<c, d>> \in Roots /\ Len(text) >= 2 /\ text[1] = c /\ text[2] = d
    <2> SUFFICES ASSUME NEW c, NEW d, Len(text) >= 2
                 PROVE  SubSeq(<<c, d>>, 1, 2) = SubSeq(text, 1, 2)
                        <=> text[1] = c /\ text[2] = d
        BY <1>1 DEF IsPrefix
    <2> QED
        BY <1>1
<1>5. /\ <<Sign("m")>> \in R <=> At(1, "m")
      /\ <<Sign("/")>> \in R <=> At(1, "/")
      /\ <<Sign("m"), Sign("/")>> \in R <=> At(1, "m") /\ At(2, "/")
    BY <1>1, <1>3, <1>4 DEF Roots, At, AtEnd
<1>6. At(1, "m") => ~At(1, "/")
    BY CharFacts DEF At
<1>7. R \subseteq {<<>>, <<Sign("m")>>, <<Sign("/")>>, <<Sign("m"), Sign("/")>>}
    BY DEF Roots
<1> HIDE DEF R
<1> DEFINE n == (IF At(i, "/") THEN i + 1 ELSE i) - 1
<1>8. \A c, d : Len(<<c>>) = 1 /\ Len(<<c, d>>) = 2 /\ Len(<<>>) = 0
    OBVIOUS
<1>9. n \in L
    <2>1. CASE At(1, "m") /\ At(2, "/")
        BY <1>5, <1>8, <2>1
    <2>2. CASE At(1, "m") /\ ~At(2, "/")
        BY <1>5, <1>8, <2>2
    <2>3. CASE ~At(1, "m") /\ At(1, "/")
        BY <1>5, <1>8, <2>3
    <2>4. CASE ~At(1, "m") /\ ~At(1, "/")
        BY <1>2, <1>8, <2>4
    <2> QED
        BY <2>1, <2>2, <2>3, <2>4
<1>10. ASSUME NEW q \in R
       PROVE  Len(q) \in Int /\ n >= Len(q)
    <2>1. CASE q = <<>>
        BY <1>8, <2>1
    <2>2. CASE q = <<Sign("m")>>
        BY <1>5, <1>8, <2>2
    <2>3. CASE q = <<Sign("/")>>
        BY <1>5, <1>6, <1>8, <2>3
    <2>4. CASE q = <<Sign("m"), Sign("/")>>
        BY <1>5, <1>8, <2>4
    <2> QED
        BY <1>7, <2>1, <2>2, <2>3, <2>4
<1>11. n \in Int /\ L \subseteq Int /\ \A k \in L : n >= k
    BY <1>10
<1>12. RootLength = Max(L)
    BY DEF RootLength, R
<1> HIDE DEF L, n
<1>13. \A x \in L : (\A y \in L : x >= y) => x = n
    BY <1>9, <1>11
<1>14. Max(L) = n
    BY <1>9, <1>11, <1>13 DEF Max
<1> QED
    BY <1>11, <1>12, <1>14 DEF n
-----------------------------------------------------------------------------
PieceEnd(i) == Past(i, Char \ {Sign("/")})

(* Where sscanf leaves a component: behind its digits and their mark.      *)
Behind(i) ==
    LET e == Past(i, DigitChars) IN IF At(e, "'") THEN e + 1 ELSE e

(* A piece ends at a slash or at the end of the text and holds no slash.   *)
LEMMA PieceEndFacts ==
    ASSUME text \in Seq(Char), NEW i \in Starts
    PROVE  /\ i \in 1 .. Len(text) /\ i >= RootLength + 1
           /\ PieceEnd(i) \in i .. Len(text) + 1
           /\ \A k \in i .. PieceEnd(i) - 1 : text[k] \in Char /\ text[k] # Sign("/")
           /\ AtEnd(PieceEnd(i)) \/ text[PieceEnd(i)] = Sign("/")
<1>1. RootLength \in Nat /\ Len(text) \in Nat
    BY RootIs
<1>2. i \in 1 .. Len(text) /\ i >= RootLength + 1
    BY <1>1 DEF Starts
<1>3. /\ PieceEnd(i) \in i .. Len(text) + 1
      /\ \A k \in i .. PieceEnd(i) - 1 : text[k] \in Char \ {Sign("/")}
      /\ AtEnd(PieceEnd(i)) \/ text[PieceEnd(i)] \notin Char \ {Sign("/")}
    BY <1>2, PastFacts DEF PieceEnd
<1>4. ~AtEnd(PieceEnd(i)) => text[PieceEnd(i)] \in Char
    BY <1>1, <1>2, <1>3 DEF AtEnd
<1> QED
    BY <1>2, <1>3, <1>4

(* The next piece begins behind the slash.                                 *)
LEMMA NextStart ==
    ASSUME text \in Seq(Char), NEW i \in Starts
    PROVE  /\ {j \in Starts : j < PieceEnd(i) + 1} = {j \in Starts : j < i} \cup {i}
           /\ PieceEnd(i) + 1 <= Len(text) => PieceEnd(i) + 1 \in Starts
<1> DEFINE f == PieceEnd(i)
<1>1. Len(text) \in Nat /\ RootLength \in Nat
    BY RootIs
<1>2. /\ i \in 1 .. Len(text) /\ i >= RootLength + 1 /\ f \in i .. Len(text) + 1
      /\ \A k \in i .. f - 1 : text[k] # Sign("/")
      /\ AtEnd(f) \/ text[f] = Sign("/")
    BY PieceEndFacts
<1> HIDE DEF f
<1>3. ASSUME NEW j \in Starts, j < f + 1, ~(j < i)
      PROVE  j = i
    <2>1. j \in Int /\ (j = RootLength + 1 \/ text[j - 1] = Sign("/"))
        BY <1>1 DEF Starts
    <2>2. ~(j - 1 \in i .. f - 1)
        BY <1>1, <1>2, <1>3, <2>1
    <2> QED
        BY <1>1, <1>2, <1>3, <2>1, <2>2
<1>4. \A j \in Starts : j \in Int
    BY <1>1 DEF Starts
<1>5. {j \in Starts : j < f + 1} = {j \in Starts : j < i} \cup {i}
    <2>1. \A j \in Starts : j < f + 1 <=> j < i \/ j = i
        BY <1>1, <1>2, <1>3, <1>4
    <2> QED
        BY <2>1
<1>6. f + 1 <= Len(text) => f + 1 \in Starts
    BY <1>1, <1>2 DEF Starts, AtEnd
<1> QED
    BY <1>5, <1>6 DEF f

(* The parser reads a piece to its end exactly when it is a good one, and  *)
(* then has read its digits and its mark.                                  *)
LEMMA PieceRead ==
    ASSUME text \in Seq(Char), NEW i \in Starts
    PROVE  LET e == Past(i, DigitChars)
           IN  /\ e \in i .. Len(text) + 1 /\ Behind(i) \in e .. PieceEnd(i)
               /\ IsPiece(Piece(i)) <=> e # i /\ Behind(i) = PieceEnd(i)
               /\ IsPiece(Piece(i)) =>
                     /\ Unmarked(Piece(i)) = SubSeq(text, i, e - 1)
                     /\ IsMarked(Piece(i)) = At(e, "'")
<1> DEFINE e == Past(i, DigitChars)
           f == PieceEnd(i)
           g == Behind(i)
           p == Piece(i)
<1>1. Len(text) \in Nat
    OBVIOUS
<1>2. /\ i \in 1 .. Len(text) /\ f \in i .. Len(text) + 1
      /\ \A k \in i .. f - 1 : text[k] \in Char /\ text[k] # Sign("/")
      /\ AtEnd(f) \/ text[f] = Sign("/")
    BY PieceEndFacts
<1>3. /\ e \in i .. Len(text) + 1
      /\ \A k \in i .. e - 1 : text[k] \in DigitChars
      /\ AtEnd(e) \/ text[e] \notin DigitChars
    BY <1>2, PastFacts
<1>4. g = IF At(e, "'") THEN e + 1 ELSE e
    BY DEF Behind
<1>5. p = SubSeq(text, i, f - 1)
    BY DEF Piece, PieceEnd
<1> HIDE DEF e, f, g, p
<1>6. e <= f
    BY <1>1, <1>2, <1>3, CharFacts DEF AtEnd
<1>7. At(e, "'") => e < f
    BY <1>1, <1>2, <1>3, <1>6, CharFacts DEF At, AtEnd
<1>8. g \in e .. f
    BY <1>1, <1>2, <1>3, <1>4, <1>6, <1>7
<1>9. /\ p \in Seq(Char) /\ Len(p) = f - i
      /\ \A k \in 1 .. f - i : p[k] = text[i + k - 1]
    <2>1. \A k \in i .. f - 1 : text[k] \in Char
        BY <1>2
    <2>2. /\ p \in Seq(Char)
          /\ Len(p) = IF i <= f - 1 THEN (f - 1) - i + 1 ELSE 0
          /\ \A k \in 1 .. (f - 1) - i + 1 : p[k] = text[i + k - 1]
        BY <1>1, <1>2, <1>5, <2>1, SubSeqProperties
    <2> QED
        BY <1>1, <1>2, <2>2
<1>10. CASE f = i
    <2>1. p = <<>>
        BY <1>1, <1>2, <1>5, <1>10, SubSeqEmpty
    <2>2. ~IsPiece(p)
        BY <2>1 DEF IsPiece, Unmarked, IsMarked
    <2>3. e = i
        BY <1>1, <1>2, <1>3, <1>6, <1>10
    <2> QED
        BY <1>3, <1>8, <2>2, <2>3 DEF e, f, g, p
<1>11. CASE f # i /\ text[f - 1] = Sign("'")
    <2> DEFINE q == SubSeq(text, i, f - 2)
    <2>1. p # <<>> /\ Last(p) = Sign("'")
        BY <1>1, <1>2, <1>9, <1>11 DEF Last
    <2>2. IsMarked(p)
        BY <2>1 DEF IsMarked
    <2>3. Unmarked(p) = q
        <3>1. Unmarked(p) = SubSeq(p, 1, f - i - 1)
            BY <1>9, <2>2 DEF Unmarked, Front
        <3>2. CASE f = i + 1
            BY <1>1, <1>2, <3>1, <3>2, SubSeqEmpty
        <3>3. CASE f # i + 1
            <4>1. /\ i \in 1 .. Len(text) /\ f - 1 \in 1 .. Len(text)
                  /\ 1 \in 1 .. (f - 1) - i + 1 /\ f - i - 1 \in 1 .. (f - 1) - i + 1
                BY <1>1, <1>2, <1>11, <3>3
            <4>2. SubSeq(SubSeq(text, i, f - 1), 1, f - i - 1)
                  = SubSeq(text, i + 1 - 1, i + (f - i - 1) - 1)
                BY <4>1, SubSeqOfSubSeq
            <4>3. i + 1 - 1 = i /\ i + (f - i - 1) - 1 = f - 2
                BY <1>1, <1>2
            <4> QED
                BY <1>5, <3>1, <4>2, <4>3
        <3> QED
            BY <3>2, <3>3
    <2>4. /\ q \in Seq(Char)
          /\ Len(q) = f - i - 1
          /\ \A k \in 1 .. f - i - 1 : q[k] = text[i + k - 1]
        <3>1. \A k \in i .. f - 2 : text[k] \in Char
            BY <1>1, <1>2
        <3>2. /\ q \in Seq(Char)
              /\ Len(q) = IF i <= f - 2 THEN (f - 2) - i + 1 ELSE 0
              /\ \A k \in 1 .. (f - 2) - i + 1 : q[k] = text[i + k - 1]
            BY <1>1, <1>2, <3>1, SubSeqProperties
        <3> QED
            BY <1>1, <1>2, <1>11, <3>2
    <2> HIDE DEF q
    <2>5. e <= f - 1
        BY <1>1, <1>2, <1>3, <1>6, <1>11, CharFacts
    <2>6. IsPiece(p) <=>
              i # f - 1 /\ \A k \in 1 .. f - i - 1 : text[i + k - 1] \in DigitChars
        <3>1. q # <<>> <=> i # f - 1
            BY <1>1, <1>2, <1>11, <2>4, EmptySeq
        <3>2. DOMAIN q = 1 .. f - i - 1
            BY <2>4
        <3> QED
            BY <2>3, <2>4, <3>1, <3>2 DEF IsPiece
    <2>7. IsPiece(p) => e = f - 1 /\ e # i
        <3> SUFFICES ASSUME IsPiece(p), e # f - 1
                     PROVE  FALSE
            BY <2>6
        <3>1. e - i + 1 \in 1 .. f - i - 1 /\ i + (e - i + 1) - 1 = e
            BY <1>1, <1>2, <1>3, <2>5
        <3>2. text[i + (e - i + 1) - 1] \in DigitChars
            BY <2>6, <3>1, Zenon
        <3>3. ~AtEnd(e)
            BY <1>1, <1>2, <1>3, <2>5 DEF AtEnd
        <3> QED
            BY <1>3, <3>1, <3>2, <3>3
    <2>8. e = f - 1 /\ e # i => IsPiece(p)
        BY <1>1, <1>2, <1>3, <2>6
    <2>9. g = f <=> e = f - 1
        BY <1>1, <1>2, <1>3, <1>4, <1>11, <2>5 DEF At, AtEnd
    <2>10. e = f - 1 => At(e, "'")
        BY <1>1, <1>2, <1>11 DEF At, AtEnd
    <2>11. IsPiece(p) => Unmarked(p) = SubSeq(text, i, e - 1)
        BY <1>1, <1>2, <2>3, <2>7 DEF q
    <2> QED
        BY <1>3, <1>8, <2>2, <2>7, <2>8, <2>9, <2>10, <2>11 DEF e, f, g, p, At
<1>12. CASE f # i /\ text[f - 1] # Sign("'")
    <2>1. p # <<>> /\ Last(p) # Sign("'")
        BY <1>1, <1>2, <1>9, <1>12 DEF Last
    <2>2. ~IsMarked(p) /\ Unmarked(p) = p
        BY <2>1 DEF IsMarked, Unmarked
    <2>3. IsPiece(p) <=> \A k \in 1 .. f - i : text[i + k - 1] \in DigitChars
        <3>1. DOMAIN p = 1 .. f - i
            BY <1>9
        <3> QED
            BY <1>9, <2>1, <2>2, <3>1 DEF IsPiece
    <2>4. IsPiece(p) => e = f
        <3> SUFFICES ASSUME IsPiece(p), e # f
                     PROVE  FALSE
            OBVIOUS
        <3>1. e - i + 1 \in 1 .. f - i /\ i + (e - i + 1) - 1 = e
            BY <1>1, <1>2, <1>3, <1>6
        <3>2. text[i + (e - i + 1) - 1] \in DigitChars
            BY <2>3, <3>1, Zenon
        <3>3. ~AtEnd(e)
            BY <1>1, <1>2, <1>3, <1>6 DEF AtEnd
        <3> QED
            BY <1>3, <3>1, <3>2, <3>3
    <2>5. e = f => IsPiece(p)
        BY <1>1, <1>2, <1>3, <2>3
    <2>6. g = f <=> e = f
        BY <1>1, <1>2, <1>3, <1>4, <1>6, <1>7, <1>12 DEF At
    <2>7. e = f => ~At(e, "'")
        BY <1>7, <1>1, <1>2
    <2> QED
        BY <1>3, <1>5, <1>8, <1>12, <2>2, <2>4, <2>5, <2>6, <2>7 DEF e, f, g, p, At, IsMarked
<1> QED
    BY <1>10, <1>11, <1>12
-----------------------------------------------------------------------------
(* The pieces before position p were good and were read.                   *)
Passed(p) ==
    /\ Len(indices) = Cardinality({i \in Starts : i < p})
    /\ \A i \in Starts :
          i < p => IsPiece(Piece(i)) /\ ReadsPiece(indices[Ordinal(i)], Piece(i))

(* The cursor is at the beginning of a piece whenever the loop is entered, *)
(* and everything before it was read.                                      *)
ReadInv ==
    /\ status = "root" => it = 1 /\ indices = <<>>
    /\ status = "loop" => it \in Starts
    /\ status \in {"loop", "parsed"} => Passed(it)
    /\ status = "thrown" => ~WellFormed

(* How many pieces begin before one, and that the count reaches it.        *)
LEMMA OrdinalFacts ==
    ASSUME text \in Seq(Char), NEW p \in Int, NEW i \in Starts
    PROVE  /\ Cardinality({j \in Starts : j < p}) \in Nat
           /\ Ordinal(i) = Cardinality({j \in Starts : j < i}) + 1
           /\ i < p => Ordinal(i) \in 1 .. Cardinality({j \in Starts : j < p})
<1>1. IsFiniteSet(Starts) /\ \A j \in Starts : j \in Int
    <2>1. RootLength + 1 \in Int /\ Len(text) \in Int
        BY RootIs
    <2>2. Starts \subseteq RootLength + 1 .. Len(text)
        BY DEF Starts
    <2>3. IsFiniteSet(RootLength + 1 .. Len(text))
        BY <2>1, FS_Interval
    <2>4. IsFiniteSet(Starts)
        BY <2>2, <2>3, FS_Subset
    <2> QED
        BY <2>1, <2>2, <2>4
<1>2. \A q : /\ IsFiniteSet({j \in Starts : j < q})
             /\ Cardinality({j \in Starts : j < q}) \in Nat
    BY <1>1, FS_Subset, FS_CardinalityType
<1>3. {j \in Starts : j <= i} = {j \in Starts : j < i} \cup {i}
    BY <1>1
<1>4. Ordinal(i) = Cardinality({j \in Starts : j < i}) + 1
    <2>1. i \notin {j \in Starts : j < i}
        BY <1>1
    <2> QED
        BY <1>2, <1>3, <2>1, FS_AddElement DEF Ordinal
<1>5. ASSUME i < p
      PROVE  Ordinal(i) \in 1 .. Cardinality({j \in Starts : j < p})
    <2>1. {j \in Starts : j <= i} \subseteq {j \in Starts : j < p}
        BY <1>1, <1>5
    <2>2. Ordinal(i) <= Cardinality({j \in Starts : j < p})
        BY <1>2, <2>1, FS_Subset DEF Ordinal
    <2>3. /\ Cardinality({j \in Starts : j < i}) \in Nat
          /\ Cardinality({j \in Starts : j < p}) \in Nat
        BY <1>2
    <2> QED
        BY <1>4, <2>2, <2>3
<1> QED
    BY <1>2, <1>4, <1>5

(* Behind the root nothing was passed.                                     *)
LEMMA SkipRootReadInv == TypeOK /\ ReadInv /\ SkipRoot => ReadInv'
<1> SUFFICES ASSUME TypeOK, ReadInv, SkipRoot PROVE ReadInv'
    OBVIOUS
<1>1. text \in Seq(Char) /\ Len(text) \in Nat
    BY DEF TypeOK
<1>2. text' = text /\ indices' = <<>>
    BY DEF SkipRoot, ReadInv
<1>3. RootLength \in Nat /\ it' = RootLength + 1
    BY <1>1, RootIs DEF SkipRoot
<1>4. status' = IF it' = Len(text) + 1 THEN "parsed" ELSE "loop"
    BY <1>2 DEF SkipRoot, AtEnd
<1>5. Starts' = Starts
    BY <1>2 DEF Starts, RootLength
<1>6. status' = "loop" => it' \in Starts
    <2>1. it' \in 1 .. Len(text) + 1
        BY NextTypeOK, <1>2 DEF Next, TypeOK
    <2> QED
        BY <1>1, <1>3, <1>4, <2>1 DEF Starts
<1>7. \A i \in Starts : ~(i < it')
    BY <1>1, <1>3 DEF Starts
<1>8. Passed(it)'
    <2>1. {i \in Starts : i < it'} = {}
        BY <1>7
    <2>2. Cardinality({i \in Starts : i < it'}) = 0
        BY <2>1, FS_EmptySet
    <2> QED
        BY <1>2, <1>5, <1>7, <2>2 DEF Passed
<1> QED
    BY <1>4, <1>5, <1>6, <1>8 DEF ReadInv

(* A piece without digits at its head is no good one.                      *)
LEMMA InvalidReadInv == TypeOK /\ ReadInv /\ InvalidComponent => ReadInv'
<1> SUFFICES ASSUME TypeOK, ReadInv, InvalidComponent PROVE ReadInv'
    OBVIOUS
<1>1. text \in Seq(Char) /\ Len(text) \in Nat
    BY DEF TypeOK
<1>2. it \in Starts /\ ~Scans(it) /\ status' = "thrown" /\ text' = text
    BY DEF InvalidComponent, ReadInv
<1>3. it \in 1 .. Len(text)
    BY <1>1, <1>2, PieceEndFacts
<1>4. text[it] \notin DigitChars
    <2> SUFFICES ASSUME text[it] \in DigitChars PROVE FALSE
        OBVIOUS
    <2>1. text[it] \notin {Sign("blank")}
        BY CharFacts
    <2>2. NumberAt(it) = it
        <3>1. it \in 1 .. Len(text) + 1 /\ it \in it .. Len(text) + 1
              /\ \A k \in it .. it - 1 : text[k] \in {Sign("blank")}
            BY <1>1, <1>3
        <3> QED
            BY <1>1, <2>1, <3>1, PastIs DEF NumberAt
    <2> QED
        BY <1>1, <1>2, <1>3, <2>2 DEF Scans, AtEnd
<1>5. Past(it, DigitChars) = it
    <2>1. it \in 1 .. Len(text) + 1 /\ it \in it .. Len(text) + 1
          /\ \A k \in it .. it - 1 : text[k] \in DigitChars
        BY <1>1, <1>3
    <2> QED
        BY <1>1, <1>4, <2>1, PastIs
<1>6. ~IsPiece(Piece(it))
    BY <1>1, <1>2, <1>5, PieceRead
<1>7. ~WellFormed
    BY <1>2, <1>6 DEF WellFormed
<1>8. WellFormed' = WellFormed
    BY <1>2 DEF WellFormed, Starts, RootLength, Piece, Past, AtEnd
<1> QED
    BY <1>2, <1>7, <1>8 DEF ReadInv

(* A turn of the loop reads a piece and goes on behind it, or refuses it.  *)
LEMMA ReadComponentReadInv == TypeOK /\ ReadInv /\ ReadComponent => ReadInv'
<1> SUFFICES ASSUME TypeOK, ReadInv, ReadComponent PROVE ReadInv'
    OBVIOUS
<1> DEFINE e == Past(it, DigitChars)
           f == PieceEnd(it)
           g == Behind(it)
           before(p) == {i \in Starts : i < p}
<1>1. text \in Seq(Char) /\ Len(text) \in Nat /\ indices \in Seq(DerivationPathIndex)
      /\ Len(indices) \in Nat
    BY DEF TypeOK
<1>2. /\ text' = text /\ Scans(it) /\ it \in Starts /\ Passed(it) /\ Separator(g)
      /\ \E v \in Scanned(it) : indices' = Append(indices, Component(v, At(e, "'")))
    BY DEF ReadComponent, ReadInv, Behind
<1>3. PICK v \in Scanned(it) : indices' = Append(indices, Component(v, At(e, "'")))
    BY <1>2
<1>4. /\ it \in 1 .. Len(text) /\ f \in it .. Len(text) + 1
      /\ AtEnd(f) \/ text[f] = Sign("/")
      /\ \A k \in it .. f - 1 : text[k] # Sign("/")
    BY <1>1, <1>2, PieceEndFacts
<1>5. /\ e \in it .. Len(text) + 1 /\ g \in e .. f
      /\ IsPiece(Piece(it)) <=> e # it /\ g = f
      /\ IsPiece(Piece(it)) =>
            /\ Unmarked(Piece(it)) = SubSeq(text, it, e - 1)
            /\ IsMarked(Piece(it)) = At(e, "'")
    BY <1>1, <1>2, PieceRead
<1>6. /\ \A k \in it .. e - 1 : text[k] \in DigitChars
      /\ AtEnd(e) \/ text[e] \notin DigitChars
    BY <1>1, <1>4, PastFacts
<1>7. text[it] # Sign("blank") => NumberAt(it) = it
    <2>1. it \in 1 .. Len(text) + 1 /\ it \in it .. Len(text) + 1
          /\ \A k \in it .. it - 1 : text[k] \in {Sign("blank")}
        BY <1>1, <1>4
    <2> QED
        BY <1>1, <2>1, PastIs DEF NumberAt
<1>8. /\ Starts' = Starts /\ WellFormed' = WellFormed
      /\ \A i : Piece(i)' = Piece(i) /\ Ordinal(i)' = Ordinal(i)
    BY <1>2 DEF WellFormed, Starts, RootLength, Piece, Past, AtEnd, Ordinal
<1>9. g = IF At(e, "'") THEN e + 1 ELSE e
    BY DEF Behind
<1> HIDE DEF e, f, g
<1>10. CASE g # f
    <2>1. g \in it .. f - 1 /\ g \in 1 .. Len(text)
        BY <1>1, <1>4, <1>5, <1>10
    <2>2. ~AtEnd(g) /\ ~At(g, "/")
        BY <1>1, <1>4, <2>1 DEF At, AtEnd
    <2>3. status' = "thrown"
        BY <1>2, <2>2 DEF Separator
    <2>4. ~WellFormed
        BY <1>2, <1>5, <1>10 DEF WellFormed
    <2> QED
        BY <1>8, <2>3, <2>4 DEF ReadInv
<1>11. CASE g = f
    <2>1. e # it
        <3> SUFFICES ASSUME e = it PROVE FALSE
            OBVIOUS
        <3>1. text[it] \notin DigitChars /\ ~AtEnd(it)
            BY <1>1, <1>4, <1>6 DEF AtEnd
        <3>2. text[it] = Sign("blank")
            BY <1>2, <1>7, <3>1 DEF Scans
        <3>3. g = it
            BY <1>9, <3>2, CharFacts DEF At
        <3> QED
            BY <1>4, <1>11, <3>1, <3>2, <3>3, CharFacts
    <2>2. text[it] \in DigitChars
        BY <1>1, <1>4, <1>5, <1>6, <2>1
    <2>3. NumberAt(it) = it
        BY <1>7, <2>2, CharFacts
    <2>4. v \in Fitted(NumberOf(SubSeq(text, it, e - 1)))
        BY <2>3 DEF Scanned, e
    <2>5. IsPiece(Piece(it))
          /\ ReadsPiece(Component(v, At(e, "'")), Piece(it))
        BY <1>5, <1>11, <2>1, <2>4 DEF ReadsPiece, Component
    <2>6. status' \in {"loop", "parsed"}
          /\ it' = IF AtEnd(f) THEN f ELSE f + 1
        BY <1>2, <1>4, <1>11 DEF Separator, At, AtEnd
    <2>7. /\ before(f + 1) = before(it) \cup {it}
          /\ f + 1 <= Len(text) => f + 1 \in Starts
        BY <1>1, <1>2, NextStart DEF f
    <2>8. it \in Int /\ \A j \in Starts : j \in Int /\ j <= Len(text)
        BY <1>1, <1>4, RootIs DEF Starts
    <2>9. before(it') = before(it) \cup {it}
        <3>1. AtEnd(f) => \A j \in Starts : j < it' <=> j < f + 1
            BY <1>1, <2>6, <2>8 DEF AtEnd
        <3>2. \A j \in Starts : j < it' <=> j < f + 1
            BY <2>6, <3>1
        <3>3. before(it') = before(f + 1)
            BY <3>2
        <3> QED
            BY <2>7, <3>3
    <2>10. status' = "loop" => it' \in Starts
        <3> SUFFICES ASSUME status' = "loop" PROVE it' \in Starts
            OBVIOUS
        <3>1. ~AtEnd(f) /\ it' = f + 1 /\ it' # Len(text) + 1
            BY <1>1, <1>2, <1>4, <1>11, <2>6 DEF Separator, At, AtEnd
        <3>2. f + 1 <= Len(text)
            BY <1>1, <1>4, <3>1 DEF AtEnd
        <3> QED
            BY <2>7, <3>1, <3>2
    <2>11. Ordinal(it) = Len(indices) + 1
        BY <1>1, <1>2, <2>8, OrdinalFacts DEF Passed
    <2>12. Cardinality(before(it')) = Ordinal(it)
        <3>1. before(it) \cup {it} = {j \in Starts : j <= it}
            <4>1. \A j \in Starts : j <= it <=> j < it \/ j = it
                BY <2>8
            <4> QED
                BY <1>2, <4>1
        <3> QED
            BY <2>9, <3>1 DEF Ordinal
    <2>13. ASSUME NEW i \in Starts, i < it'
           PROVE  IsPiece(Piece(i)) /\ ReadsPiece(indices'[Ordinal(i)], Piece(i))
        <3>1. CASE i = it
            <4>1. indices'[Len(indices) + 1] = Component(v, At(e, "'"))
                BY <1>1, <1>3
            <4> QED
                BY <2>5, <2>11, <3>1, <4>1
        <3>2. CASE i # it
            <4>1. i < it
                BY <2>9, <2>13, <3>2
            <4>2. IsPiece(Piece(i)) /\ ReadsPiece(indices[Ordinal(i)], Piece(i))
                  /\ Len(indices) = Cardinality({j \in Starts : j < it})
                BY <1>2, <4>1 DEF Passed
            <4>3. Ordinal(i) \in 1 .. Len(indices)
                BY <1>1, <2>8, <4>1, <4>2, OrdinalFacts
            <4>4. indices'[Ordinal(i)] = indices[Ordinal(i)]
                BY <1>1, <1>3, <4>3
            <4> QED
                BY <4>2, <4>4
        <3> QED
            BY <3>1, <3>2
    <2>14. Len(indices') = Len(indices) + 1
        BY <1>1, <1>3
    <2>15. Passed(it)'
        BY <1>8, <2>11, <2>12, <2>13, <2>14 DEF Passed
    <2> QED
        BY <1>8, <2>6, <2>10, <2>15 DEF ReadInv
<1> QED
    BY <1>10, <1>11

(* The parser accepts the paths and no other text, and reads every         *)
(* component with its mark, for texts of any length, in any radix and for  *)
(* words of any width: a text it accepts is pieces of digits, marked or    *)
(* not, between slashes, and one it refuses is not.                        *)
THEOREM ParserReadsPaths == Spec => []ReadsPaths
<1>1. Init => ReadInv
    BY DEF Init, ReadInv
<1>2. TypeOK /\ ReadInv /\ [Next]_vars => ReadInv'
    <2> SUFFICES ASSUME TypeOK, ReadInv, [Next]_vars PROVE ReadInv'
        OBVIOUS
    <2>1. CASE UNCHANGED vars
        <3>1. /\ UNCHANGED <<text, it, indices, status>>
              /\ Starts' = Starts /\ WellFormed' = WellFormed
              /\ \A i : Piece(i)' = Piece(i) /\ Ordinal(i)' = Ordinal(i)
            BY <2>1 DEF WellFormed, Starts, RootLength, Piece, Past, AtEnd, Ordinal,
                        vars
        <3>2. Passed(it)' = Passed(it)
            BY <3>1 DEF Passed
        <3> QED
            BY <3>1, <3>2 DEF ReadInv
    <2> QED
        BY <2>1, SkipRootReadInv, ReadComponentReadInv, InvalidReadInv DEF Next
<1>3. TypeOK /\ ReadInv => ReadsPaths
    <2> SUFFICES ASSUME TypeOK, ReadInv, status = "parsed"
                 PROVE  WellFormed /\ Reads(indices)
        BY DEF ReadsPaths, ReadInv
    <2>1. text \in Seq(Char) /\ it = Len(text) + 1 /\ Passed(it)
        BY DEF TypeOK, AtEnd, ReadInv
    <2>2. \A i \in Starts : i < it
        BY <2>1, RootIs DEF Starts
    <2>3. {i \in Starts : i < it} = Starts
        BY <2>2
    <2> QED
        BY <2>1, <2>2, <2>3 DEF Passed, WellFormed, Reads
<1> QED
    BY <1>1, <1>2, <1>3, CursorInText, PTL DEF Spec
-----------------------------------------------------------------------------
(* The rest is about printing.  A number is read from its digits, printed  *)
(* to digits, and a path printed component by component, each by recursion *)
(* on a number: what holds along it is proved from the least number for    *)
(* which it would not.                                                     *)
IsValue(f, digits, l) ==
    f = [n \in 0 .. l |->
            IF n = 0 THEN 0 ELSE f[n - 1] * Radix + digits[n].digit]

LEMMA ValueExists ==
    ASSUME NEW digits, NEW l \in Nat
    PROVE  \E f : IsValue(f, digits, l)
<1> DEFINE T == {m \in Nat : ~ \E f : IsValue(f, digits, m)}
<1> SUFFICES ASSUME T # {} PROVE FALSE
    OBVIOUS
<1>1. PICK m \in T : \A n \in T : m <= n
    <2>1. T \subseteq Nat
        OBVIOUS
    <2> QED
        BY <2>1, Least
<1>2. CASE m = 0
    <2>1. IsValue([n \in 0 .. 0 |-> 0], digits, 0)
        BY DEF IsValue
    <2> QED
        BY <1>2, <2>1
<1>3. CASE m # 0
    <2>1. m - 1 \in Nat /\ m - 1 \notin T
        BY <1>1, <1>3
    <2>2. PICK f : IsValue(f, digits, m - 1)
        BY <2>1
    <2> DEFINE g == [n \in 0 .. m |->
                        IF n = m THEN f[m - 1] * Radix + digits[m].digit ELSE f[n]]
    <2>3. IsValue(g, digits, m)
        BY <1>3, <2>1, <2>2 DEF IsValue
    <2> QED
        BY <2>3
<1> QED
    BY <1>2, <1>3

LEMMA NumberIs ==
    ASSUME NEW digits, Len(digits) \in Nat, NEW f, IsValue(f, digits, Len(digits))
    PROVE  NumberOf(digits) = f[Len(digits)]
<1> DEFINE l == Len(digits)
           g == CHOOSE g : IsValue(g, digits, l)
           T == {n \in 0 .. l : f[n] # g[n]}
<1>1. IsValue(g, digits, l)
    OBVIOUS
<1>2. NumberOf(digits) = g[l]
    BY DEF NumberOf, IsValue
<1> HIDE DEF g
<1>3. T = {}
    <2> SUFFICES ASSUME T # {} PROVE FALSE
        OBVIOUS
    <2>1. T \subseteq Nat
        OBVIOUS
    <2>2. PICK m \in T : \A n \in T : m <= n
        BY <2>1, Least
    <2>3. m # 0
        BY <1>1 DEF IsValue
    <2>4. f[m - 1] = g[m - 1]
        BY <2>2, <2>3
    <2> QED
        BY <1>1, <2>3, <2>4 DEF IsValue
<1> QED
    BY <1>2, <1>3

(* A digit more is one more place.                                         *)
LEMMA NumberAppend ==
    ASSUME NEW S, NEW s \in Seq(S), NEW c
    PROVE  NumberOf(Append(s, c)) = NumberOf(s) * Radix + c.digit
<1> DEFINE l == Len(s)
           t == Append(s, c)
<1>1. l \in Nat /\ Len(t) = l + 1 /\ t[l + 1] = c /\ \A n \in 1 .. l : t[n] = s[n]
    OBVIOUS
<1>2. PICK f : IsValue(f, s, l)
    BY <1>1, ValueExists
<1>3. NumberOf(s) = f[l]
    BY <1>1, <1>2, NumberIs
<1> DEFINE g == [n \in 0 .. l + 1 |->
                    IF n = l + 1 THEN f[l] * Radix + c.digit ELSE f[n]]
<1> HIDE DEF t
<1>4. IsValue(g, t, Len(t))
    <2>1. /\ f[0] = 0 /\ \A n \in 1 .. l : f[n] = f[n - 1] * Radix + s[n].digit
        BY <1>1, <1>2 DEF IsValue
    <2> DEFINE h == [n \in 0 .. l + 1 |->
                        IF n = 0 THEN 0 ELSE g[n - 1] * Radix + t[n].digit]
    <2>2. ASSUME NEW n \in 0 .. l + 1 PROVE g[n] = h[n]
        <3>1. CASE n = 0
            BY <1>1, <2>1, <3>1
        <3>2. CASE n \in 1 .. l
            <4>1. g[n] = f[n] /\ g[n - 1] = f[n - 1]
                BY <1>1, <3>2
            <4>2. t[n] = s[n] /\ f[n] = f[n - 1] * Radix + s[n].digit
                BY <1>1, <2>1, <3>2
            <4>3. h[n] = g[n - 1] * Radix + t[n].digit
                BY <1>1, <3>2
            <4> QED
                BY <4>1, <4>2, <4>3
        <3>3. CASE n = l + 1
            <4>1. g[n] = f[l] * Radix + c.digit /\ g[n - 1] = f[l]
                BY <1>1, <3>3
            <4>2. h[n] = g[n - 1] * Radix + t[n].digit
                BY <1>1, <3>3
            <4> QED
                BY <1>1, <3>3, <4>1, <4>2
        <3> QED
            BY <1>1, <3>1, <3>2, <3>3
    <2>3. g = h
        BY <2>2
    <2> QED
        BY <1>1, <2>3 DEF IsValue
<1>5. NumberOf(t) = g[Len(t)]
    BY <1>1, <1>4, NumberIs
<1> QED
    BY <1>1, <1>3, <1>5 DEF t

(* One digit is its own number.                                            *)
LEMMA NumberOne ==
    ASSUME NEW d \in Digit
    PROVE  NumberOf(<<DigitChar(d)>>) = d
<1>1. PICK f : IsValue(f, <<>>, 0)
    BY ValueExists
<1>2. NumberOf(<<>>) = 0
    BY <1>1, NumberIs DEF IsValue
<1>3. <<>> \in Seq(Char) /\ Append(<<>>, DigitChar(d)) = <<DigitChar(d)>>
    OBVIOUS
<1>4. NumberOf(<<DigitChar(d)>>) = 0 * Radix + DigitChar(d).digit
    BY <1>2, <1>3, NumberAppend
<1> QED
    BY <1>4, ParserAssumption DEF DigitChar, Digit

LEMMA DivMod ==
    ASSUME NEW v \in Nat
    PROVE  /\ v \div Radix \in Nat /\ v % Radix \in Digit
           /\ v = (v \div Radix) * Radix + (v % Radix)
           /\ v >= Radix => v \div Radix < v
<1> DEFINE q == v \div Radix
           r == v % Radix
<1>1. Radix \in Nat /\ Radix >= 2
    BY ParserAssumption
<1>2. q \in Int /\ r \in 0 .. Radix - 1 /\ v = Radix * q + r
    BY <1>1
<1>3. v = q * Radix + r
    BY <1>1, <1>2
<1> HIDE DEF q, r
<1>4. q \in Nat
    <2>1. CASE q < 0
        <3>1. q * Radix <= (-1) * Radix
            BY <1>1, <1>2, <2>1
        <3> QED
            BY <1>1, <1>2, <1>3, <3>1
    <2> QED
        BY <1>2, <2>1
<1>5. v >= Radix => q < v
    <2> SUFFICES ASSUME v >= Radix, q >= v PROVE FALSE
        BY <1>4
    <2>1. q * 2 <= q * Radix
        BY <1>1, <1>4
    <2> QED
        BY <1>1, <1>2, <1>3, <1>4, <2>1
<1> QED
    BY <1>2, <1>3, <1>4, <1>5 DEF q, r, Digit

IsPrintedNumber(f, l) ==
    f = [n \in 0 .. l |->
            IF n < Radix THEN <<DigitChar(n)>>
            ELSE Append(f[n \div Radix], DigitChar(n % Radix))]

LEMMA DigitsExist ==
    ASSUME NEW l \in Nat
    PROVE  \E f : IsPrintedNumber(f, l)
<1> DEFINE T == {m \in Nat : ~ \E f : IsPrintedNumber(f, m)}
<1> SUFFICES ASSUME T # {} PROVE FALSE
    OBVIOUS
<1>1. PICK m \in T : \A n \in T : m <= n
    <2>1. T \subseteq Nat
        OBVIOUS
    <2> QED
        BY <2>1, Least
<1>2. Radix \in Nat /\ Radix >= 2
    BY ParserAssumption
<1>3. CASE m = 0
    <2>1. IsPrintedNumber([n \in 0 .. 0 |-> <<DigitChar(0)>>], 0)
        BY <1>2 DEF IsPrintedNumber
    <2> QED
        BY <1>3, <2>1
<1>4. CASE m # 0
    <2>1. m - 1 \in Nat /\ m - 1 \notin T
        BY <1>1, <1>4
    <2>2. PICK f : IsPrintedNumber(f, m - 1)
        BY <2>1
    <2> DEFINE step(h, n) == IF n < Radix THEN <<DigitChar(n)>>
                             ELSE Append(h[n \div Radix], DigitChar(n % Radix))
               g == [n \in 0 .. m |-> IF n = m THEN step(f, m) ELSE f[n]]
    <2>3. \A n \in 0 .. m - 1 : f[n] = step(f, n)
        BY <2>2 DEF IsPrintedNumber
    <2>4. ASSUME NEW n \in 0 .. m PROVE g[n] = step(g, n)
        <3>1. g[n] = step(f, n)
            BY <2>1, <2>3
        <3>2. CASE n < Radix
            BY <3>1, <3>2
        <3>3. CASE ~(n < Radix)
            <4>1. n \div Radix \in 0 .. m - 1
                BY <1>2, <2>1, <3>3, DivMod
            <4>2. g[n \div Radix] = f[n \div Radix]
                BY <2>1, <4>1
            <4> HIDE DEF g
            <4> QED
                BY <3>1, <3>3, <4>2
        <3> QED
            BY <3>2, <3>3
    <2>5. g = [n \in 0 .. m |-> step(g, n)]
        BY <2>4
    <2>6. IsPrintedNumber(g, m)
        BY <2>5 DEF IsPrintedNumber
    <2> QED
        BY <2>6
<1> QED
    BY <1>3, <1>4

(* What is printed for a number reads as the number.                       *)
LEMMA DigitsFacts ==
    ASSUME NEW v \in Nat
    PROVE  /\ DigitsOf(v) \in Seq(DigitChars)
           /\ DigitsOf(v) # <<>>
           /\ NumberOf(DigitsOf(v)) = v
<1> DEFINE f == CHOOSE f : IsPrintedNumber(f, v)
           Good(n) == /\ f[n] \in Seq(DigitChars) /\ f[n] # <<>>
                      /\ NumberOf(f[n]) = n
           T == {n \in 0 .. v : ~Good(n)}
<1>1. IsPrintedNumber(f, v)
    BY DigitsExist
<1>2. DigitsOf(v) = f[v]
    BY DEF DigitsOf, IsPrintedNumber
<1>3. Radix \in Nat /\ Radix >= 2
    BY ParserAssumption
<1> HIDE DEF f
<1>4. T = {}
    <2> SUFFICES ASSUME T # {} PROVE FALSE
        OBVIOUS
    <2>1. T \subseteq Nat
        OBVIOUS
    <2>2. PICK m \in T : \A n \in T : m <= n
        BY <2>1, Least
    <2>3. m \in 0 .. v /\ ~Good(m)
        OBVIOUS
    <2>4. CASE m < Radix
        <3>1. f[m] = <<DigitChar(m)>> /\ m \in Digit
            BY <1>1, <1>3, <2>4 DEF IsPrintedNumber, Digit
        <3>2. DigitChar(m) \in DigitChars
            BY <3>1 DEF DigitChar, DigitChars
        <3>3. <<DigitChar(m)>> \in Seq(DigitChars) /\ <<DigitChar(m)>> # <<>>
            BY <3>2
        <3> QED
            BY <2>3, <3>1, <3>3, NumberOne
    <2>5. CASE ~(m < Radix)
        <3> DEFINE q == m \div Radix
                   r == m % Radix
        <3>1. /\ q \in Nat /\ r \in Digit /\ m = q * Radix + r /\ q < m
            <4>1. m \in Nat /\ m >= Radix
                BY <1>3, <2>3, <2>5
            <4> QED
                BY <4>1, DivMod, Zenon
        <3>2. f[m] = Append(f[q], DigitChar(r))
            BY <1>1, <2>5 DEF IsPrintedNumber
        <3> HIDE DEF q, r
        <3>3. q \in 0 .. v /\ ~(m <= q)
            BY <2>3, <3>1
        <3>4. Good(q)
            BY <2>2, <3>3
        <3>5. DigitChar(r) \in DigitChars /\ DigitChar(r).digit = r
            BY <3>1 DEF DigitChar, DigitChars
        <3>6. f[m] \in Seq(DigitChars) /\ f[m] # <<>>
            BY <3>2, <3>4, <3>5
        <3>7. NumberOf(f[m]) = q * Radix + r
            BY <3>2, <3>4, <3>5, NumberAppend
        <3> QED
            BY <2>3, <3>1, <3>6, <3>7
    <2> QED
        BY <2>4, <2>5
<1>5. Good(v)
    BY <1>4
<1> QED
    BY <1>2, <1>5
-----------------------------------------------------------------------------
IsPrintedPath(f, path, l) ==
    f = [n \in 0 .. l |->
            IF n = 0 THEN <<Sign("m")>>
            ELSE f[n - 1] \o <<Sign("/")>> \o ComponentString(path[n])]

(* Printed(path)[n] is what is printed of path's first n components.       *)
Printed(path) == CHOOSE f : IsPrintedPath(f, path, Len(path))

LEMMA PrintedExists ==
    ASSUME NEW path, NEW l \in Nat
    PROVE  \E f : IsPrintedPath(f, path, l)
<1> DEFINE T == {m \in Nat : ~ \E f : IsPrintedPath(f, path, m)}
<1> SUFFICES ASSUME T # {} PROVE FALSE
    OBVIOUS
<1>1. PICK m \in T : \A n \in T : m <= n
    <2>1. T \subseteq Nat
        OBVIOUS
    <2> QED
        BY <2>1, Least
<1>2. CASE m = 0
    <2>1. IsPrintedPath([n \in 0 .. 0 |-> <<Sign("m")>>], path, 0)
        BY DEF IsPrintedPath
    <2> QED
        BY <1>2, <2>1
<1>3. CASE m # 0
    <2>1. m - 1 \in Nat /\ m - 1 \notin T
        BY <1>1, <1>3
    <2>2. PICK f : IsPrintedPath(f, path, m - 1)
        BY <2>1
    <2> DEFINE step(h, n) ==
                  IF n = 0 THEN <<Sign("m")>>
                  ELSE h[n - 1] \o <<Sign("/")>> \o ComponentString(path[n])
               g == [n \in 0 .. m |-> IF n = m THEN step(f, m) ELSE f[n]]
    <2>3. \A n \in 0 .. m - 1 : f[n] = step(f, n)
        BY <2>2 DEF IsPrintedPath
    <2>4. ASSUME NEW n \in 0 .. m PROVE g[n] = step(g, n)
        <3>1. g[n] = step(f, n)
            BY <2>1, <2>3
        <3>2. n # 0 => g[n - 1] = f[n - 1]
            BY <2>1
        <3> HIDE DEF g
        <3> QED
            BY <3>1, <3>2
    <2>5. g = [n \in 0 .. m |-> step(g, n)]
        BY <2>4
    <2>6. IsPrintedPath(g, path, m)
        BY <2>5 DEF IsPrintedPath
    <2> QED
        BY <2>6
<1> QED
    BY <1>2, <1>3

LEMMA PrintedIs ==
    ASSUME NEW path, Len(path) \in Nat
    PROVE  /\ PathString(path) = Printed(path)[Len(path)]
           /\ Printed(path)[0] = <<Sign("m")>>
           /\ \A n \in 1 .. Len(path) :
                 Printed(path)[n] = Printed(path)[n - 1] \o <<Sign("/")>>
                                    \o ComponentString(path[n])
<1>1. IsPrintedPath(Printed(path), path, Len(path))
    BY PrintedExists DEF Printed
<1>2. PathString(path) = Printed(path)[Len(path)]
    BY DEF PathString, Printed, IsPrintedPath
<1> QED
    BY <1>1, <1>2 DEF IsPrintedPath

(* One sequence behind another.                                            *)
LEMMA Concatenated ==
    ASSUME NEW S, NEW s \in Seq(S), NEW t \in Seq(S), NEW u, u = s \o t
    PROVE  /\ u \in Seq(S) /\ Len(u) = Len(s) + Len(t)
           /\ \A k \in 1 .. Len(s) : u[k] = s[k]
           /\ \A k \in 1 .. Len(t) : u[Len(s) + k] = t[k]
<1>1. Len(s) \in Nat /\ Len(t) \in Nat
    OBVIOUS
<1>2. /\ s \o t \in Seq(S) /\ Len(s \o t) = Len(s) + Len(t)
      /\ \A i \in 1 .. Len(s) + Len(t) :
            (s \o t)[i] = IF i <= Len(s) THEN s[i] ELSE t[i - Len(s)]
    BY ConcatProperties
<1>3. ASSUME NEW k \in 1 .. Len(t)
      PROVE  (s \o t)[Len(s) + k] = t[k]
    <2>1. Len(s) + k \in 1 .. Len(s) + Len(t) /\ ~(Len(s) + k <= Len(s))
          /\ Len(s) + k - Len(s) = k
        BY <1>1
    <2> QED
        BY <1>2, <2>1
<1> QED
    BY <1>1, <1>2, <1>3

(* A sequence, a character and another sequence.                           *)
LEMMA Joined ==
    ASSUME NEW S, NEW s \in Seq(S), NEW c \in S, NEW t \in Seq(S),
           NEW u, u = s \o <<c>> \o t
    PROVE  /\ u \in Seq(S) /\ Len(u) \in Nat /\ Len(u) > Len(s)
           /\ Len(u) = Len(s) + 1 + Len(t)
           /\ \A k \in 1 .. Len(s) : u[k] = s[k]
           /\ u[Len(s) + 1] = c
           /\ \A k \in 1 .. Len(t) : u[Len(s) + 1 + k] = t[k]
<1>1. <<c>> \in Seq(S) /\ Len(<<c>>) = 1 /\ <<c>>[1] = c
    OBVIOUS
<1>2. PICK v : v = s \o <<c>>
    OBVIOUS
<1>3. /\ v \in Seq(S) /\ Len(v) = Len(s) + 1
      /\ \A k \in 1 .. Len(s) : v[k] = s[k]
      /\ \A k \in 1 .. 1 : v[Len(s) + k] = <<c>>[k]
    BY <1>1, <1>2, Concatenated
<1>4. v[Len(s) + 1] = c
    BY <1>1, <1>3
<1>5. u = v \o t
    BY <1>2
<1>6. /\ u \in Seq(S) /\ Len(u) = Len(v) + Len(t)
      /\ \A k \in 1 .. Len(v) : u[k] = v[k]
      /\ \A k \in 1 .. Len(t) : u[Len(v) + k] = t[k]
    BY <1>3, <1>5, Concatenated
<1>7. Len(s) \in Nat /\ Len(t) \in Nat
    OBVIOUS
<1> QED
    BY <1>3, <1>4, <1>6, <1>7

(* A component is printed as its digits and, if it is hardened, a mark.    *)
LEMMA ComponentStringFacts ==
    ASSUME NEW x \in DerivationPathIndex
    PROVE  LET D == DigitsOf(x.value)
               C == ComponentString(x)
           IN  /\ x.value \in Nat /\ x.value < Word /\ x.hardened \in BOOLEAN
               /\ x = Component(x.value, x.hardened)
               /\ D \in Seq(DigitChars) /\ Len(D) \in Nat \ {0} /\ NumberOf(D) = x.value
               /\ C \in Seq(Char)
               /\ Len(C) = IF x.hardened THEN Len(D) + 1 ELSE Len(D)
               /\ \A k \in 1 .. Len(D) : C[k] = D[k]
               /\ x.hardened => C[Len(D) + 1] = Sign("'")
<1> DEFINE D == DigitsOf(x.value)
           C == ComponentString(x)
<1>1. x.value \in Nat /\ x.value < Word /\ x.hardened \in BOOLEAN
    BY HardenedBitAssumption DEF DerivationPathIndex, Index, Word
<1>2. x = Component(x.value, x.hardened)
    BY DEF DerivationPathIndex, Component
<1>3. D \in Seq(DigitChars) /\ D # <<>> /\ NumberOf(D) = x.value
    BY <1>1, DigitsFacts
<1>4. Len(D) \in Nat \ {0}
    BY <1>3, EmptySeq
<1>5. C = D \o (IF x.hardened THEN <<Sign("'")>> ELSE <<>>)
    BY DEF ComponentString
<1> HIDE DEF C, D
<1>6. D \in Seq(Char)
    BY <1>3, CharFacts
<1>7. Sign("'") \in Char
    BY DEF Sign, Char
<1>8. CASE x.hardened
    <2> DEFINE q == <<Sign("'")>>
    <2>1. C = D \o q /\ q \in Seq(Char) /\ Len(q) = 1 /\ q[1] = Sign("'")
        BY <1>5, <1>7, <1>8
    <2> HIDE DEF q
    <2>2. /\ C \in Seq(Char) /\ Len(C) = Len(D) + 1
          /\ \A k \in 1 .. Len(D) : C[k] = D[k]
          /\ \A k \in 1 .. 1 : C[Len(D) + k] = q[k]
        <3>1. PICK w : w = D
            OBVIOUS
        <3>2. PICK u : u = C
            OBVIOUS
        <3>3. PICK v : v = q
            OBVIOUS
        <3>4. w \in Seq(Char) /\ v \in Seq(Char) /\ u = w \o v
            BY <1>6, <2>1, <3>1, <3>2, <3>3
        <3>5. /\ u \in Seq(Char) /\ Len(u) = Len(w) + Len(v)
              /\ \A k \in 1 .. Len(w) : u[k] = w[k]
              /\ \A k \in 1 .. Len(v) : u[Len(w) + k] = v[k]
            BY <3>4, Concatenated
        <3> QED
            BY <2>1, <3>1, <3>2, <3>3, <3>5
    <2>3. C[Len(D) + 1] = Sign("'")
        BY <2>1, <2>2
    <2> QED
        BY <1>1, <1>2, <1>3, <1>4, <1>8, <2>2, <2>3 DEF C, D
<1>9. CASE ~x.hardened
    <2>1. C = D
        BY <1>5, <1>6, <1>9, ConcatEmptySeq
    <2> QED
        BY <1>1, <1>2, <1>3, <1>4, <1>6, <1>9, <2>1 DEF C, D
<1> QED
    BY <1>1, <1>8, <1>9

(* What each component adds to what is printed.                            *)
LEMMA PrintedFacts ==
    ASSUME NEW path \in Seq(DerivationPathIndex)
    PROVE  LET f == Printed(path)
           IN  /\ \A n \in 0 .. Len(path) :
                     f[n] \in Seq(Char) /\ Len(f[n]) \in Nat \ {0} /\ f[n][1] = Sign("m")
               /\ Len(f[0]) = 1
               /\ \A n \in 1 .. Len(path) :
                     LET l == Len(f[n - 1])
                         C == ComponentString(path[n])
                     IN  /\ Len(f[n]) = l + 1 + Len(C)
                         /\ \A k \in 1 .. l : f[n][k] = f[n - 1][k]
                         /\ f[n][l + 1] = Sign("/")
                         /\ \A k \in 1 .. Len(C) : f[n][l + 1 + k] = C[k]
<1> DEFINE f == Printed(path)
           Good(n) == f[n] \in Seq(Char) /\ Len(f[n]) \in Nat \ {0}
                      /\ f[n][1] = Sign("m")
           T == {n \in 0 .. Len(path) : ~Good(n)}
           Grows(n) ==
              LET l == Len(f[n - 1])
                  C == ComponentString(path[n])
              IN  /\ Len(f[n]) = l + 1 + Len(C)
                  /\ \A k \in 1 .. l : f[n][k] = f[n - 1][k]
                  /\ f[n][l + 1] = Sign("/")
                  /\ \A k \in 1 .. Len(C) : f[n][l + 1 + k] = C[k]
<1>1. Len(path) \in Nat
    OBVIOUS
<1>2. /\ f[0] = <<Sign("m")>>
      /\ \A n \in 1 .. Len(path) :
            f[n] = f[n - 1] \o <<Sign("/")>> \o ComponentString(path[n])
    BY <1>1, PrintedIs
<1>3. Sign("m") \in Char /\ Sign("/") \in Char
    BY DEF Sign, Char
<1> HIDE DEF f
<1>4. Good(0) /\ Len(f[0]) = 1
    BY <1>2, <1>3
<1>5. ASSUME NEW n \in 1 .. Len(path), Good(n - 1)
      PROVE  Good(n) /\ Grows(n)
    <2>1. PICK s : s = f[n - 1]
        OBVIOUS
    <2>2. PICK C : C = ComponentString(path[n])
        OBVIOUS
    <2>3. PICK u : u = f[n]
        OBVIOUS
    <2>4. C \in Seq(Char)
        BY <2>2, ComponentStringFacts
    <2>5. s \in Seq(Char) /\ Len(s) \in Nat \ {0} /\ s[1] = Sign("m")
        BY <1>5, <2>1
    <2>6. u = s \o <<Sign("/")>> \o C
        BY <1>2, <2>1, <2>2, <2>3
    <2>7. /\ u \in Seq(Char) /\ Len(u) \in Nat /\ Len(u) > Len(s)
          /\ Len(u) = Len(s) + 1 + Len(C)
          /\ \A k \in 1 .. Len(s) : u[k] = s[k]
          /\ u[Len(s) + 1] = Sign("/")
          /\ \A k \in 1 .. Len(C) : u[Len(s) + 1 + k] = C[k]
        BY <1>3, <2>4, <2>5, <2>6, Joined
    <2>8. u[1] = Sign("m") /\ Len(u) # 0
        BY <2>5, <2>7
    <2>9. Good(n)
        BY <2>3, <2>7, <2>8
    <2>10. Grows(n)
        BY <2>1, <2>2, <2>3, <2>7
    <2> QED
        BY <2>9, <2>10
<1>6. T = {}
    <2> SUFFICES ASSUME T # {} PROVE FALSE
        OBVIOUS
    <2>1. T \subseteq Nat
        OBVIOUS
    <2>2. PICK m \in T : \A n \in T : m <= n
        BY <2>1, Least
    <2>3. m # 0 /\ m \in 1 .. Len(path)
        BY <1>4
    <2>4. m - 1 \in 0 .. Len(path) /\ ~(m <= m - 1)
        BY <1>1, <2>3
    <2>5. Good(m - 1)
        BY <2>2, <2>4
    <2> QED
        BY <1>5, <2>3, <2>5
<1>7. \A n \in 0 .. Len(path) : Good(n)
    BY <1>6
<1>8. \A n \in 1 .. Len(path) : Grows(n)
    <2> SUFFICES ASSUME NEW n \in 1 .. Len(path) PROVE Grows(n)
        OBVIOUS
    <2>1. n - 1 \in 0 .. Len(path)
        BY <1>1
    <2>2. Good(n - 1)
        BY <1>7, <2>1
    <2> QED
        BY <1>5, <2>2
<1> QED
    BY <1>4, <1>7, <1>8 DEF f

(* What is printed first stays at the head of what is printed in the end.  *)
LEMMA PrintedPrefix ==
    ASSUME NEW path \in Seq(DerivationPathIndex), NEW n \in 0 .. Len(path)
    PROVE  LET s == Printed(path)[n]
               t == PathString(path)
           IN  Len(s) <= Len(t) /\ \A k \in 1 .. Len(s) : t[k] = s[k]
<1> DEFINE f == Printed(path)
           Good(m) == Len(f[n]) <= Len(f[m]) /\ \A k \in 1 .. Len(f[n]) : f[m][k] = f[n][k]
           T == {m \in n .. Len(path) : ~Good(m)}
<1>1. Len(path) \in Nat /\ n \in Nat
    OBVIOUS
<1>2. /\ \A m \in 0 .. Len(path) : Len(f[m]) \in Nat
      /\ \A m \in 1 .. Len(path) :
            /\ Len(f[m - 1]) <= Len(f[m])
            /\ \A k \in 1 .. Len(f[m - 1]) : f[m][k] = f[m - 1][k]
    <2>1. \A m \in 0 .. Len(path) : Len(f[m]) \in Nat
        BY PrintedFacts
    <2>2. ASSUME NEW m \in 1 .. Len(path)
          PROVE  /\ Len(f[m - 1]) <= Len(f[m])
                 /\ \A k \in 1 .. Len(f[m - 1]) : f[m][k] = f[m - 1][k]
        <3>1. Len(ComponentString(path[m])) \in Nat
            BY ComponentStringFacts
        <3>2. m - 1 \in 0 .. Len(path)
            BY <1>1
        <3>3. /\ Len(f[m]) = Len(f[m - 1]) + 1 + Len(ComponentString(path[m]))
              /\ \A k \in 1 .. Len(f[m - 1]) : f[m][k] = f[m - 1][k]
            BY PrintedFacts
        <3>4. Len(f[m - 1]) \in Nat
            BY <2>1, <3>2
        <3>5. PICK a, b, c : a = Len(f[m - 1]) /\ b = Len(f[m])
                             /\ c = Len(ComponentString(path[m]))
            OBVIOUS
        <3>6. a \in Nat /\ c \in Nat /\ b = a + 1 + c
            <4>1. a \in Nat
                BY <3>4, <3>5
            <4>2. c \in Nat
                BY <3>1, <3>5
            <4>3. b = a + 1 + c
                BY <3>3, <3>5
            <4> QED
                BY <4>1, <4>2, <4>3
        <3>7. a <= b
            BY <3>6
        <3> QED
            BY <3>3, <3>5, <3>7
    <2> QED
        BY <2>1, <2>2
<1>3. PathString(path) = f[Len(path)]
    BY <1>1, PrintedIs
<1> HIDE DEF f
<1>4. T = {}
    <2> SUFFICES ASSUME T # {} PROVE FALSE
        OBVIOUS
    <2>1. T \subseteq Nat
        BY <1>1
    <2>2. PICK m \in T : \A j \in T : m <= j
        BY <2>1, Least
    <2>3. m \in n .. Len(path) /\ m # n
        BY <1>1, <1>2
    <2>4. m - 1 \in n .. Len(path) /\ m \in 1 .. Len(path) /\ ~(m <= m - 1)
        BY <1>1, <2>3
    <2>5. Good(m - 1)
        BY <2>2, <2>4
    <2>6. m \in 0 .. Len(path) /\ m - 1 \in 0 .. Len(path)
        BY <1>1, <2>4
    <2>7. Good(m)
        BY <1>1, <1>2, <2>4, <2>5, <2>6
    <2> QED
        BY <2>7
<1>5. Good(Len(path))
    BY <1>1, <1>4
<1> QED
    BY <1>3, <1>5 DEF f
-----------------------------------------------------------------------------
(* After what is printed of the first components the text ends or goes on  *)
(* with a slash and something behind it.                                   *)
LEMMA BehindPrinted ==
    ASSUME NEW p \in Seq(DerivationPathIndex), text = PathString(p),
           NEW n \in 0 .. Len(p), NEW l, l = Len(Printed(p)[n])
    PROVE  /\ text \in Seq(Char) /\ Len(text) \in Nat
           /\ l \in Nat \ {0} /\ l <= Len(text)
           /\ \A k \in 1 .. l : text[k] = Printed(p)[n][k]
           /\ n = Len(p) => l = Len(text)
           /\ n < Len(p) => l + 1 < Len(text) /\ text[l + 1] = Sign("/")
<1>1. Len(p) \in Nat
    OBVIOUS
<1>2. text = Printed(p)[Len(p)] /\ text \in Seq(Char) /\ Len(text) \in Nat
    <2>1. Len(p) \in 0 .. Len(p)
        BY <1>1
    <2>2. text = Printed(p)[Len(p)]
        BY <1>1, PrintedIs
    <2> QED
        BY <2>1, <2>2, PrintedFacts
<1>3. l \in Nat \ {0}
    BY PrintedFacts
<1>4. l <= Len(text) /\ \A k \in 1 .. l : text[k] = Printed(p)[n][k]
    BY PrintedPrefix
<1>5. n = Len(p) => l = Len(text)
    BY <1>2
<1>6. ASSUME n < Len(p)
      PROVE  l + 1 < Len(text) /\ text[l + 1] = Sign("/")
    <2>1. PICK m : m = n + 1
        OBVIOUS
    <2>2. m \in 1 .. Len(p) /\ m \in 0 .. Len(p) /\ m - 1 = n
        BY <1>1, <1>6, <2>1
    <2>3. PICK u, c : u = Printed(p)[m] /\ c = Len(ComponentString(p[m]))
        OBVIOUS
    <2>4. Len(u) = l + 1 + c /\ u[l + 1] = Sign("/")
        <3>1. /\ Len(Printed(p)[m]) =
                    Len(Printed(p)[m - 1]) + 1 + Len(ComponentString(p[m]))
              /\ Printed(p)[m][Len(Printed(p)[m - 1]) + 1] = Sign("/")
            BY <2>2, PrintedFacts
        <3> QED
            BY <2>2, <2>3, <3>1
    <2>5. c \in Nat \ {0}
        <3>1. p[m] \in DerivationPathIndex
            BY <2>2
        <3> QED
            BY <2>3, <3>1, ComponentStringFacts
    <2>6. Len(u) <= Len(text) /\ \A k \in 1 .. Len(u) : text[k] = u[k]
        BY <2>2, <2>3, PrintedPrefix
    <2>7. l + 1 \in 1 .. Len(u) /\ l + 1 < Len(text)
        BY <1>2, <1>3, <2>4, <2>5, <2>6
    <2> QED
        BY <2>4, <2>6, <2>7
<1> QED
    BY <1>2, <1>3, <1>4, <1>5, <1>6

(* Behind a slash at l + 1 and up to r: digits D, a mark if h, and then a  *)
(* slash or the end of the text.                                           *)
ComponentAt(l, r, D, h) ==
    /\ l \in Nat /\ r \in Nat /\ r <= Len(text) /\ h \in BOOLEAN
    /\ D \in Seq(DigitChars) /\ Len(D) \in Nat \ {0}
    /\ r = IF h THEN l + Len(D) + 2 ELSE l + Len(D) + 1
    /\ \A k \in 1 .. Len(D) : text[l + 1 + k] = D[k]
    /\ h => text[l + 2 + Len(D)] = Sign("'")
    /\ r = Len(text) \/ text[r + 1] = Sign("/")

(* The parser finds the digits and the mark, and stops behind them.        *)
LEMMA ComponentFound ==
    ASSUME text \in Seq(Char), NEW l, NEW r, NEW D, NEW h, ComponentAt(l, r, D, h)
    PROVE  /\ l + 2 \in 1 .. Len(text) /\ text[l + 2] \in DigitChars
           /\ SubSeq(text, l + 2, Past(l + 2, DigitChars) - 1) = D
           /\ At(Past(l + 2, DigitChars), "'") <=> h
           /\ Behind(l + 2) = r + 1
<1> PICK d : d = Len(D)
    OBVIOUS
<1>0. /\ l \in Nat /\ r \in Nat /\ r <= Len(text) /\ h \in BOOLEAN
      /\ D \in Seq(DigitChars) /\ d \in Nat \ {0}
      /\ r = IF h THEN l + d + 2 ELSE l + d + 1
      /\ \A k \in 1 .. d : text[l + 1 + k] = D[k]
      /\ h => text[l + 2 + d] = Sign("'")
      /\ r = Len(text) \/ text[r + 1] = Sign("/")
    BY DEF ComponentAt
<1> DEFINE e == Past(l + 2, DigitChars)
<1>1. Len(text) \in Nat
    OBVIOUS
<1>2. /\ l + 2 \in 1 .. Len(text) /\ l + 2 \in 1 .. Len(text) + 1
      /\ l + 2 + d \in l + 2 .. Len(text) + 1
    BY <1>0, <1>1
<1>3. \A k \in l + 2 .. l + 2 + d - 1 : text[k] \in DigitChars
    <2> SUFFICES ASSUME NEW k \in l + 2 .. l + 2 + d - 1
                 PROVE  text[k] \in DigitChars
        OBVIOUS
    <2>1. PICK j \in 1 .. d : l + 1 + j = k
        <3>1. k - (l + 1) \in 1 .. d /\ l + 1 + (k - (l + 1)) = k
            BY <1>0
        <3> QED
            BY <1>0, <3>1
    <2>2. text[k] = D[j] /\ D[j] \in DigitChars
        BY <1>0, <2>1
    <2> QED
        BY <1>0, <2>2
<1>4. h => At(l + 2 + d, "'")
    BY <1>0, <1>1 DEF At, AtEnd
<1>5. ~h => AtEnd(l + 2 + d) \/ text[l + 2 + d] = Sign("/")
    BY <1>0, <1>1 DEF AtEnd
<1>6. AtEnd(l + 2 + d) \/ text[l + 2 + d] \notin DigitChars
    BY <1>0, <1>4, <1>5, CharFacts DEF At
<1>7. e = l + 2 + d
    BY <1>0, <1>2, <1>3, <1>6, PastIs
<1> HIDE DEF e
<1>8. At(e, "'") = h
    BY <1>0, <1>4, <1>5, <1>7, CharFacts DEF At
<1>9. Behind(l + 2) = r + 1
    <2>1. Behind(l + 2) = IF At(e, "'") THEN e + 1 ELSE e
        BY DEF Behind, e
    <2> QED
        BY <1>0, <1>7, <1>8, <2>1
<1>10. SubSeq(text, l + 2, e - 1) = D
    <2>1. PICK q : q = SubSeq(text, l + 2, e - 1)
        OBVIOUS
    <2>2. /\ q \in Seq(Char) /\ Len(q) = d
          /\ \A k \in 1 .. d : q[k] = text[l + 2 + k - 1]
        <3>1. \A k \in l + 2 .. e - 1 : text[k] \in Char
            BY <1>0, <1>1, <1>2, <1>7
        <3>2. /\ q \in Seq(Char)
              /\ Len(q) = IF l + 2 <= e - 1 THEN (e - 1) - (l + 2) + 1 ELSE 0
              /\ \A k \in 1 .. (e - 1) - (l + 2) + 1 : q[k] = text[l + 2 + k - 1]
            BY <1>0, <1>2, <1>7, <2>1, <3>1, SubSeqProperties
        <3> QED
            BY <1>0, <1>7, <3>2
    <2>3. \A k \in 1 .. d : q[k] = D[k]
        <3>1. \A k \in 1 .. d : l + 2 + k - 1 = l + 1 + k
            BY <1>0
        <3> QED
            BY <1>0, <2>2, <3>1
    <2>4. Len(q) = Len(D) /\ \A k \in 1 .. Len(q) : q[k] = D[k]
        BY <1>0, <2>2, <2>3
    <2>5. q = D
        BY <1>0, <2>2, <2>4
    <2> QED
        BY <1>0, <2>1, <2>5
<1>11. text[l + 2] \in DigitChars
    BY <1>0, <1>3
<1> QED
    BY <1>0, <1>2, <1>8, <1>9, <1>10, <1>11 DEF e

(* Where a component begins the parser finds its digits and its mark, and  *)
(* stops where the printing of the component stopped.                      *)
LEMMA TurnFacts ==
    ASSUME NEW p \in Seq(DerivationPathIndex), text = PathString(p),
           NEW n \in Nat, n < Len(p)
    PROVE  LET x == p[n + 1]
               i == Len(Printed(p)[n]) + 2
               e == Past(i, DigitChars)
           IN  /\ i \in 1 .. Len(text) /\ text[i] \in DigitChars
               /\ NumberOf(SubSeq(text, i, e - 1)) = x.value
               /\ At(e, "'") = x.hardened
               /\ Behind(i) = Len(Printed(p)[n + 1]) + 1
<1>1. PICK m : m = n + 1
    OBVIOUS
<1>2. PICK x : x = p[m]
    OBVIOUS
<1>3. /\ m \in 1 .. Len(p) /\ m \in 0 .. Len(p) /\ n \in 0 .. Len(p) /\ m - 1 = n
      /\ x \in DerivationPathIndex
    BY <1>1, <1>2
<1>4. PICK l, u, r : l = Len(Printed(p)[n]) /\ u = Printed(p)[m] /\ r = Len(u)
    OBVIOUS
<1>5. PICK D, C, d, h : /\ D = DigitsOf(x.value) /\ C = ComponentString(x)
                        /\ d = Len(D) /\ h = x.hardened
    OBVIOUS
<1>6. /\ h \in BOOLEAN /\ D \in Seq(DigitChars) /\ d \in Nat \ {0}
      /\ NumberOf(D) = x.value
      /\ Len(C) = IF h THEN d + 1 ELSE d
      /\ \A k \in 1 .. d : C[k] = D[k]
      /\ h => C[d + 1] = Sign("'")
    BY <1>3, <1>5, ComponentStringFacts
<1>7. text \in Seq(Char) /\ l \in Nat
    BY <1>3, <1>4, BehindPrinted
<1>8. /\ r \in Nat /\ r <= Len(text) /\ \A k \in 1 .. r : text[k] = u[k]
      /\ r = Len(text) \/ text[r + 1] = Sign("/")
    <2>1. /\ r \in Nat /\ r <= Len(text)
          /\ \A k \in 1 .. r : text[k] = Printed(p)[m][k]
          /\ m = Len(p) => r = Len(text)
          /\ m < Len(p) => text[r + 1] = Sign("/")
        BY <1>3, <1>4, BehindPrinted
    <2> QED
        BY <1>3, <1>4, <2>1
<1>9. r = l + 1 + Len(C) /\ \A k \in 1 .. Len(C) : u[l + 1 + k] = C[k]
    <2>1. /\ Len(Printed(p)[m]) =
                Len(Printed(p)[m - 1]) + 1 + Len(ComponentString(p[m]))
          /\ \A k \in 1 .. Len(ComponentString(p[m])) :
                Printed(p)[m][Len(Printed(p)[m - 1]) + 1 + k] = ComponentString(p[m])[k]
        BY <1>3, PrintedFacts
    <2> QED
        BY <1>2, <1>3, <1>4, <1>5, <2>1
<1>10. PICK c : c = Len(C)
    OBVIOUS
<1>11. /\ c = IF h THEN d + 1 ELSE d
       /\ r = l + 1 + c /\ \A k \in 1 .. c : u[l + 1 + k] = C[k]
    BY <1>6, <1>9, <1>10
<1>12. ASSUME NEW k \in 1 .. c
       PROVE  text[l + 1 + k] = C[k]
    <2>1. l + 1 + k \in 1 .. r
        BY <1>6, <1>7, <1>11
    <2> QED
        BY <1>8, <1>11, <2>1
<1>13. r = IF h THEN l + d + 2 ELSE l + d + 1
    BY <1>6, <1>7, <1>11
<1>14. \A k \in 1 .. d : text[l + 1 + k] = D[k]
    <2>1. \A k \in 1 .. d : k \in 1 .. c
        BY <1>6, <1>11
    <2> QED
        BY <1>6, <1>12, <2>1
<1>15. h => text[l + 2 + d] = Sign("'")
    <2>1. h => d + 1 \in 1 .. c /\ l + 1 + (d + 1) = l + 2 + d
        BY <1>6, <1>7, <1>11
    <2> QED
        BY <1>6, <1>12, <2>1
<1>16. /\ l + 2 \in 1 .. Len(text) /\ text[l + 2] \in DigitChars
       /\ SubSeq(text, l + 2, Past(l + 2, DigitChars) - 1) = D
       /\ At(Past(l + 2, DigitChars), "'") <=> h
       /\ Behind(l + 2) = r + 1
    <2>1. ComponentAt(l, r, D, h)
        BY <1>5, <1>6, <1>7, <1>8, <1>13, <1>14, <1>15 DEF ComponentAt
    <2> QED
        BY <1>7, <2>1, ComponentFound
<1>17. At(Past(l + 2, DigitChars), "'") = x.hardened
    BY <1>5, <1>6, <1>16 DEF At
<1> QED
    BY <1>1, <1>2, <1>4, <1>5, <1>6, <1>16, <1>17, Zenon
-----------------------------------------------------------------------------
(* How far the parser is in the text that was printed for path p: at the   *)
(* component behind those that it has read, and these are p's.             *)
Trip(p) ==
    /\ status # "thrown"
    /\ status = "root" => it = 1 /\ indices = <<>>
    /\ status \in {"loop", "parsed"} =>
          Len(indices) <= Len(p) /\ \A k \in 1 .. Len(indices) : indices[k] = p[k]
    /\ status = "loop" =>
          Len(indices) < Len(p) /\ it = Len(Printed(p)[Len(indices)]) + 2
    /\ status = "parsed" => Len(indices) = Len(p)

TripInv ==
    \A p \in Seq(DerivationPathIndex) : text = PathString(p) => Trip(p)

LEMMA SkipRootTrip ==
    ASSUME NEW p \in Seq(DerivationPathIndex), text = PathString(p), Trip(p), SkipRoot
    PROVE  Trip(p)'
<1>1. Len(p) \in Nat /\ 0 \in 0 .. Len(p)
    OBVIOUS
<1>2. Printed(p)[0] = <<Sign("m")>>
    BY <1>1, PrintedIs
<1>3. Len(Printed(p)[0]) = 1 /\ 1 \in 1 .. 1 /\ Printed(p)[0][1] = Sign("m")
    BY <1>2
<1>4. /\ Len(text) \in Nat /\ 1 <= Len(text) /\ text[1] = Sign("m")
      /\ 0 = Len(p) => 1 = Len(text)
      /\ 0 < Len(p) => 2 < Len(text) /\ text[2] = Sign("/")
    <2>1. PICK l : l = Len(Printed(p)[0])
        OBVIOUS
    <2>2. /\ Len(text) \in Nat /\ l <= Len(text)
          /\ \A k \in 1 .. l : text[k] = Printed(p)[0][k]
          /\ 0 = Len(p) => l = Len(text)
          /\ 0 < Len(p) => l + 1 < Len(text) /\ text[l + 1] = Sign("/")
        BY <1>1, <2>1, BehindPrinted
    <2> QED
        BY <1>3, <2>1, <2>2
<1>5. At(1, "m")
    BY <1>4 DEF At, AtEnd
<1>6. /\ text' = text /\ indices' = <<>>
      /\ it' = (IF At(2, "/") THEN 3 ELSE 2)
      /\ status' = (IF it' = Len(text) + 1 THEN "parsed" ELSE "loop")
    BY <1>5 DEF SkipRoot, Trip, AtEnd
<1>7. Len(indices') = 0
    BY <1>6
<1>8. CASE Len(p) = 0
    <2>1. it' = 2 /\ status' = "parsed"
        <3>1. Len(text) = 1
            BY <1>4, <1>8
        <3>2. ~At(2, "/")
            BY <3>1 DEF At, AtEnd
        <3> QED
            BY <1>6, <3>1, <3>2
    <2> QED
        BY <1>7, <1>8, <2>1 DEF Trip
<1>9. CASE Len(p) > 0
    <2>1. it' = 3 /\ status' = "loop"
        BY <1>4, <1>6, <1>9 DEF At, AtEnd
    <2>2. it' = Len(Printed(p)[Len(indices')]) + 2
        <3>1. Len(Printed(p)[Len(indices')]) = 1
            BY <1>3, <1>7, Zenon
        <3> QED
            BY <2>1, <3>1
    <2> QED
        BY <1>7, <1>9, <2>1, <2>2 DEF Trip
<1> QED
    BY <1>1, <1>8, <1>9

LEMMA ReadComponentTrip ==
    ASSUME TypeOK, NEW p \in Seq(DerivationPathIndex), text = PathString(p), Trip(p),
           ReadComponent
    PROVE  Trip(p)'
<1> DEFINE e == Past(it, DigitChars)
<1>1. PICK n : n = Len(indices)
    OBVIOUS
<1>2. PICK x : x = p[n + 1]
    OBVIOUS
<1>3. /\ indices \in Seq(DerivationPathIndex) /\ n \in Nat /\ Len(p) \in Nat
      /\ text \in Seq(Char) /\ Len(text) \in Nat
    BY <1>1 DEF TypeOK
<1>4. /\ n < Len(p) /\ it = Len(Printed(p)[n]) + 2
      /\ \A k \in 1 .. n : indices[k] = p[k]
    BY <1>1 DEF ReadComponent, Trip
<1>5. /\ it \in 1 .. Len(text) /\ text[it] \in DigitChars
      /\ NumberOf(SubSeq(text, it, e - 1)) = x.value
      /\ At(e, "'") = x.hardened
      /\ Behind(it) = Len(Printed(p)[n + 1]) + 1
    <2>1. LET i == Len(Printed(p)[n]) + 2
              d == Past(i, DigitChars)
          IN  /\ i \in 1 .. Len(text) /\ text[i] \in DigitChars
              /\ NumberOf(SubSeq(text, i, d - 1)) = p[n + 1].value
              /\ At(d, "'") = p[n + 1].hardened
              /\ Behind(i) = Len(Printed(p)[n + 1]) + 1
        BY <1>3, <1>4, TurnFacts
    <2> QED
        BY <1>2, <1>4, <2>1, Zenon
<1>6. NumberAt(it) = it
    <2>1. it \in 1 .. Len(text) + 1 /\ it \in it .. Len(text) + 1
          /\ \A k \in it .. it - 1 : text[k] \in {Sign("blank")}
        BY <1>3, <1>5
    <2>2. text[it] \notin {Sign("blank")}
        BY <1>5, CharFacts
    <2> QED
        BY <1>3, <2>1, <2>2, PastIs DEF NumberAt
<1>7. Scanned(it) = Fitted(x.value)
    BY <1>5, <1>6 DEF Scanned
<1>8. x \in DerivationPathIndex /\ x.value < Word /\ x = Component(x.value, x.hardened)
    <2>1. n + 1 \in 1 .. Len(p)
        BY <1>3, <1>4
    <2>2. x \in DerivationPathIndex
        BY <1>2, <2>1
    <2> QED
        BY <2>2, ComponentStringFacts
<1>9. indices' = Append(indices, x) /\ text' = text /\ Separator(Behind(it))
    <2>1. PICK v \in Scanned(it) : indices' = Append(indices, Component(v, At(e, "'")))
        BY DEF ReadComponent
    <2>2. v = x.value
        BY <1>7, <1>8 DEF Fitted
    <2> QED
        BY <1>5, <1>8, <2>1, <2>2 DEF ReadComponent, Behind
<1> HIDE DEF e
<1>10. PICK m, l : m = n + 1 /\ l = Len(Printed(p)[m])
    OBVIOUS
<1>11. /\ l \in Nat /\ m \in 0 .. Len(p)
       /\ m = Len(p) => l = Len(text)
       /\ m < Len(p) => l + 1 < Len(text) /\ text[l + 1] = Sign("/")
    <2>1. m \in 0 .. Len(p)
        BY <1>3, <1>4, <1>10
    <2> QED
        BY <1>10, <2>1, BehindPrinted
<1>12. Len(indices') = m /\ \A k \in 1 .. m : indices'[k] = p[k]
    <2>1. Len(indices') = m
        BY <1>1, <1>3, <1>9, <1>10
    <2>2. ASSUME NEW k \in 1 .. m
          PROVE  indices'[k] = p[k]
        <3>1. CASE k = m
            BY <1>1, <1>2, <1>3, <1>9, <1>10, <3>1
        <3>2. CASE k # m
            <4>1. k \in 1 .. n
                BY <1>3, <1>10, <3>2
            <4>2. indices'[k] = indices[k]
                BY <1>1, <1>3, <1>9, <4>1
            <4> QED
                BY <1>4, <4>1, <4>2
        <3> QED
            BY <3>1, <3>2
    <2> QED
        BY <2>1, <2>2
<1>13. Separator(l + 1)
    BY <1>5, <1>9, <1>10
<1>14. CASE m = Len(p)
    <2>1. status' = "parsed"
        BY <1>11, <1>13, <1>14 DEF Separator, AtEnd
    <2> QED
        BY <1>3, <1>12, <1>14, <2>1 DEF Trip
<1>15. CASE m < Len(p)
    <2>1. ~AtEnd(l + 1) /\ At(l + 1, "/") /\ l + 2 # Len(text) + 1
        BY <1>3, <1>11, <1>15 DEF At, AtEnd
    <2>2. it' = l + 2 /\ status' = "loop"
        BY <1>9, <1>11, <1>13, <2>1 DEF Separator, AtEnd
    <2> QED
        BY <1>3, <1>10, <1>11, <1>12, <1>15, <2>2 DEF Trip
<1> QED
    BY <1>3, <1>11, <1>14, <1>15

(* A number where a component begins always scans.                         *)
LEMMA NoInvalidTrip ==
    ASSUME TypeOK, NEW p \in Seq(DerivationPathIndex), text = PathString(p), Trip(p),
           InvalidComponent
    PROVE  FALSE
<1>1. PICK n : n = Len(indices)
    OBVIOUS
<1>2. n \in Nat /\ text \in Seq(Char) /\ Len(text) \in Nat
    BY <1>1 DEF TypeOK
<1>3. n < Len(p) /\ it = Len(Printed(p)[n]) + 2
    BY <1>1 DEF InvalidComponent, Trip
<1>4. it \in 1 .. Len(text) /\ text[it] \in DigitChars
    BY <1>2, <1>3, TurnFacts
<1>5. NumberAt(it) = it
    <2>1. it \in 1 .. Len(text) + 1 /\ it \in it .. Len(text) + 1
          /\ \A k \in it .. it - 1 : text[k] \in {Sign("blank")}
        BY <1>2, <1>4
    <2>2. text[it] \notin {Sign("blank")}
        BY <1>4, CharFacts
    <2> QED
        BY <1>2, <2>1, <2>2, PastIs DEF NumberAt
<1> QED
    BY <1>2, <1>4, <1>5 DEF InvalidComponent, Scans, AtEnd

(* What string() prints is parsed back to the same path, for paths of any  *)
(* length: the parser never refuses it, and what it has read when it ends  *)
(* are the components that were printed, with their marks.                 *)
THEOREM PathsSurvive == Spec => []RoundTrip
<1>1. Init => TripInv
    BY DEF Init, TripInv, Trip
<1>2. TypeOK /\ TripInv /\ [Next]_vars => TripInv'
    <2> SUFFICES ASSUME TypeOK, TripInv, [Next]_vars,
                        NEW p \in Seq(DerivationPathIndex), text' = PathString(p)
                 PROVE  Trip(p)'
        BY DEF TripInv
    <2>1. text' = text
        BY DEF Next, SkipRoot, ReadComponent, InvalidComponent, vars
    <2>2. text = PathString(p) /\ Trip(p)
        BY <2>1 DEF TripInv
    <2>3. CASE UNCHANGED vars
        BY <2>2, <2>3 DEF Trip, vars
    <2> QED
        BY <2>2, <2>3, SkipRootTrip, ReadComponentTrip, NoInvalidTrip DEF Next
<1>3. TypeOK /\ TripInv => RoundTrip
    <2> SUFFICES ASSUME TypeOK, TripInv, NEW x \in PrintedPaths, x.string = text
                 PROVE  status # "thrown" /\ (status = "parsed" => indices = x.path)
        BY DEF RoundTrip
    <2>1. PICK p \in BoundedSeq(DerivationPathIndex, (MaxText - 1) \div 2) :
              x = [path |-> p, string |-> PathString(p)]
        BY DEF PrintedPaths
    <2>2. p \in Seq(DerivationPathIndex)
        BY <2>1 DEF BoundedSeq, SeqOf
    <2>3. Trip(p)
        BY <2>1, <2>2 DEF TripInv
    <2>4. ASSUME status = "parsed"
          PROVE  indices = p
        <3>1. Len(indices) = Len(p) /\ \A k \in 1 .. Len(indices) : indices[k] = p[k]
            BY <2>3, <2>4 DEF Trip
        <3>2. indices \in Seq(DerivationPathIndex)
            BY DEF TypeOK
        <3> QED
            BY <2>2, <3>1, <3>2
    <2> QED
        BY <2>1, <2>3, <2>4 DEF Trip
<1> QED
    BY <1>1, <1>2, <1>3, CursorInText, PTL DEF Spec
=============================================================================
