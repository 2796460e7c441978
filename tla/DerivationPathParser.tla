------------------------ MODULE DerivationPathParser ------------------------
(***************************************************************************)
(* The parser of derivation_path.cpp: a cursor that walks a text like      *)
(* m/44'/0'/1, one component to a turn of its loop, and string(), which    *)
(* prints a path back.  Characters are the four that mean something, the   *)
(* digits, "blank" for what sscanf skips before a number (white space, a   *)
(* sign) and "x" for every other.                                          *)
(***************************************************************************)
EXTENDS DerivationPath, SequencesExt, FiniteSetsExt

CONSTANTS
    Radix,      \* 10 in the code
    MaxText     \* bound: the length of the texts

ASSUME ParserAssumption == Radix \in Nat \ {0, 1} /\ MaxText \in Nat

Digit == 0 .. Radix - 1
Char == [digit : Digit] \cup [sign : {"m", "/", "'", "blank", "x"}]

Sign(c) == [sign |-> c]
DigitChar(d) == [digit |-> d]
DigitChars == [digit : Digit]

VARIABLES
    text,       \* the argument
    it,         \* the cursor: the position of the next character
    indices,    \* the components so far
    status      \* "root", "loop", "parsed" or "thrown"

vars == <<text, it, indices, status>>
-----------------------------------------------------------------------------
NumberOf(digits) ==
    LET value[n \in 0 .. Len(digits)] ==
            IF n = 0 THEN 0 ELSE value[n - 1] * Radix + digits[n].digit
    IN  value[Len(digits)]

(* std::to_string: the digits without zeros at their head *)
DigitsOf(number) ==
    LET digits[n \in 0 .. number] ==
            IF n < Radix THEN <<DigitChar(n)>>
            ELSE Append(digits[n \div Radix], DigitChar(n % Radix))
    IN  digits[number]

\* Broken variant: the mark is not printed.
ComponentString_Unmarked(x) == DigitsOf(x.value)

(* string(): a slash before each component, and none after the last. *)
ComponentString(x) ==
    DigitsOf(x.value) \o (IF x.hardened THEN <<Sign("'")>> ELSE <<>>)
PathString(path) ==
    LET printed[n \in 0 .. Len(path)] ==
            IF n = 0 THEN <<Sign("m")>>
            ELSE printed[n - 1] \o <<Sign("/")>> \o ComponentString(path[n])
    IN  printed[Len(path)]
-----------------------------------------------------------------------------
AtEnd(i) == i = Len(text) + 1
At(i, c) == ~AtEnd(i) /\ text[i] = Sign(c)

(* The first position from i on that holds no character of C. *)
Past(i, C) ==
    CHOOSE j \in i .. Len(text) + 1 :
        /\ \A k \in i .. j - 1 : text[k] \in C
        /\ AtEnd(j) \/ text[j] \notin C

\* Broken variant: a number is believed to fit.
Fitted_Untruncated(n) == {n}

(* sscanf(it, "%ud", &value) skips blanks and reads digits.  The code does *)
(* not ask whether the number fits 32 bits: it is cut to them or, in the   *)
(* libraries that saturate, replaced by the largest.                       *)
Fitted(n) ==
    {v \in Index : IF n < Word THEN v = n ELSE v \in {n % Word, Word - 1}}

NumberAt(i) == Past(i, {Sign("blank")})
Scans(i) == ~AtEnd(NumberAt(i)) /\ text[NumberAt(i)] \in DigitChars
Scanned(i) ==
    LET n == NumberAt(i)
    IN  Fitted(NumberOf(SubSeq(text, n, Past(n, DigitChars) - 1)))

Init ==
    /\ text \in BoundedSeq(Char, MaxText)
    /\ it = 1
    /\ indices = <<>>
    /\ status = "root"

\* Broken variant: a slash is skipped after an m only.
SkipRoot_SlashAfterM ==
    /\ status = "root"
    /\ it' = IF At(1, "m") THEN (IF At(2, "/") THEN 3 ELSE 2) ELSE 1
    /\ status' = IF AtEnd(it') THEN "parsed" ELSE "loop"
    /\ UNCHANGED <<text, indices>>

(* An m, then a slash: either, both or none. *)
SkipRoot ==
    LET i == IF At(1, "m") THEN 2 ELSE 1
    IN  /\ status = "root"
        /\ it' = IF At(i, "/") THEN i + 1 ELSE i
        /\ status' = IF AtEnd(it') THEN "parsed" ELSE "loop"
        /\ UNCHANGED <<text, indices>>

\* Broken variant: the cursor stays where the component began.
Separator_Stays(i) ==
    /\ it' = IF At(i, "/") THEN it ELSE i
    /\ status' = IF AtEnd(i) THEN "parsed"
                 ELSE IF At(i, "/") THEN "loop" ELSE "thrown"

(* What follows a component's digits and mark. *)
Separator(i) ==
    /\ it' = IF At(i, "/") THEN i + 1 ELSE i
    /\ status' = IF AtEnd(i) THEN "parsed"
                 ELSE IF ~At(i, "/") THEN "thrown"
                 ELSE IF AtEnd(it') THEN "parsed" ELSE "loop"

(* One turn of the loop.  The number is read from where sscanf found it,   *)
(* but the cursor moves over the digits at the cursor alone: after a blank *)
(* there are none, and the missing separator ends the parse.               *)
ReadComponent ==
    LET e == Past(it, DigitChars)
        hardened == At(e, "'")
    IN  /\ status = "loop"
        /\ Scans(it)
        /\ \E v \in Scanned(it) :
              indices' = Append(indices, Component(v, hardened))
        /\ Separator(IF hardened THEN e + 1 ELSE e)
        /\ UNCHANGED text

\* Broken variant: a component that does not scan is skipped, in place.
InvalidComponent_Skipped ==
    status = "loop" /\ ~Scans(it) /\ UNCHANGED vars

InvalidComponent ==
    /\ status = "loop"
    /\ ~Scans(it)
    /\ status' = "thrown"
    /\ UNCHANGED <<text, it, indices>>

Next == SkipRoot \/ ReadComponent \/ InvalidComponent

(* The constructor runs until it is done. *)
Spec == Init /\ [][Next]_vars
FairSpec == Spec /\ WF_vars(Next)
-----------------------------------------------------------------------------
(* What a path is, told without the parser: after the longest root, the    *)
(* text is cut at its slashes.  A piece begins behind the root and behind  *)
(* every slash, unless the text ends there, and is digits with or without  *)
(* a mark.                                                                 *)
Roots == {<<>>, <<Sign("m")>>, <<Sign("/")>>, <<Sign("m"), Sign("/")>>}
RootLength == Max({Len(r) : r \in {q \in Roots : IsPrefix(q, text)}})

Starts ==
    {i \in RootLength + 1 .. Len(text) :
        i = RootLength + 1 \/ text[i - 1] = Sign("/")}
Piece(i) == SubSeq(text, i, Past(i, Char \ {Sign("/")}) - 1)
Ordinal(i) == Cardinality({j \in Starts : j <= i})

IsMarked(p) == p # <<>> /\ Last(p) = Sign("'")
Unmarked(p) == IF IsMarked(p) THEN Front(p) ELSE p
IsPiece(p) ==
    Unmarked(p) # <<>> /\ \A i \in DOMAIN Unmarked(p) : Unmarked(p)[i] \in DigitChars

WellFormed == \A i \in Starts : IsPiece(Piece(i))

ReadsPiece(x, p) ==
    /\ x.value \in Fitted(NumberOf(Unmarked(p)))
    /\ x.hardened = IsMarked(p)

Reads(path) ==
    /\ Len(path) = Cardinality(Starts)
    /\ \A i \in Starts : ReadsPiece(path[Ordinal(i)], Piece(i))

TypeOK ==
    /\ text \in Seq(Char)
    /\ it \in 1 .. Len(text) + 1
    /\ indices \in Seq(DerivationPathIndex)
    /\ status \in {"root", "loop", "parsed", "thrown"}
    /\ status = "loop" => ~AtEnd(it)
    /\ status = "parsed" => AtEnd(it)

(* The parser accepts the paths and no other text, and reads every         *)
(* component with its mark.                                                *)
ReadsPaths ==
    /\ status = "parsed" => WellFormed /\ Reads(indices)
    /\ status = "thrown" => ~WellFormed

(* What string() prints is parsed back to the same path: a path survives   *)
(* the way through the text that the native methods take.                  *)
PrintedPaths ==
    {[path |-> p, string |-> PathString(p)] :
        p \in BoundedSeq(DerivationPathIndex, (MaxText - 1) \div 2)}

RoundTrip ==
    \A x \in PrintedPaths :
        x.string = text =>
            status # "thrown" /\ (status = "parsed" => indices = x.path)

(* A turn of the loop that does not end it moves the cursor: with the      *)
(* cursor inside the text the parser ends.                                 *)
Advances == [][status = "loop" /\ status' = "loop" => it' > it]_vars

(* Every text is parsed or refused: the constructor returns. *)
Ends == <>(status \in {"parsed", "thrown"})

(* The comment of the constructor: it throws if the string is not a valid  *)
(* derivation path.  A component that no 32-bit word holds is accepted.    *)
RejectsOverflow ==
    status = "parsed" =>
        \A i \in Starts : NumberOf(Unmarked(Piece(i))) < Word
=============================================================================
