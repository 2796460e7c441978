-------------------------------- MODULE Texts -------------------------------
(***************************************************************************)
(* The conversions of strencodings.cpp between a text and what it says:    *)
(* bytes in base 16, 32 and 64, an amount, a host with its port.  A        *)
(* character is the digit it stands for, or one of those named below.      *)
(***************************************************************************)
EXTENDS Integers, SequencesExt

CONSTANTS
    Ten,            \* the base of the decimal digits
    Precision,      \* 18: digits of the largest amount
    MaxPort         \* 65535

TextsAssumption ==
    Ten \in Nat \ {0, 1} /\ Precision \in Nat \ {0} /\ MaxPort \in Nat

Digit == 0 .. Ten - 1

\* The characters that are no digits.
Pad == -1           \* =
Space == -2
Other == -3         \* a letter, or any that is not listed
Minus == -4
Plus == -5
Point == -6
Exponent == -7      \* e
Colon == -8
Open == -9          \* [
Close == -10        \* ]
-----------------------------------------------------------------------------
\* Bytes in base 16, 32 and 64.
Failure == [ok |-> FALSE, bytes |-> <<>>]
Decoded(bytes) == [ok |-> TRUE, bytes |-> bytes]

\* ConvertBits: acc keeps no more bits than are still to be written.
TakeBits(st, acc, bits, to) ==
    [ok |-> TRUE, acc |-> acc, bits |-> bits % to,
     out |-> st.out \o [i \in 1 .. bits \div to |->
                           (acc \div (2 ^ (bits - i * to))) % (2 ^ to)]]

Convert(in, from, to) ==
    FoldLeft(LAMBDA st, v :
                 IF v < 0 \/ ~st.ok THEN [st EXCEPT !.ok = FALSE]
                 ELSE TakeBits(st, (st.acc * (2 ^ from) + v) % (2 ^ (from + to - 1)),
                               st.bits + from, to),
             [ok |-> TRUE, acc |-> 0, bits |-> 0, out |-> <<>>], in)

\* The bits left in acc, moved to the top of a digit.
Rest(st, to) == (st.acc * (2 ^ (to - st.bits))) % (2 ^ to)

WithRest(st, to) == st.out \o IF st.bits > 0 THEN <<Rest(st, to)>> ELSE <<>>

ConvertPadded(in, from, to) == WithRest(Convert(in, from, to), to)

NothingOver(st, from, to) ==
    IF ~st.ok \/ st.bits >= from \/ Rest(st, to) # 0 THEN Failure
    ELSE Decoded(st.out)

ConvertExact(in, from, to) == NothingOver(Convert(in, from, to), from, to)

\* As many = as make the length a multiple of n.
PadTo(s, n) == s \o [i \in 1 .. (n - (Len(s) % n)) % n |-> Pad]

\* k trailing = are taken off if they are there.
Unpad(s, k) ==
    IF Len(s) >= k /\ \A i \in Len(s) - k + 1 .. Len(s) : s[i] = Pad
    THEN SubSeq(s, 1, Len(s) - k) ELSE s
-----------------------------------------------------------------------------
EncodeBase64(bytes) == PadTo(ConvertPadded(bytes, 8, 6), 4)

DecodeBase64(text) ==
    IF Len(text) % 4 # 0 THEN Failure
    ELSE ConvertExact(Unpad(Unpad(text, 1), 1), 6, 8)

EncodeBase32(bytes, pad) ==
    PadTo(ConvertPadded(bytes, 8, 5), IF pad THEN 8 ELSE 1)

DecodeBase32(text) ==
    IF Len(text) % 8 # 0 THEN Failure
    ELSE ConvertExact(Unpad(Unpad(Unpad(Unpad(text, 1), 2), 1), 2), 5, 8)
-----------------------------------------------------------------------------
HexStr(bytes) == FlattenSeq([i \in 1 .. Len(bytes) |->
                                <<bytes[i] \div 16, bytes[i] % 16>>])

HexDigit(c) == IF c \in 0 .. 15 THEN c ELSE -1

IsHex(text) ==
    /\ \A i \in 1 .. Len(text) : HexDigit(text[i]) >= 0
    /\ Len(text) > 0 /\ Len(text) % 2 = 0

\* White space may stand between bytes, not inside one.
RECURSIVE TryParseHex(_)
TryParseHex(text) ==
    IF text = <<>> THEN Decoded(<<>>)
    ELSE IF Head(text) = Space THEN TryParseHex(Tail(text))
    ELSE IF Len(text) = 1 THEN Failure
    ELSE LET rest == TryParseHex(SubSeq(text, 3, Len(text)))
         IN  IF ~rest.ok \/ HexDigit(text[1]) < 0 \/ HexDigit(text[2]) < 0
             THEN Failure
             ELSE Decoded(<<16 * text[1] + text[2]>> \o rest.bytes)
-----------------------------------------------------------------------------
(* ParseFixedPoint: a decimal number with fraction and exponent, as a      *)
(* 64-bit number of units of 10 ^ -decimals. One character at a time; the  *)
(* phase says where in the JSON grammar the parser is.                     *)
UPPER_BOUND == (Ten ^ Precision) - 1

Start == [phase |-> "start", neg |-> FALSE, mantissa |-> 0, tzeros |-> 0,
          ofs |-> 0, eneg |-> FALSE, exp |-> 0]

Abandoned(p) == [p EXCEPT !.phase = "failed"]

\* Zeros are held back until a digit follows: the loop multiplies by ten for
\* each and for the digit, and looks before every time if it still can.
ProcessMantissaDigit(p, c) ==
    IF c = 0 THEN [p EXCEPT !.tzeros = @ + 1]
    ELSE IF \E i \in 0 .. p.tzeros : p.mantissa * (Ten ^ i) > UPPER_BOUND \div Ten
    THEN Abandoned(p)
    ELSE [p EXCEPT !.mantissa = @ * (Ten ^ (p.tzeros + 1)) + c, !.tzeros = 0]

ProcessExponentDigit(p, c) ==
    IF p.exp > UPPER_BOUND \div Ten THEN Abandoned(p)
    ELSE [p EXCEPT !.exp = @ * Ten + c]

To(p, phase) == IF p.phase = "failed" THEN p ELSE [p EXCEPT !.phase = phase]

ProcessChar(p, c) ==
    CASE p.phase = "start" /\ c = Minus -> To([p EXCEPT !.neg = TRUE], "sign")
      [] p.phase \in {"start", "sign"} /\ c = 0 -> To(p, "zero")
      [] p.phase \in {"start", "sign", "int"} /\ c \in Digit ->
            To(ProcessMantissaDigit(p, c), "int")
      [] p.phase \in {"zero", "int"} /\ c = Point -> To(p, "point")
      [] p.phase \in {"point", "frac"} /\ c \in Digit ->
            To([ProcessMantissaDigit(p, c) EXCEPT !.ofs = @ + 1], "frac")
      [] p.phase \in {"zero", "int", "frac"} /\ c = Exponent -> To(p, "e")
      [] p.phase = "e" /\ c = Plus -> To(p, "esign")
      [] p.phase = "e" /\ c = Minus -> To([p EXCEPT !.eneg = TRUE], "esign")
      [] p.phase \in {"e", "esign", "exp"} /\ c \in Digit ->
            To(ProcessExponentDigit(p, c), "exp")
      [] OTHER -> Abandoned(p)

NoAmount == [ok |-> FALSE, amount |-> 0]

\* The exponent after the last character, in units of 10 ^ -decimals.
FinalExponent(p, decimals) ==
    (IF p.eneg THEN -p.exp ELSE p.exp) - p.ofs + p.tzeros + decimals

Shift(p, exponent) ==
    IF \/ p.phase \notin {"zero", "int", "frac", "exp"}
       \/ exponent < 0 \/ exponent >= Precision
       \/ \E i \in 0 .. exponent - 1 :
             p.mantissa * (Ten ^ i) > UPPER_BOUND \div Ten
       \/ p.mantissa * (Ten ^ exponent) > UPPER_BOUND
    THEN NoAmount
    ELSE [ok |-> TRUE,
          amount |-> (IF p.neg THEN -p.mantissa ELSE p.mantissa) * (Ten ^ exponent)]

Finish(p, decimals) == Shift(p, FinalExponent(p, decimals))

ParseFixedPoint(text, decimals) ==
    Finish(FoldLeft(ProcessChar, Start, text), decimals)
-----------------------------------------------------------------------------
(* SplitHostPort: the host and the port of an address, told apart by the   *)
(* last colon, unless an address of several colons is without brackets.    *)
Untouched == -1     \* the caller's port stays as it was

\* ToIntegral<uint16_t>: digits only, and no more than the type holds.
ToIntegral(s) ==
    IF s = <<>> \/ ~(ToSet(s) \subseteq Digit) THEN {}
    ELSE {FoldLeft(LAMBDA v, d : v * Ten + d, 0, s)} \cap (0 .. MaxPort)

Colons(in) == {i \in 1 .. Len(in) : in[i] = Colon}

LastColon(in) == CHOOSE i \in Colons(in) : \A j \in Colons(in) : j <= i

HasPort(in) ==
    /\ Colons(in) # {}
    /\ \/ LastColon(in) = 1
       \/ in[1] = Open /\ in[LastColon(in) - 1] = Close
       \/ Colons(in) = {LastColon(in)}

Unbracketed(in) ==
    IF in # <<>> /\ in[1] = Open /\ in[Len(in)] = Close
    THEN SubSeq(in, 2, Len(in) - 1) ELSE in

Split(valid, port, in) ==
    [valid |-> valid, port |-> port, host |-> Unbracketed(in)]

SplitAt(in, at, n) ==
    IF n = {} THEN Split(FALSE, Untouched, in)
    ELSE Split(n # {0}, CHOOSE p \in n : TRUE, SubSeq(in, 1, at - 1))

SplitHostPort(in) ==
    IF ~HasPort(in) THEN Split(TRUE, Untouched, in)
    ELSE SplitAt(in, LastColon(in),
                 ToIntegral(SubSeq(in, LastColon(in) + 1, Len(in))))
=============================================================================
