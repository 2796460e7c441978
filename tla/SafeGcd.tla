------------------------------- MODULE SafeGcd ------------------------------
(***************************************************************************)
(* Inverses and Jacobi symbols by divsteps, as in modinv64_impl.h and, of  *)
(* the same shape, modinv32_impl.h: batches of divsteps on the low word    *)
(* of f and g yield a matrix, which is applied to the whole numbers.  A    *)
(* number is a sequence of limbs, the last of which carries the sign; a    *)
(* word has two bits more than a limb.                                     *)
(***************************************************************************)
EXTENDS Integers, SequencesExt

CONSTANTS
    LimbBits, Limbs,        \* 62 and 5, or 30 and 9
    Skip,                   \* divsteps of a limb that a constant-time batch leaves out
    Modulus,
    ConstIterations, VarIterations, JacobiIterations      \* 10, 12, 25, or 20, 25, 50

VARIABLE call

SafeGcdAssumption ==
    Modulus % 2 = 1 /\ Modulus >= 3 /\ Modulus < 2 ^ (LimbBits * Limbs - 1)

LimbSize == 2 ^ LimbBits
WordSize == 4 * LimbSize

Word(n) == n % WordSize
SignedWord(n) == IF n >= WordSize \div 2 THEN n - WordSize ELSE n

ToLimbs(n) == [i \in 1 .. Limbs |-> (n \div LimbSize ^ (i - 1)) % LimbSize]

ModulusLimbs == ToLimbs(Modulus)
ModulusInv == CHOOSE k \in 1 .. LimbSize - 1 : (k * Modulus) % LimbSize = 1

Value(a, len) ==
    FoldLeft(LAMBDA sum, i : sum + a[i] * LimbSize ^ (i - 1), 0, [i \in 1 .. len |-> i])
-----------------------------------------------------------------------------
(* The matrix of a batch of divsteps in constant time; u, v, q and r are   *)
(* words until the end.                                                    *)
DivstepTo(s, swap, g, q, r) ==
    LET With(a, b) == IF swap THEN Word(a + b) ELSE a
    IN  [eta |-> (IF swap THEN -s.eta - 1 ELSE s.eta) - 1, jac |-> 0,
         f |-> With(s.f, g), g |-> g \div 2,
         u |-> Word(2 * With(s.u, q)), v |-> Word(2 * With(s.v, r)), q |-> q, r |-> r]

Divstep(s) ==
    LET Plus(a, b) == IF s.g % 2 = 0 THEN a ELSE Word(a + (IF s.eta < 0 THEN -b ELSE b))
    IN  DivstepTo(s, s.eta < 0 /\ s.g % 2 = 1, Plus(s.g, s.f), Plus(s.q, s.u), Plus(s.r, s.v))

Matrix(s) ==
    [u |-> SignedWord(s.u), v |-> SignedWord(s.v), q |-> SignedWord(s.q), r |-> SignedWord(s.r)]

BatchOf(s) == [eta |-> s.eta, t |-> Matrix(s), jac |-> s.jac]

Divsteps(zeta, f0, g0) ==
    BatchOf(FoldLeft(LAMBDA acc, i : Divstep(acc),
                     [eta |-> zeta, f |-> f0, g |-> g0, jac |-> 0,
                      u |-> 2 ^ Skip, v |-> 0, q |-> 0, r |-> 2 ^ Skip],
                     [i \in 1 .. LimbBits - Skip |-> i]))
-----------------------------------------------------------------------------
TrailingZeros(g, most) ==
    Min({k \in 0 .. most : k = most \/ (g \div 2 ^ k) % 2 = 1})

Bit(n, i) == (n \div 2 ^ i) % 2

\* Broken variant: swapping two that are 3 modulo 4 keeps the symbol.
SwapSign_Kept(f, g) == 0

SwapSign(f, g) == Bit(f, 1) * Bit(g, 1)

(* The multiple of f that cancels the low bits of g, limit at most:        *)
(* by formulas for an inverse modulo 64 or, when f and g stay, modulo 16. *)
Cancels64(f, g, swapped, limit) ==
    LET Low(most) == 2 ^ Min({limit, most})
        simple == f + 8 * Bit(f + 1, 2)
    IN  IF swapped THEN (Word(f * g) * Word(f * f - 2)) % Low(6)
        ELSE ((-simple) * g) % Low(4)

Inv256(i) == CHOOSE k \in 0 .. 255 : (k * (2 * i + 1)) % 256 = 255

(* By a table of inverses modulo 256. *)
Cancels32(f, g, swapped, limit) ==
    (g * Inv256((f \div 2) % 128)) % 2 ^ Min({limit, 8})

Cancels(n, swapped, limit, bits) ==
    IF bits = 64 THEN Cancels64(n.f, n.g, swapped, limit) ELSE Cancels32(n.f, n.g, swapped, limit)

(* One round of the variable-time loop: the z zeros of g, then a swap if   *)
(* eta has become negative, then as many bits as a multiple of f can       *)
(* cancel.  pos keeps f and g positive and follows the sign of the Jacobi  *)
(* symbol.                                                                 *)
Shifted(s, z) ==
    [s EXCEPT !.g = @ \div 2 ^ z, !.u = Word(@ * 2 ^ z), !.v = Word(@ * 2 ^ z),
              !.eta = @ - z, !.i = @ - z, !.jac = (@ + z * (Bit(s.f, 1) + Bit(s.f, 2))) % 2]

Swapped(n, pos) ==
    LET Opposite(m) == IF pos THEN m ELSE Word(-m)
    IN  IF n.eta >= 0 THEN n
        ELSE [n EXCEPT !.eta = -@, !.f = n.g, !.g = Opposite(n.f), !.u = n.q,
                       !.q = Opposite(n.u), !.v = n.r, !.r = Opposite(n.v),
                       !.jac = (@ + SwapSign(n.f, n.g)) % 2]

AddTimes(n, w) ==
    [n EXCEPT !.g = Word(@ + n.f * w), !.q = Word(@ + n.u * w), !.r = Word(@ + n.v * w)]

Cancelled(n, swapped, bits) ==
    AddTimes(n, Cancels(n, swapped, Min({n.eta + 1, n.i}), bits))

AfterZeros(n, pos, bits) ==
    IF n.i = 0 THEN n ELSE Cancelled(Swapped(n, pos), n.eta < 0, bits)

Round(s, pos, bits) ==
    IF s.i = 0 THEN s ELSE AfterZeros(Shifted(s, TrailingZeros(s.g, s.i)), pos, bits)

(* Every round but the first divides g at least once. *)
DivstepsVar(eta, f0, g0, pos, jac, bits) ==
    BatchOf(FoldLeft(LAMBDA acc, k : Round(acc, pos, bits),
                     [i |-> LimbBits, eta |-> eta, f |-> f0, g |-> g0, jac |-> jac,
                      u |-> 1, v |-> 0, q |-> 0, r |-> 1],
                     [k \in 1 .. LimbBits + 1 |-> k]))
-----------------------------------------------------------------------------
(* The limbs of (a x + b y + m Modulus) / LimbSize over the first len, the *)
(* others as they are in x.  fits says that the sum is divisible, and that *)
(* it and its last carry stay within a double word and a word.             *)
AddLimb(acc, c) ==
    [carry |-> c \div LimbSize, out |-> Append(acc.out, c % LimbSize),
     fits |-> acc.fits /\ 2 * c \in -(WordSize ^ 2) .. WordSize ^ 2 - 1]

Divided(sum, rest) ==
    [fits |-> sum.fits /\ sum.out[1] = 0 /\ 2 * sum.carry \in -WordSize .. WordSize - 1,
     out |-> Append(Tail(sum.out), sum.carry) \o rest]

Row(len, a, x, b, y, m) ==
    Divided(FoldLeft(LAMBDA acc, i :
                         AddLimb(acc, acc.carry + a * x[i] + b * y[i] + m * ModulusLimbs[i]),
                     [carry |-> 0, out |-> <<>>, fits |-> TRUE], [i \in 1 .. len |-> i]),
            SubSeq(x, len + 1, Limbs))

(* A negative number counts as having the modulus added. *)
Start(a, x, b, y) ==
    (IF x[Limbs] < 0 THEN a ELSE 0) + (IF y[Limbs] < 0 THEN b ELSE 0)

(* A row of t applied to d and e, divisible by virtue of a multiple of the *)
(* modulus that is small enough to stay in (-2 Modulus, Modulus).          *)
UpdateRow(a, d, b, e) ==
    LET Divisible(m) == m - ((ModulusInv * (a * d[1] + b * e[1]) + m) % LimbSize)
    IN  Row(Limbs, a, d, b, e, Divisible(Start(a, d, b, e)))

UpdateDe(d, e, t) ==
    [d |-> UpdateRow(t.u, d, t.v, e), e |-> UpdateRow(t.r, e, t.q, d)]

UpdateFg(len, f, g, t) ==
    [f |-> Row(len, t.u, f, t.v, g, 0), g |-> Row(len, t.r, g, t.q, f, 0)]

(* The carries of the lower limbs, and the modulus twice at most. *)
Carried(r) ==
    FoldLeft(LAMBDA a, i : [a EXCEPT ![i] = @ % LimbSize, ![i + 1] = @ + a[i] \div LimbSize],
             r, [i \in 1 .. Limbs - 1 |-> i])

AddIfNegative(r) ==
    IF r[Limbs] < 0 THEN [i \in 1 .. Limbs |-> r[i] + ModulusLimbs[i]] ELSE r

Normalize(r, sign) ==
    LET Signed(a) == IF sign < 0 THEN [i \in 1 .. Limbs |-> -a[i]] ELSE a
    IN  Carried(AddIfNegative(Carried(Signed(AddIfNegative(r)))))
-----------------------------------------------------------------------------
Begin(mode, x) ==
    [mode |-> mode, x |-> x, d |-> ToLimbs(0), e |-> ToLimbs(1), f |-> ModulusLimbs,
     g |-> ToLimbs(x), eta |-> -1, len |-> Limbs, count |-> 0, jac |-> 0,
     fits |-> TRUE, done |-> FALSE, result |-> 0]

AppliedTo(s, eta, de, fg) ==
    [s EXCEPT !.eta = eta, !.d = de.d.out, !.e = de.e.out, !.f = fg.f.out, !.g = fg.g.out,
              !.fits = @ /\ de.d.fits /\ de.e.fits /\ fg.f.fits /\ fg.g.fits,
              !.count = @ + 1]

Applied(s, b, len) ==
    AppliedTo(s, b.eta, UpdateDe(s.d, s.e, b.t), UpdateFg(len, s.f, s.g, b.t))

Finished(s, result) == [s EXCEPT !.done = TRUE, !.result = result]

(* A number whose top limb says no more than its sign loses that limb. *)
ShorterSigned(s) ==
    LET top == {s.f[s.len], s.g[s.len]}
        Merge(a) == [a EXCEPT ![s.len - 1] = @ + a[s.len] * LimbSize]
    IN  IF s.len > 1 /\ top \subseteq {0, -1}
        THEN [s EXCEPT !.f = Merge(@), !.g = Merge(@), !.len = @ - 1] ELSE s

Shorter(s) ==
    IF s.len > 1 /\ s.f[s.len] = 0 /\ s.g[s.len] = 0 THEN [s EXCEPT !.len = @ - 1] ELSE s

LowWord(a) == Word(a[1])
LowWords(a) == Word(a[1] + a[2] * LimbSize)

IsNumber(a, len, n) == a[1] = n /\ \A j \in 2 .. len : a[j] = 0

(* One batch b in modinv, modinv_var and jacobi_maybe_var. *)
ConstEnd(n, iterations) ==
    IF n.count = iterations THEN Finished(n, Normalize(n.d, n.f[Limbs])) ELSE n

ConstStep(s, b, iterations) == ConstEnd(Applied(s, b, Limbs), iterations)

VarEnd(n) ==
    IF IsNumber(n.g, n.len, 0) THEN Finished(n, Normalize(n.d, n.f[n.len]))
    ELSE ShorterSigned(n)

VarStep(s, b) == VarEnd(Applied(s, b, s.len))

JacobiApplied(s, b, fg) ==
    [s EXCEPT !.eta = b.eta, !.jac = b.jac, !.f = fg.f.out, !.g = fg.g.out,
              !.fits = @ /\ fg.f.fits /\ fg.g.fits, !.count = @ + 1]

JacobiEnd(n, iterations) ==
    IF IsNumber(n.f, n.len, 1) THEN Finished(n, 1 - 2 * n.jac)
    ELSE IF n.count = iterations THEN Finished(n, 0)
    ELSE Shorter(n)

JacobiStep(s, b, iterations) ==
    JacobiEnd(JacobiApplied(s, b, UpdateFg(s.len, s.f, s.g, b.t)), iterations)
-----------------------------------------------------------------------------
(* The loops as processes: one batch of divsteps is a step.  mode is the   *)
(* function called: modinv64, modinv64_var or jacobi64_maybe_var, or those *)
(* of modinv32_impl.h.                                                     *)
Residues == 0 .. Modulus - 1

Init ==
    \E x \in Residues, mode \in {"const", "var", "jacobi"} :
        (mode = "jacobi" => x # 0) /\ call = Begin(mode, x)

Batch64 == Divsteps(call.eta, LowWord(call.f), LowWord(call.g))

BatchVar64 == DivstepsVar(call.eta, LowWord(call.f), LowWord(call.g), FALSE, 0, 64)

PosBatchVar64 ==
    DivstepsVar(call.eta, LowWords(call.f), LowWords(call.g), TRUE, call.jac, 64)

Modinv64 == call.mode = "const" /\ call' = ConstStep(call, Batch64, ConstIterations)

ModinvVar64 == call.mode = "var" /\ call' = VarStep(call, BatchVar64)

JacobiMaybeVar64 ==
    call.mode = "jacobi" /\ call' = JacobiStep(call, PosBatchVar64, JacobiIterations)

Next64 == ~call.done /\ (Modinv64 \/ ModinvVar64 \/ JacobiMaybeVar64)

Batch32 == Divsteps(call.eta, LowWord(call.f), LowWord(call.g))

BatchVar32 == DivstepsVar(call.eta, LowWord(call.f), LowWord(call.g), FALSE, 0, 32)

PosBatchVar32 ==
    DivstepsVar(call.eta, LowWords(call.f), LowWords(call.g), TRUE, call.jac, 32)

Modinv32 == call.mode = "const" /\ call' = ConstStep(call, Batch32, ConstIterations)

ModinvVar32 == call.mode = "var" /\ call' = VarStep(call, BatchVar32)

JacobiMaybeVar32 ==
    call.mode = "jacobi" /\ call' = JacobiStep(call, PosBatchVar32, JacobiIterations)

Next32 == ~call.done /\ (Modinv32 \/ ModinvVar32 \/ JacobiMaybeVar32)
-----------------------------------------------------------------------------
SquareResidues == {(r * r) % Modulus : r \in Residues}

(* The result is the inverse, of zero zero.  A symbol that was found is    *)
(* the Legendre symbol (Modulus is prime).                                 *)
Correct(s) ==
    s.done =>
        IF s.mode = "jacobi"
        THEN s.result # 0 => (s.result = 1 <=> s.x \in SquareResidues)
        ELSE /\ \A i \in 1 .. Limbs : s.result[i] \in 0 .. LimbSize - 1
             /\ Value(s.result, Limbs) \in Residues
             /\ (Value(s.result, Limbs) * s.x) % Modulus = IF s.x = 0 THEN 0 ELSE 1

Bounded(s, varIterations) ==
    LET f == Value(s.f, s.len)
        g == Value(s.g, s.len)
        Held(n) == -2 * Modulus < n /\ n < Modulus
    IN  /\ s.fits
        /\ Held(Value(s.d, Limbs)) /\ Held(Value(s.e, Limbs))
        /\ -Modulus < f /\ f <= Modulus /\ -Modulus < g /\ g < Modulus
        /\ s.mode = "jacobi" => f > 0 /\ g > 0
        /\ s.mode = "const" /\ s.done => g = 0 /\ f \in {1, -1, Modulus}
        /\ s.mode = "var" => s.count <= varIterations
=============================================================================
