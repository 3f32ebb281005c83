-------------------------------- MODULE Grisu --------------------------------
(***************************************************************************)
(* How dump finds the digits of a floating-point number (Grisu2,           *)
(* to_chars.hpp): the number and the boundaries between which a decimal is *)
(* read as this number are scaled by a cached power of ten, and the digits *)
(* of the upper boundary are taken until they are between both.            *)
(*                                                                         *)
(* The widths are constants: a number has p bits and a diyfp q, 53 and 64  *)
(* in the build.  An assertion of the code that fails makes Failed.        *)
(***************************************************************************)
LOCAL INSTANCE Integers
LOCAL INSTANCE Sequences

CONSTANTS
    kPrecision,              \* q, the bits of the significand of a diyfp
    kMantissa,               \* p, the bits of the significand of a number, the hidden one included
    kBias,                   \* what is taken from the exponent of a number
    kAlpha, kGamma,          \* the exponents that a scaled number may have
    kCachedPowers,           \* powers of ten as [f, e, k], f * 2^e ~= 10^k
    kCachedPowersMinDecExp,  \* the exponent k of the first
    kCachedPowersDecStep     \* and the step from each to the next

diyfp(f, e) == [f |-> f, e |-> e]

\* Half of the bits: the product is put together from products of halves.
Half == 2^(kPrecision \div 2)
Low(f) == f % Half
High(f) == f \div Half

\* The upper q bits of the product, rounded.
mul(x, y) ==
    LET p0 == Low(x.f) * Low(y.f)
        p1 == Low(x.f) * High(y.f)
        p2 == High(x.f) * Low(y.f)
        p3 == High(x.f) * High(y.f)
        carries == High(p0) + Low(p1) + Low(p2) + Half \div 2
    IN  diyfp(p3 + High(p1) + High(p2) + High(carries), x.e + y.e + kPrecision)

RECURSIVE normalize(_)
normalize(x) == IF x.f >= 2^(kPrecision - 1) THEN x ELSE normalize(diyfp(2 * x.f, x.e - 1))

normalize_to(x, exponent) == diyfp(x.f * 2^(x.e - exponent), exponent)

\* The number with the exponent bits E and the fraction bits F, F * 2^(1 - bias)
\* or (2^(p-1) + F) * 2^(E - bias).
Represented(E, F) ==
    IF E = 0 THEN diyfp(F, 1 - kBias) ELSE diyfp(F + 2^(kMantissa - 1), E - kBias)

\* A power of two is closer to its predecessor than to its successor.
LowerBoundaryIsCloser(E, F) == F = 0 /\ E > 1
Plus(E, F) == LET v == Represented(E, F) IN diyfp(2 * v.f + 1, v.e - 1)
Minus(E, F) ==
    LET v == Represented(E, F)
    IN  IF LowerBoundaryIsCloser(E, F) THEN diyfp(4 * v.f - 1, v.e - 2) ELSE diyfp(2 * v.f - 1, v.e - 1)
compute_boundaries(E, F) ==
    LET plus == normalize(Plus(E, F))
    IN  [w |-> normalize(Represented(E, F)), minus |-> normalize_to(Minus(E, F), plus.e), plus |-> plus]

\* Division in C: towards zero.
Quotient(n, d) == IF n >= 0 THEN n \div d ELSE -((-n) \div d)

Failed == [digits |-> <<>>, exponent |-> 0]

\* The cached power that brings the exponent e between alpha and gamma.
get_cached_power(e) ==
    LET f == kAlpha - e - 1
        k == Quotient(f * 78913, 2^18) + (IF f > 0 THEN 1 ELSE 0)
        index == (k - kCachedPowersMinDecExp + (kCachedPowersDecStep - 1)) \div kCachedPowersDecStep + 1
    IN  IF index \notin DOMAIN kCachedPowers THEN Failed
        ELSE IF kCachedPowers[index].e + e + kPrecision \notin kAlpha..kGamma THEN Failed
        ELSE kCachedPowers[index]

\* The greatest power of ten that is not above n.
find_largest_pow10(n) == CHOOSE k \in 1..10 : 10^(k - 1) <= n /\ (n < 10^k \/ k = 10)

\* The last digit goes down as long as this takes V = M+ - rest nearer to w.
Nearer(rest, dist, delta, ulp) ==
    /\ rest < dist
    /\ delta - rest >= ulp
    /\ rest + ulp < dist \/ dist - rest > rest + ulp - dist
RECURSIVE grisu2_round(_, _, _, _, _)
grisu2_round(digits, dist, delta, rest, ulp) ==
    IF ~Nearer(rest, dist, delta, ulp) THEN digits
    ELSE grisu2_round([digits EXCEPT ![Len(digits)] = @ - 1], dist, delta, rest + ulp, ulp)

Generated(digits, exponent, dist, delta, rest, ulp) ==
    IF ~(dist <= delta /\ rest <= delta) THEN Failed
    ELSE [digits |-> grisu2_round(digits, dist, delta, rest, ulp), exponent |-> exponent]

\* The digits of the fraction p2 / one, m of which there are already.
RECURSIVE FractionDigits(_, _, _, _, _, _, _)
FractionDigits(digits, exponent, one, p2, dist, delta, m) ==
    LET d == (10 * p2) \div one
        r == (10 * p2) % one
        more == Append(digits, d)
    IN  IF 10 * p2 >= 2^kPrecision \/ d > 9 THEN Failed
        ELSE IF r <= 10 * delta THEN Generated(more, exponent - (m + 1), 10 * dist, 10 * delta, r, one)
        ELSE FractionDigits(more, exponent, one, r, 10 * dist, 10 * delta, m + 1)

\* The digits of the integral part p1, n of which are left.
RECURSIVE IntegralDigits(_, _, _, _, _, _, _, _)
IntegralDigits(digits, exponent, one, p1, n, p2, dist, delta) ==
    LET pow10 == 10^(n - 1)
        more == Append(digits, p1 \div pow10)
        rest == (p1 % pow10) * one + p2
    IN  IF p1 \div pow10 > 9 THEN Failed
        ELSE IF rest <= delta THEN Generated(more, exponent + (n - 1), dist, delta, rest, pow10 * one)
        ELSE IF n > 1 THEN IntegralDigits(more, exponent, one, p1 % pow10, n - 1, p2, dist, delta)
        ELSE IF p2 <= delta THEN Failed
        ELSE FractionDigits(more, exponent, one, p2, dist, delta, 0)

grisu2_digit_gen(exponent, minus, w, plus) ==
    LET one == 2^(-plus.e)
        p1 == plus.f \div one
    IN  IF ~(plus.e \in kAlpha..kGamma /\ plus.f >= minus.f /\ plus.f >= w.f /\ p1 > 0) THEN Failed
        ELSE IntegralDigits(<<>>, exponent, one, p1, find_largest_pow10(p1),
                            plus.f % one, plus.f - w.f, plus.f - minus.f)

\* The boundaries are taken in by one, for what rounding may have added.
grisu2(E, F) ==
    LET w == compute_boundaries(E, F)
        cached == get_cached_power(w.plus.e)
        minus == mul(w.minus, cached)
        plus == mul(w.plus, cached)
    IN  IF cached = Failed THEN Failed
        ELSE grisu2_digit_gen(-cached.k, diyfp(minus.f + 1, minus.e), mul(w.w, cached),
                              diyfp(plus.f - 1, plus.e))

-----------------------------------------------------------------------------
(* What the digits have to be.                                             *)

\* The numbers next to the number (E, F).
Successor(E, F) == IF F = 2^(kMantissa - 1) - 1 THEN Represented(E + 1, 0) ELSE Represented(E, F + 1)
Predecessor(E, F) == IF F = 0 THEN Represented(E - 1, 2^(kMantissa - 1) - 1) ELSE Represented(E, F - 1)

Aligned(x, e) == x.f * 2^(x.e - e)
Sum(x, y) == LET e == IF x.e < y.e THEN x.e ELSE y.e IN diyfp(Aligned(x, e) + Aligned(y, e), e)

\* n * 10^k and f * 2^e as natural numbers, up to a common factor.
Shifted(n, power) == IF power > 0 THEN n * 2^power ELSE n
OfDecimal(n, k, x) == Shifted(IF k > 0 THEN n * 5^k ELSE n, k - x.e)
OfBinary(x, k) == Shifted(IF k > 0 THEN x.f ELSE x.f * 5^(-k), x.e - k)

\* n * 10^k is nearer to the number (E, F) than to any other number.
ReadsAs(n, k, E, F) ==
    LET v == Represented(E, F)
        lower == Sum(Predecessor(E, F), v)
        upper == Sum(v, Successor(E, F))
    IN  /\ OfDecimal(2 * n, k, lower) > OfBinary(lower, k)
        /\ OfDecimal(2 * n, k, upper) < OfBinary(upper, k)

\* 1 + ceil(p * log10(2)) digits are enough (to_chars.hpp:801-811).
EnoughDigits == CHOOSE n \in 2..20 : 10^(n - 2) < 2^kMantissa /\ 2^kMantissa <= 10^(n - 1)
=============================================================================
