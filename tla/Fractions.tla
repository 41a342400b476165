------------------------------ MODULE Fractions -----------------------------
(***************************************************************************)
(* Fractions of natural numbers in lowest terms, for the quotients that    *)
(* the code computes in floating point.  Lowest terms keep the numbers     *)
(* small and make equal fractions equal records.                           *)
(***************************************************************************)
EXTENDS Integers, SequencesExt

CONSTANT None  \* an Option without a value

\* Euclid's algorithm.
gcd[p \in Nat \X Nat] == IF p[2] = 0 THEN p[1] ELSE gcd[<<p[2], p[1] % p[2]>>]

\* n / d, for a positive d.
Frac(n, d) ==
  LET g == gcd[<<n, d>>] IN [num |-> n \div g, den |-> d \div g]

\* The fractions, each of them once.
LowestTerms ==
  {f \in [num : Nat, den : Nat \ {0}] : gcd[<<f.num, f.den>>] = 1}

Whole(n) == [num |-> n, den |-> 1]
Zero == Whole(0)

\* The common factors of the denominators are taken out before multiplying.
Plus(a, b) ==
  LET g == gcd[<<a.den, b.den>>]
  IN  Frac(a.num * (b.den \div g) + b.num * (a.den \div g), a.den * (b.den \div g))

\* a - b, for b at most a.
Minus(a, b) ==
  LET g == gcd[<<a.den, b.den>>]
  IN  Frac(a.num * (b.den \div g) - b.num * (a.den \div g), a.den * (b.den \div g))

Times(a, b) ==
  LET x == Frac(a.num, b.den)
      y == Frac(b.num, a.den)
  IN  [num |-> x.num * y.num, den |-> x.den * y.den]

\* a / b, for a positive b.
Over(a, b) == Times(a, [num |-> b.den, den |-> b.num])

AtMost(a, b) == a.num * b.den <= b.num * a.den

\* A conversion to an integer type.
Floor(a) == a.num \div a.den

\* f64::round, of a fraction.
Round(a) == (2 * a.num + a.den) \div (2 * a.den)

\* The sum of a sequence of fractions, and the power of one.
SumOf(fractions) ==
  LET sum[i \in 0 .. Len(fractions)] ==
        IF i = 0 THEN Zero ELSE Plus(sum[i - 1], fractions[i])
  IN  sum[Len(fractions)]

Power(g, n) ==
  LET power[i \in 0 .. n] == IF i = 0 THEN Whole(1) ELSE Times(power[i - 1], g)
  IN  power[n]
=============================================================================
