----------------------------- MODULE Rationals -----------------------------
(***************************************************************************)
(* Exact arithmetic for the formulas whose identities rounding would hide: *)
(* reduced fractions <<numerator, denominator>>, denominator positive.     *)
(***************************************************************************)
EXTENDS Integers

Size(n) == IF n < 0 THEN -n ELSE n
gcd[p \in Nat \X Nat] == IF p[2] = 0 THEN p[1] ELSE gcd[<<p[2], p[1] % p[2]>>]

\* Lowest terms over a positive denominator.
Fraction == {p \in Int \X (Nat \ {0}) : gcd[<<Size(p[1]), p[2]>>] = 1}

\* A helper takes what a LET would name: the operators nest deeply.
Reduced(n, d, g) == IF d < 0 THEN <<-(n \div g), -(d \div g)>> ELSE <<n \div g, d \div g>>
R(n, d) == Reduced(n, d, gcd[<<Size(n), Size(d)>>])

Zero == R(0, 1)
Half == R(1, 2)
One == R(1, 1)

\* Common factors go before the products, which TLC keeps within 32 bits.
AddedOver(a, b, g) == R(a[1] * (b[2] \div g) + b[1] * (a[2] \div g), a[2] * (b[2] \div g))
Crosswise(x, y) == <<x[1] * y[1], x[2] * y[2]>>
a \oplus b == AddedOver(a, b, gcd[<<a[2], b[2]>>])
a \otimes b == Crosswise(R(a[1], b[2]), R(b[1], a[2]))
a \ominus b == a \oplus <<-b[1], b[2]>>
a \oslash b == a \otimes (IF b[1] < 0 THEN <<-b[2], -b[1]>> ELSE <<b[2], b[1]>>)
a \prec b == (a \ominus b)[1] < 0
a \preceq b == ~(b \prec a)

Minus(a) == Zero \ominus a
Fabs(a) == IF a \prec Zero THEN Minus(a) ELSE a
SQR(a) == a \otimes a
=============================================================================
