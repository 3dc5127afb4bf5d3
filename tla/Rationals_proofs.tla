-------------------------- MODULE Rationals_proofs --------------------------
(***************************************************************************)
(* Reduced fractions are an ordered field.  The prover knows the integers: *)
(* a statement about fractions is brought to one about their numerators    *)
(* over a common denominator (Over).  That gcd, a recursive function, is   *)
(* defined and right for every pair of numbers rests on the least number   *)
(* of a set: a least counterexample stands for an induction.               *)
(***************************************************************************)
EXTENDS Rationals, WellFoundedInduction, TLAPS

Pos == Nat \ {0}
Divides(d, n) == \E k \in Nat : n = d * k
CommonDivisors(m, n) == {d \in Pos : Divides(d, m) /\ Divides(d, n)}
IsGreatest(g, S) == g \in S /\ \A d \in S : d <= g

LEMMA LeastNumber ==
  ASSUME NEW T \in SUBSET Nat, T # {}
  PROVE  \E x \in T : \A y \in T : x <= y
<1>1. PICK x \in T : \A y \in T : ~(<<y, x>> \in OpToRel(<, Nat))
  BY NatLessThanWellFounded, WFMin
<1>2. \A y \in T : ~(y < x)
  BY <1>1 DEF OpToRel
<1> QED BY <1>2

LEMMA GreatestNumber ==
  ASSUME NEW S \in SUBSET Nat, S # {}, NEW b \in Nat, \A x \in S : x <= b
  PROVE  \E g \in S : IsGreatest(g, S)
<1> DEFINE T == {n \in Nat : \E x \in S : n = b - x}
<1>1. T # {}
  <2>1. PICK x \in S : TRUE
    OBVIOUS
  <2>2. b - x \in T
    BY <2>1
  <2> QED BY <2>2
<1>2. PICK n \in T : \A y \in T : n <= y
  BY <1>1, LeastNumber
<1>3. PICK g \in S : n = b - g
  OBVIOUS
<1>4. ASSUME NEW x \in S PROVE x <= g
  <2>1. b - x \in T
    OBVIOUS
  <2> QED BY <1>2, <1>3, <2>1
<1> QED BY <1>4 DEF IsGreatest

-----------------------------------------------------------------------------
LEMMA DividesBound ==
  ASSUME NEW d \in Pos, NEW n \in Pos, Divides(d, n)
  PROVE  d <= n
<1>1. PICK k \in Nat : n = d * k
  BY DEF Divides
<1>2. k >= 1
  BY <1>1 DEF Pos
<1>3. d * k >= d
  BY <1>2 DEF Pos
<1> QED BY <1>1, <1>3 DEF Pos

LEMMA DividesSelf == \A n \in Nat : Divides(n, n) /\ Divides(n, 0) /\ Divides(1, n)
<1> TAKE n \in Nat
<1>1. n = n * 1 /\ 0 = n * 0 /\ n = 1 * n
  OBVIOUS
<1> QED BY <1>1 DEF Divides

LEMMA SameDivisors ==
  ASSUME NEW m \in Nat, NEW n \in Pos
  PROVE  CommonDivisors(n, m % n) = CommonDivisors(m, n)
<1>1. m \div n \in Nat /\ m % n \in Nat /\ m = n * (m \div n) + (m % n)
  BY DEF Pos
<1> DEFINE q == m \div n
           r == m % n
<1> HIDE DEF q, r
<1>2. q \in Nat /\ r \in Nat /\ m = n * q + r
  BY <1>1 DEF q, r
<1>3. ASSUME NEW d \in Pos, NEW k \in Nat, NEW l \in Nat, n = d * k, r = d * l
      PROVE  m = d * (k * q + l) /\ k * q + l \in Nat
  BY <1>2, <1>3 DEF Pos
<1>4. ASSUME NEW d \in Pos, NEW k \in Nat, NEW l \in Nat, n = d * k, m = d * l
      PROVE  r = d * (l - k * q) /\ l - k * q \in Nat
  <2>1. r = d * (l - k * q)
    BY <1>2, <1>4 DEF Pos
  <2>2. l - k * q >= 0
    BY <1>2, <2>1 DEF Pos
  <2> QED BY <2>1, <2>2, <1>2
<1>5. \A d \in Pos : Divides(d, n) /\ Divides(d, r) <=> Divides(d, m) /\ Divides(d, n)
  BY <1>3, <1>4 DEF Divides
<1> QED BY <1>5 DEF CommonDivisors, r

LEMMA GreatestDivisor ==
  ASSUME NEW m \in Nat, NEW n \in Nat, m > 0 \/ n > 0
  PROVE  \E g \in CommonDivisors(m, n) : IsGreatest(g, CommonDivisors(m, n))
<1>1. 1 \in CommonDivisors(m, n)
  BY DividesSelf DEF CommonDivisors, Pos
<1>2. \A d \in CommonDivisors(m, n) : d <= m + n
  BY DividesBound DEF CommonDivisors, Pos
<1>3. CommonDivisors(m, n) \in SUBSET Nat
  BY DEF CommonDivisors, Pos
<1>4. CommonDivisors(m, n) # {} /\ m + n \in Nat
  BY <1>1
<1> HIDE DEF CommonDivisors
<1> QED BY <1>2, <1>3, <1>4, GreatestNumber

Greatest(m, n) == CHOOSE g \in CommonDivisors(m, n) : IsGreatest(g, CommonDivisors(m, n))
GreatestOf(p) == IF p[1] = 0 /\ p[2] = 0 THEN 0 ELSE Greatest(p[1], p[2])
Euclid(f) == [p \in Nat \X Nat |-> IF p[2] = 0 THEN p[1] ELSE f[<<p[2], p[1] % p[2]>>]]

LEMMA GreatestFacts ==
  ASSUME NEW m \in Nat, NEW n \in Nat, m > 0 \/ n > 0
  PROVE  IsGreatest(Greatest(m, n), CommonDivisors(m, n)) /\ Greatest(m, n) \in Pos
BY GreatestDivisor DEF Greatest, IsGreatest, CommonDivisors

LEMMA GreatestStep ==
  ASSUME NEW m \in Nat, NEW n \in Pos
  PROVE  GreatestOf(<<n, m % n>>) = GreatestOf(<<m, n>>)
BY SameDivisors DEF GreatestOf, Greatest, Pos

LEMMA GreatestBase == \A m \in Nat : GreatestOf(<<m, 0>>) = m
<1> SUFFICES ASSUME NEW m \in Nat, m > 0 PROVE Greatest(m, 0) = m
  BY DEF GreatestOf
<1>1. m \in CommonDivisors(m, 0) /\ m \in Pos
  BY DividesSelf DEF CommonDivisors, Pos
<1>2. IsGreatest(Greatest(m, 0), CommonDivisors(m, 0)) /\ Greatest(m, 0) \in Pos
  BY GreatestFacts
<1>3. m <= Greatest(m, 0)
  BY <1>1, <1>2 DEF IsGreatest
<1>4. Greatest(m, 0) <= m
  BY <1>1, <1>2, DividesBound DEF IsGreatest, CommonDivisors
<1> QED BY <1>2, <1>3, <1>4 DEF Pos

\* The recursive definition of gcd has a solution, so gcd is one.
LEMMA GcdDefined == gcd = Euclid(gcd)
<1> DEFINE G == [p \in Nat \X Nat |-> GreatestOf(p)]
<1>1. ASSUME NEW p \in Nat \X Nat
      PROVE  G[p] = IF p[2] = 0 THEN p[1] ELSE G[<<p[2], p[1] % p[2]>>]
  <2>1. PICK m \in Nat, n \in Nat : p = <<m, n>>
    OBVIOUS
  <2>2. CASE n = 0
    BY <2>1, <2>2, GreatestBase
  <2>3. CASE n # 0
    <3>1. n \in Pos /\ m % n \in Nat
      BY <2>3 DEF Pos
    <3> QED BY <2>1, <2>3, <3>1, GreatestStep
  <2> QED BY <2>2, <2>3
<1> HIDE DEF G
<1>2. Euclid(G) = G
  BY <1>1 DEF Euclid, G
<1> DEFINE P(f) == f = Euclid(f)
<1>3. gcd = CHOOSE f : P(f)
  BY DEF gcd, Euclid
<1>4. P(G)
  BY <1>2
<1> HIDE DEF P
<1>5. P(gcd)
  BY <1>3, <1>4
<1> QED BY <1>5 DEF P

LEMMA GcdIsGreatest == \A m, n \in Nat : gcd[<<m, n>>] = GreatestOf(<<m, n>>)
<1> DEFINE T == {n \in Nat : \E m \in Nat : gcd[<<m, n>>] # GreatestOf(<<m, n>>)}
<1> SUFFICES ASSUME T # {} PROVE FALSE
  OBVIOUS
<1>1. PICK n \in T : \A k \in T : n <= k
  BY LeastNumber
<1>2. PICK m \in Nat : gcd[<<m, n>>] # GreatestOf(<<m, n>>)
  OBVIOUS
<1>3. gcd[<<m, n>>] = IF n = 0 THEN m ELSE gcd[<<n, m % n>>]
  BY GcdDefined DEF Euclid
<1>4. n # 0
  BY <1>2, <1>3, GreatestBase
<1>5. m % n \in Nat /\ m % n < n /\ n \in Pos
  BY <1>4 DEF Pos
<1>6. gcd[<<n, m % n>>] = GreatestOf(<<n, m % n>>)
  BY <1>1, <1>5
<1> QED BY <1>2, <1>3, <1>4, <1>5, <1>6, GreatestStep

\* Euclid's algorithm computes the greatest common divisor.
THEOREM GcdCorrect ==
  ASSUME NEW m \in Nat, NEW n \in Nat, m > 0 \/ n > 0
  PROVE  IsGreatest(gcd[<<m, n>>], CommonDivisors(m, n)) /\ gcd[<<m, n>>] \in Pos
BY GcdIsGreatest, GreatestFacts DEF GreatestOf

-----------------------------------------------------------------------------
LEMMA GcdFacts ==
  ASSUME NEW m \in Nat, NEW n \in Pos
  PROVE  /\ gcd[<<m, n>>] \in Pos
         /\ Divides(gcd[<<m, n>>], m) /\ Divides(gcd[<<m, n>>], n)
         /\ \A d \in Pos : Divides(d, m) /\ Divides(d, n) => d <= gcd[<<m, n>>]
<1>1. IsGreatest(gcd[<<m, n>>], CommonDivisors(m, n)) /\ gcd[<<m, n>>] \in Pos
  BY GcdCorrect DEF Pos
<1> QED BY <1>1 DEF IsGreatest, CommonDivisors

LEMMA Cancel ==
  ASSUME NEW a \in Int, NEW b \in Int, NEW c \in Int, c # 0, a * c = b * c
  PROVE  a = b
OBVIOUS

LEMMA Quotient ==
  ASSUME NEW d \in Pos, NEW n \in Int, NEW k \in Int, n = d * k
  PROVE  n \div d = k
BY DEF Pos

LEMMA SizeFacts ==
  ASSUME NEW n \in Int
  PROVE  Size(n) \in Nat /\ (Size(n) = n \/ Size(n) = -n) /\ (n # 0 => Size(n) \in Pos)
BY DEF Size, Pos

LEMMA Coprime ==
  ASSUME NEW p \in Fraction, NEW k \in Pos, NEW a \in Int, NEW b \in Nat,
         p[1] = k * a, p[2] = k * b
  PROVE  k = 1
<1>1. p[1] \in Int /\ p[2] \in Pos /\ gcd[<<Size(p[1]), p[2]>>] = 1
  BY DEF Fraction, Pos
<1>2. Size(p[1]) = k * Size(a) /\ Size(a) \in Nat
  BY DEF Size, Pos
<1>3. Divides(k, Size(p[1])) /\ Divides(k, p[2])
  BY <1>2 DEF Divides
<1>4. k <= 1
  BY <1>1, <1>3, SizeFacts, GcdFacts
<1> QED BY <1>4 DEF Pos

\* Dividing by the greatest common divisor leaves no other.
LEMMA Lowest ==
  ASSUME NEW m \in Nat, NEW n \in Pos, NEW a \in Nat, NEW b \in Nat,
         m = gcd[<<m, n>>] * a, n = gcd[<<m, n>>] * b
  PROVE  b \in Pos /\ gcd[<<a, b>>] = 1
<1> DEFINE g == gcd[<<m, n>>]
<1>1. /\ g \in Pos
      /\ \A d \in Pos : Divides(d, m) /\ Divides(d, n) => d <= g
  BY GcdFacts
<1> HIDE DEF g
<1>2. m = g * a /\ n = g * b
  BY DEF g
<1>3. b \in Pos
  BY <1>1, <1>2 DEF Pos
<1> DEFINE e == gcd[<<a, b>>]
<1>4. e \in Pos /\ Divides(e, a) /\ Divides(e, b)
  BY <1>3, GcdFacts
<1> HIDE DEF e
<1>5. PICK k \in Nat, l \in Nat : a = e * k /\ b = e * l
  BY <1>4 DEF Divides
<1>6. g * e \in Pos /\ m = (g * e) * k /\ n = (g * e) * l
  BY <1>1, <1>2, <1>4, <1>5 DEF Pos
<1>7. g * e <= g
  BY <1>1, <1>6 DEF Divides
<1>8. e = 1
  BY <1>1, <1>4, <1>7 DEF Pos
<1> QED BY <1>3, <1>8 DEF e

\* R makes a reduced fraction of any quotient.
LEMMA RFacts ==
  ASSUME NEW n \in Int, NEW d \in Int, d # 0
  PROVE  R(n, d) \in Fraction /\ R(n, d)[1] * d = n * R(n, d)[2]
<1> DEFINE m == Size(n)
           c == Size(d)
           g == gcd[<<m, c>>]
<1>1. m \in Nat /\ (m = n \/ m = -n) /\ c \in Pos /\ c = IF d < 0 THEN -d ELSE d
  BY SizeFacts DEF Size
<1>2. g \in Pos /\ Divides(g, m) /\ Divides(g, c)
  BY <1>1, GcdFacts
<1>3. PICK k \in Nat, l \in Nat : m = g * k /\ c = g * l
  BY <1>2 DEF Divides
<1>4. l \in Pos /\ gcd[<<k, l>>] = 1
  BY <1>1, <1>3, Lowest
<1> HIDE DEF g
<1> DEFINE i == n \div g
           j == d \div g
<1>5. i \in Int /\ n = g * i /\ Size(i) = k
  <2>1. CASE m = n
    <3>1. i = k
      BY <2>1, <1>2, <1>3, Quotient
    <3> QED BY <3>1, <2>1, <1>3 DEF Size
  <2>2. CASE m = -n
    <3>1. n = g * (-k)
      BY <2>2, <1>2, <1>3 DEF Pos
    <3>2. i = -k
      BY <3>1, <1>2, Quotient
    <3> QED BY <3>1, <3>2 DEF Size
  <2> QED BY <2>1, <2>2, <1>1
<1>6. j = IF d < 0 THEN -l ELSE l
  <2>1. CASE d < 0
    <3>1. d = g * (-l)
      BY <2>1, <1>1, <1>2, <1>3 DEF Pos
    <3> QED BY <3>1, <2>1, <1>2, Quotient
  <2>2. CASE ~(d < 0)
    <3>1. d = g * l
      BY <2>2, <1>1, <1>3
    <3> QED BY <3>1, <2>2, <1>2, Quotient
  <2> QED BY <2>1, <2>2
<1> DEFINE s == IF d < 0 THEN -1 ELSE 1
<1>7. R(n, d) = <<s * i, s * j>>
  <2>1. R(n, d) = IF d < 0 THEN <<-i, -j>> ELSE <<i, j>>
    BY DEF R, Reduced, g
  <2>2. i \in Int /\ j \in Int
    BY <1>4, <1>5, <1>6 DEF Pos
  <2> HIDE DEF i, j
  <2> QED BY <2>1, <2>2
<1> HIDE DEF i, j
<1>8. s * j = l /\ s * i \in Int /\ Size(s * i) = k
  BY <1>4, <1>5, <1>6 DEF Size, Pos
<1>9. R(n, d) \in Fraction
  BY <1>4, <1>7, <1>8 DEF Fraction, Pos
<1>10. (s * i) * d = n * l
  <2>1. d = s * (g * l)
    BY <1>1, <1>3, <1>4, <1>2 DEF Pos
  <2>2. s * s = 1
    OBVIOUS
  <2>3. (s * i) * (s * (g * l)) = (s * s) * ((g * i) * l)
    BY <1>2, <1>4, <1>5 DEF Pos
  <2> QED BY <2>1, <2>2, <2>3, <1>2, <1>4, <1>5 DEF Pos
<1> QED BY <1>7, <1>8, <1>9, <1>10

LEMMA CoprimeIff ==
  ASSUME NEW m \in Nat, NEW n \in Pos
  PROVE  gcd[<<m, n>>] = 1 <=> \A k \in Pos : Divides(k, m) /\ Divides(k, n) => k = 1
<1>1. CASE gcd[<<m, n>>] = 1
  BY <1>1, GcdFacts DEF Pos
<1>2. ASSUME \A k \in Pos : Divides(k, m) /\ Divides(k, n) => k = 1
      PROVE  gcd[<<m, n>>] = 1
  BY <1>2, GcdFacts
<1> QED BY <1>1, <1>2

LEMMA DivisionFacts ==
  ASSUME NEW n \in Nat, NEW d \in Pos
  PROVE  n \div d \in Nat /\ n = d * (n \div d) + (n % d) /\ n % d \in Nat /\ n % d < d
BY DEF Pos

\* Whatever equals a reduced fraction has a multiple of its denominator: both
\* are multiples of the least one.
LEMMA Multiple ==
  ASSUME NEW p \in Fraction, NEW m \in Int, NEW e \in Pos, m * p[2] = p[1] * e
  PROVE  \E k \in Pos : m = k * p[1] /\ e = k * p[2]
<1> DEFINE T == {f \in Pos : \E i \in Int : i * p[2] = p[1] * f}
<1>1. p[1] \in Int /\ p[2] \in Pos
  BY DEF Fraction, Pos
<1>2. PICK e0 \in T : \A f \in T : e0 <= f
  <2>1. e \in T
    OBVIOUS
  <2>2. T \in SUBSET Nat /\ T # {}
    BY <2>1 DEF Pos
  <2> QED BY <2>2, LeastNumber
<1>3. PICK m0 \in Int : m0 * p[2] = p[1] * e0
  OBVIOUS
<1>4. e0 \in Pos
  OBVIOUS
<1>5. ASSUME NEW f \in Pos, NEW i \in Int, i * p[2] = p[1] * f
      PROVE  \E k \in Pos : i = k * m0 /\ f = k * e0
  <2> DEFINE k == f \div e0
             r == f % e0
  <2>1. k \in Nat /\ f = e0 * k + r /\ r \in Nat /\ r < e0
    BY <1>4, DivisionFacts DEF Pos
  <2> HIDE DEF k, r
  <2>2. (i - m0 * k) * p[2] = p[1] * r
    <3>1. (i - m0 * k) * p[2] = i * p[2] - k * (m0 * p[2])
      BY <1>1, <2>1 DEF Pos
    <3>2. p[1] * r = p[1] * f - k * (p[1] * e0)
      BY <1>1, <1>4, <2>1 DEF Pos
    <3> QED BY <3>1, <3>2, <1>3, <1>5
  <2>3. r = 0
    <3>1. i - m0 * k \in Int
      BY <2>1
    <3>2. r \in Pos => r \in T
      BY <2>2, <3>1
    <3> QED BY <3>2, <1>2, <1>4, <2>1 DEF Pos
  <2>4. f = k * e0 /\ k \in Pos
    BY <2>1, <2>3, <1>4 DEF Pos
  <2>5. i = k * m0
    BY <2>2, <2>3, <2>1, <1>1 DEF Pos
  <2> QED BY <2>4, <2>5
<1>6. PICK k \in Pos : p[1] = k * m0 /\ p[2] = k * e0
  BY <1>1, <1>5
<1>7. k = 1
  BY <1>4, <1>6, Coprime DEF Pos
<1>8. p[1] = m0 /\ p[2] = e0
  BY <1>4, <1>6, <1>7 DEF Pos
<1> QED BY <1>5, <1>8

LEMMA PairFacts ==
  ASSUME NEW p \in Fraction
  PROVE  p[1] \in Int /\ p[2] \in Pos /\ p = <<p[1], p[2]>> /\ gcd[<<Size(p[1]), p[2]>>] = 1
BY DEF Fraction, Pos

LEMMA PairParts ==
  ASSUME NEW p \in Fraction
  PROVE  p[1] \in Int /\ p[2] \in Pos /\ p[2] \in Int /\ p[2] > 0
BY DEF Fraction, Pos

\* Equal quotients are one reduced fraction.
LEMMA Unique ==
  ASSUME NEW p \in Fraction, NEW r \in Fraction, p[1] * r[2] = r[1] * p[2]
  PROVE  p = r
<1>1. PICK k \in Pos : r[1] = k * p[1] /\ r[2] = k * p[2]
  BY PairFacts, Multiple
<1>2. k = 1
  BY <1>1, PairFacts, Coprime DEF Pos
<1>3. p[1] \in Int /\ p[2] \in Int
  BY PairParts
<1>4. r[1] = p[1] /\ r[2] = p[2]
  BY <1>1, <1>2, <1>3
<1> QED BY <1>4, PairFacts

LEMMA EuclidsLemma ==
  ASSUME NEW m \in Nat, NEW n \in Nat, NEW d \in Pos, gcd[<<m, d>>] = 1, Divides(d, m * n)
  PROVE  Divides(d, n)
<1>1. PICK e \in Nat : m * n = d * e
  BY DEF Divides
<1>2. CASE n = 0
  BY <1>2, DividesSelf DEF Pos
<1>3. CASE n # 0
  <2>1. <<m, d>> \in Fraction
    BY DEF Fraction, Size, Pos
  <2> DEFINE p == <<m, d>>
  <2>2. e * p[2] = p[1] * n /\ e \in Int /\ n \in Pos
    BY <1>1, <1>3 DEF Pos
  <2>3. PICK k \in Pos : n = k * p[2]
    BY <2>1, <2>2, Multiple
  <2>4. n = d * k /\ k \in Nat
    BY <2>3 DEF Pos
  <2> QED BY <2>4 DEF Divides
<1> QED BY <1>2, <1>3

LEMMA DividesTrans ==
  ASSUME NEW d \in Nat, NEW m \in Nat, NEW n \in Nat, Divides(d, m)
  PROVE  Divides(d, m * n) /\ Divides(d, n * m)
<1>1. PICK k \in Nat : m = d * k
  BY DEF Divides
<1>2. m * n = d * (k * n) /\ n * m = d * (k * n) /\ k * n \in Nat
  BY <1>1
<1> QED BY <1>2 DEF Divides

LEMMA CoprimeProduct ==
  ASSUME NEW m \in Nat, NEW n \in Nat, NEW c \in Pos,
         gcd[<<m, c>>] = 1, gcd[<<n, c>>] = 1
  PROVE  gcd[<<m * n, c>>] = 1
<1> SUFFICES ASSUME NEW k \in Pos, Divides(k, m * n), Divides(k, c) PROVE k = 1
  BY CoprimeIff
<1>1. PICK l \in Nat : c = k * l
  BY DEF Divides
<1>2. ASSUME NEW j \in Pos, Divides(j, m), Divides(j, k) PROVE j = 1
  <2>1. Divides(j, c)
    BY <1>1, <1>2, DividesTrans DEF Pos
  <2> QED BY <2>1, <1>2, CoprimeIff
<1>3. gcd[<<m, k>>] = 1
  BY <1>2, CoprimeIff
<1>4. Divides(k, n)
  BY <1>3, EuclidsLemma
<1> QED BY <1>4, CoprimeIff

LEMMA CoprimeSwap ==
  ASSUME NEW m \in Pos, NEW n \in Pos, gcd[<<m, n>>] = 1
  PROVE  gcd[<<n, m>>] = 1
BY CoprimeIff DEF Pos

-----------------------------------------------------------------------------
\* x is n / d: what the statements about fractions are brought to.
Over(x, n, d) == x \in Fraction /\ n \in Int /\ d \in Pos /\ x[1] * d = n * x[2]

LEMMA OverParts ==
  ASSUME NEW x, NEW n, NEW d, Over(x, n, d)
  PROVE  /\ x \in Fraction /\ n \in Int /\ d \in Int /\ d > 0 /\ x[1] * d = n * x[2]
         /\ x[1] \in Int /\ x[2] \in Int /\ x[2] > 0 /\ d \in Pos /\ x[2] \in Pos
BY PairParts DEF Over, Pos

LEMMA OverSelf == \A x \in Fraction : Over(x, x[1], x[2])
BY PairParts DEF Over

LEMMA OverR ==
  ASSUME NEW n \in Int, NEW d \in Pos
  PROVE  Over(R(n, d), n, d)
BY RFacts DEF Over, Pos

LEMMA OverScale ==
  ASSUME NEW x, NEW n, NEW d, Over(x, n, d), NEW k \in Pos
  PROVE  Over(x, k * n, k * d) /\ Over(x, n * k, d * k)
<1>1. x \in Fraction /\ n \in Int /\ d \in Pos /\ x[1] * d = n * x[2] /\ x[1] \in Int /\ x[2] \in Int
  BY OverParts
<1>2. x[1] * (k * d) = (k * n) * x[2]
  <2>1. x[1] * (k * d) = k * (x[1] * d)
    BY <1>1 DEF Pos
  <2>2. (k * n) * x[2] = k * (n * x[2])
    BY <1>1 DEF Pos
  <2> QED BY <1>1, <2>1, <2>2
<1>3. k * d \in Pos /\ k * n \in Int
  BY <1>1 DEF Pos
<1>4. k * d = d * k /\ k * n = n * k
  BY <1>1 DEF Pos
<1> QED BY <1>1, <1>2, <1>3, <1>4 DEF Over

LEMMA OverEqual ==
  ASSUME NEW x, NEW y, NEW n, NEW m, NEW d, Over(x, n, d), Over(y, m, d)
  PROVE  x = y <=> n = m
<1>1. /\ x \in Fraction /\ n \in Int /\ d \in Int /\ d > 0 /\ x[1] * d = n * x[2]
      /\ y \in Fraction /\ m \in Int /\ y[1] * d = m * y[2]
      /\ x[1] \in Int /\ x[2] \in Int /\ x[2] > 0 /\ y[1] \in Int /\ y[2] \in Int /\ y[2] > 0
      /\ d \in Pos /\ x[2] \in Pos /\ y[2] \in Pos
  BY OverParts
<1>2. ASSUME n = m PROVE x = y
  <2>1. (x[1] * y[2]) * d = (y[1] * x[2]) * d
    <3>1. (x[1] * y[2]) * d = (n * x[2]) * y[2]
      BY <1>1
    <3>2. (y[1] * x[2]) * d = (m * y[2]) * x[2]
      BY <1>1
    <3> QED BY <1>1, <1>2, <3>1, <3>2
  <2>2. x[1] * y[2] = y[1] * x[2]
    BY <1>1, <2>1, Cancel
  <2> QED BY <1>1, <2>2, Unique
<1>3. ASSUME x = y PROVE n = m
  <2>1. n * x[2] = m * x[2]
    BY <1>1, <1>3
  <2> QED BY <1>1, <2>1, Cancel
<1> QED BY <1>2, <1>3

LEMMA OverNegated ==
  ASSUME NEW x, NEW n, NEW d, Over(x, n, d)
  PROVE  Over(<<-x[1], x[2]>>, -n, d)
<1>1. x \in Fraction /\ n \in Int /\ d \in Pos /\ x[1] * d = n * x[2] /\ x[1] \in Int /\ x[2] \in Pos
      /\ gcd[<<Size(x[1]), x[2]>>] = 1
  BY PairFacts DEF Over
<1>2. Size(-x[1]) = Size(x[1])
  BY <1>1 DEF Size
<1>3. <<-x[1], x[2]>> \in Fraction
  BY <1>1, <1>2 DEF Fraction, Pos
<1>4. (-x[1]) * d = (-n) * x[2]
  BY <1>1 DEF Pos
<1> QED BY <1>1, <1>3, <1>4 DEF Over

LEMMA DivideOut ==
  ASSUME NEW d \in Pos, NEW n \in Nat, Divides(d, n)
  PROVE  n = d * (n \div d) /\ n \div d \in Nat
<1>1. PICK k \in Nat : n = d * k
  BY DEF Divides
<1>2. n \div d = k
  BY <1>1, Quotient
<1> QED BY <1>1, <1>2

LEMMA OverPlus ==
  ASSUME NEW x, NEW y, NEW n, NEW m, NEW d, Over(x, n, d), Over(y, m, d)
  PROVE  Over(x \oplus y, n + m, d)
<1>1. /\ x \in Fraction /\ n \in Int /\ d \in Int /\ d > 0 /\ x[1] * d = n * x[2]
      /\ y \in Fraction /\ m \in Int /\ y[1] * d = m * y[2]
      /\ x[1] \in Int /\ x[2] \in Int /\ x[2] > 0 /\ y[1] \in Int /\ y[2] \in Int /\ y[2] > 0
      /\ d \in Pos /\ x[2] \in Pos /\ y[2] \in Pos
  BY OverParts
<1> DEFINE g == gcd[<<x[2], y[2]>>]
           k == x[2] \div g
           l == y[2] \div g
<1>2. g \in Pos /\ Divides(g, x[2]) /\ Divides(g, y[2])
  BY <1>1, GcdFacts DEF Pos
<1>3. x[2] = g * k /\ y[2] = g * l /\ k \in Nat /\ l \in Nat
  BY <1>1, <1>2, DivideOut DEF Pos
<1> DEFINE N == x[1] * l + y[1] * k
           D == x[2] * l
<1>4. x \oplus y = R(N, D)
  BY DEF \oplus, AddedOver
<1> HIDE DEF g, k, l
<1>5. N \in Int /\ D \in Int /\ D > 0
  <2>1. l > 0
    BY <1>1, <1>2, <1>3 DEF Pos
  <2> QED BY <2>1, <1>1, <1>2, <1>3
<1>6. N * d = (n + m) * D
  <2>1. N * d = (x[1] * d) * l + (y[1] * d) * k
    BY <1>1, <1>3 DEF Pos
  <2>2. (n * x[2]) * l + (m * y[2]) * k = (n * (g * k)) * l + (m * (g * l)) * k
    BY <1>3
  <2>3. (n * (g * k)) * l + (m * (g * l)) * k = (n + m) * ((g * k) * l)
    BY <1>1, <1>2, <1>3 DEF Pos
  <2> QED BY <1>1, <1>3, <2>1, <2>2, <2>3
<1> HIDE DEF N, D
<1> DEFINE r == R(N, D)
<1>7. r \in Fraction /\ r[1] * D = N * r[2] /\ r[1] \in Int /\ r[2] \in Int
  BY <1>5, RFacts, PairParts
<1> HIDE DEF r
<1> DEFINE t == n + m
<1>8. r[1] * d = t * r[2]
  <2>1. t \in Int /\ N * d = t * D
    BY <1>1, <1>6
  <2> HIDE DEF t
  <2>2. (r[1] * d) * D = (N * r[2]) * d
    BY <1>1, <1>5, <1>7
  <2>3. (t * r[2]) * D = (N * d) * r[2]
    BY <2>1, <1>1, <1>5, <1>7
  <2>4. (r[1] * d) * D = (t * r[2]) * D
    BY <2>2, <2>3, <1>1, <1>5, <1>7
  <2>5. r[1] * d \in Int /\ t * r[2] \in Int /\ D # 0
    BY <2>1, <1>1, <1>5, <1>7
  <2> QED BY <2>4, <2>5, <1>5, Cancel
<1> QED BY <1>1, <1>4, <1>7, <1>8 DEF Over, r

LEMMA OverMinus ==
  ASSUME NEW x, NEW y, NEW n, NEW m, NEW d, Over(x, n, d), Over(y, m, d)
  PROVE  Over(x \ominus y, n - m, d)
<1>1. Over(<<-y[1], y[2]>>, -m, d)
  BY OverNegated
<1>2. Over(x \ominus y, n + (-m), d)
  BY <1>1, OverPlus DEF \ominus
<1>3. n \in Int /\ m \in Int
  BY DEF Over
<1>4. n + (-m) = n - m
  BY <1>3
<1> QED BY <1>2, <1>4

LEMMA CoprimeTimes ==
  ASSUME NEW i \in Nat, NEW j \in Nat, NEW k \in Pos, NEW l \in Pos,
         gcd[<<i, k>>] = 1, gcd[<<i, l>>] = 1, gcd[<<j, k>>] = 1, gcd[<<j, l>>] = 1
  PROVE  gcd[<<i * j, k * l>>] = 1
<1>1. gcd[<<i * j, k>>] = 1 /\ gcd[<<i * j, l>>] = 1 /\ i * j \in Nat
  BY CoprimeProduct
<1>2. CASE i * j = 0
  <2>1. ASSUME NEW c \in Pos, gcd[<<0, c>>] = 1 PROVE c = 1
    BY <2>1, CoprimeIff, DividesSelf DEF Pos
  <2>2. k = 1 /\ l = 1
    BY <1>1, <1>2, <2>1
  <2> QED BY <2>2, <1>1, <1>2
<1>3. CASE i * j # 0
  <2>1. i * j \in Pos /\ k * l \in Pos
    BY <1>1, <1>3 DEF Pos
  <2>2. gcd[<<k, i * j>>] = 1 /\ gcd[<<l, i * j>>] = 1
    BY <1>1, <2>1, CoprimeSwap
  <2>3. gcd[<<k * l, i * j>>] = 1
    BY <2>1, <2>2, CoprimeProduct DEF Pos
  <2> QED BY <2>1, <2>3, CoprimeSwap
<1> QED BY <1>2, <1>3

LEMMA CoprimePart ==
  ASSUME NEW m \in Nat, NEW n \in Pos, NEW i \in Nat, NEW k \in Pos, gcd[<<m, n>>] = 1,
         Divides(i, m), Divides(k, n)
  PROVE  gcd[<<i, k>>] = 1
<1> SUFFICES ASSUME NEW c \in Pos, Divides(c, i), Divides(c, k) PROVE c = 1
  BY CoprimeIff
<1>1. PICK a \in Nat, b \in Nat : m = i * a /\ n = k * b
  BY DEF Divides
<1>2. Divides(c, i * a) /\ Divides(c, k * b)
  BY DividesTrans DEF Pos
<1> QED BY <1>1, <1>2, CoprimeIff

LEMMA RDivides ==
  ASSUME NEW n \in Int, NEW d \in Pos
  PROVE  Divides(Size(R(n, d)[1]), Size(n)) /\ Divides(R(n, d)[2], d)
<1> DEFINE r == R(n, d)
<1>1. r \in Fraction /\ r[1] * d = n * r[2] /\ r[1] \in Int /\ r[2] \in Pos
  BY RFacts, PairParts DEF Pos
<1> HIDE DEF r
<1>2. n * r[2] = r[1] * d
  BY <1>1
<1>3. PICK k \in Pos : n = k * r[1] /\ d = k * r[2]
  BY <1>1, <1>2, Multiple
<1>4. Size(n) = Size(r[1]) * k /\ d = r[2] * k /\ k \in Nat
  BY <1>1, <1>3 DEF Size, Pos
<1> QED BY <1>4 DEF Divides, r

LEMMA OverTimes ==
  ASSUME NEW x, NEW y, NEW n, NEW m, NEW d, NEW e, Over(x, n, d), Over(y, m, e)
  PROVE  Over(x \otimes y, n * m, d * e)
<1>1. /\ x \in Fraction /\ n \in Int /\ d \in Int /\ d > 0 /\ x[1] * d = n * x[2]
      /\ y \in Fraction /\ m \in Int /\ e \in Int /\ e > 0 /\ y[1] * e = m * y[2]
      /\ x[1] \in Int /\ x[2] \in Int /\ x[2] > 0 /\ y[1] \in Int /\ y[2] \in Int /\ y[2] > 0
      /\ x[2] \in Pos /\ y[2] \in Pos
  BY OverParts
<1> DEFINE a == R(x[1], y[2])
           b == R(y[1], x[2])
<1>2. /\ a \in Fraction /\ a[1] * y[2] = x[1] * a[2]
      /\ b \in Fraction /\ b[1] * x[2] = y[1] * b[2]
  BY <1>1, RFacts
<1>3. /\ Divides(Size(a[1]), Size(x[1])) /\ Divides(a[2], y[2])
      /\ Divides(Size(b[1]), Size(y[1])) /\ Divides(b[2], x[2])
  BY <1>1, RDivides
<1>4. x \otimes y = <<a[1] * b[1], a[2] * b[2]>>
  BY DEF \otimes, Crosswise
<1> HIDE DEF a, b
<1>5. /\ a[1] \in Int /\ a[2] \in Int /\ a[2] > 0 /\ a[2] \in Pos /\ gcd[<<Size(a[1]), a[2]>>] = 1
      /\ b[1] \in Int /\ b[2] \in Int /\ b[2] > 0 /\ b[2] \in Pos /\ gcd[<<Size(b[1]), b[2]>>] = 1
  <2>1. \A p \in Fraction : p[1] \in Int /\ p[2] \in Int /\ p[2] > 0 /\ p[2] \in Pos
    BY PairParts
  <2>2. \A p \in Fraction : gcd[<<Size(p[1]), p[2]>>] = 1
    BY DEF Fraction
  <2> QED BY <2>1, <2>2, <1>2
<1>6. x \otimes y \in Fraction
  <2>1. /\ Size(a[1]) \in Nat /\ Size(b[1]) \in Nat /\ Size(x[1]) \in Nat /\ Size(y[1]) \in Nat
    BY <1>1, <1>5, SizeFacts
  <2>2. gcd[<<Size(x[1]), x[2]>>] = 1 /\ gcd[<<Size(y[1]), y[2]>>] = 1
    BY <1>1 DEF Fraction
  <2>3. gcd[<<Size(a[1]), b[2]>>] = 1 /\ gcd[<<Size(b[1]), a[2]>>] = 1
    BY <1>1, <1>3, <1>5, <2>1, <2>2, CoprimePart
  <2>4. gcd[<<Size(a[1]) * Size(b[1]), a[2] * b[2]>>] = 1
    BY <1>5, <2>1, <2>3, CoprimeTimes
  <2>5. Size(a[1]) * Size(b[1]) = Size(a[1] * b[1])
    <3>1. CASE a[1] >= 0 /\ b[1] >= 0
      BY <3>1, <1>5 DEF Size
    <3>2. CASE a[1] >= 0 /\ b[1] < 0
      BY <3>2, <1>5 DEF Size
    <3>3. CASE a[1] < 0 /\ b[1] >= 0
      BY <3>3, <1>5 DEF Size
    <3>4. CASE a[1] < 0 /\ b[1] < 0
      BY <3>4, <1>5 DEF Size
    <3> QED BY <3>1, <3>2, <3>3, <3>4, <1>5
  <2>6. a[1] * b[1] \in Int /\ a[2] * b[2] \in Nat \ {0}
    BY <1>5
  <2> QED BY <1>4, <2>4, <2>5, <2>6 DEF Fraction
<1> DEFINE i == a[1] * b[1]
           j == a[2] * b[2]
           c == x[2] * y[2]
           f == d * e
           g == n * m
<1>7. i * f = g * j
  <2>1. i * c = (x[1] * y[1]) * j
    <3>1. i * c = (a[1] * y[2]) * (b[1] * x[2])
      BY <1>1, <1>5
    <3>2. (x[1] * y[1]) * j = (x[1] * a[2]) * (y[1] * b[2])
      BY <1>1, <1>5
    <3> QED BY <3>1, <3>2, <1>2
  <2>2. (x[1] * y[1]) * f = g * c
    <3>1. (x[1] * y[1]) * f = (x[1] * d) * (y[1] * e)
      BY <1>1
    <3>2. g * c = (n * x[2]) * (m * y[2])
      BY <1>1
    <3> QED BY <3>1, <3>2, <1>1
  <2>3. i \in Int /\ j \in Int /\ c \in Int /\ c > 0 /\ f \in Int /\ g \in Int /\ x[1] * y[1] \in Int
    BY <1>1, <1>5
  <2> DEFINE h == x[1] * y[1]
  <2>4. i * c = h * j /\ h * f = g * c /\ h \in Int
    BY <2>1, <2>2, <2>3
  <2> HIDE DEF i, j, c, f, g, h
  <2>5. (i * f) * c = (g * j) * c
    <3>1. (i * f) * c = (i * c) * f
      BY <2>3
    <3>2. (g * j) * c = (g * c) * j
      BY <2>3
    <3>3. (h * j) * f = (h * f) * j
      BY <2>3, <2>4
    <3> QED BY <3>1, <3>2, <3>3, <2>4
  <2>6. i * f \in Int /\ g * j \in Int /\ c # 0
    BY <2>3
  <2> QED BY <2>3, <2>5, <2>6, Cancel
<1>8. g \in Int /\ f \in Pos
  BY <1>1 DEF Pos
<1> QED BY <1>4, <1>6, <1>7, <1>8 DEF Over

LEMMA OverInverse ==
  ASSUME NEW x, NEW n, NEW d, Over(x, n, d), n # 0
  PROVE  LET y == IF x[1] < 0 THEN <<-x[2], -x[1]>> ELSE <<x[2], x[1]>>
         IN  Over(y, IF n < 0 THEN -d ELSE d, IF n < 0 THEN -n ELSE n)
<1>1. /\ x \in Fraction /\ n \in Int /\ d \in Int /\ d > 0 /\ x[1] * d = n * x[2]
      /\ x[1] \in Int /\ x[2] \in Int /\ x[2] > 0 /\ x[2] \in Pos
      /\ gcd[<<Size(x[1]), x[2]>>] = 1
  BY OverParts DEF Fraction
<1>2. (n > 0 => x[1] > 0) /\ (n < 0 => x[1] < 0)
  BY <1>1
<1>3. gcd[<<x[2], Size(x[1])>>] = 1
  BY <1>1, <1>2, SizeFacts, CoprimeSwap
<1>4. CASE n > 0
  <2>1. <<x[2], x[1]>> \in Fraction
    BY <1>1, <1>2, <1>3, <1>4 DEF Fraction, Size
  <2>2. x[2] * n = d * x[1]
    BY <1>1
  <2> QED BY <1>1, <1>2, <1>4, <2>1, <2>2 DEF Over, Pos
<1>5. CASE n < 0
  <2>1. <<-x[2], -x[1]>> \in Fraction
    BY <1>1, <1>2, <1>3, <1>5 DEF Fraction, Size
  <2>2. (-x[2]) * (-n) = (-d) * (-x[1])
    BY <1>1
  <2> QED BY <1>1, <1>2, <1>5, <2>1, <2>2 DEF Over, Pos
<1> QED BY <1>1, <1>4, <1>5

LEMMA OverDivide ==
  ASSUME NEW x, NEW y, NEW n \in Int, NEW m \in Int, NEW d \in Int, NEW e \in Int,
         Over(x, n, d), Over(y, m, e), m > 0
  PROVE  Over(x \oslash y, n * e, d * m)
<1> DEFINE z == IF y[1] < 0 THEN <<-y[2], -y[1]>> ELSE <<y[2], y[1]>>
<1>1. Over(z, e, m)
  BY OverInverse
<1>2. x \oslash y = x \otimes z
  BY DEF \oslash
<1> HIDE DEF z
<1> QED BY <1>1, <1>2, OverTimes

LEMMA OverDivideNegative ==
  ASSUME NEW x, NEW y, NEW n \in Int, NEW m \in Int, NEW d \in Int, NEW e \in Int,
         Over(x, n, d), Over(y, m, e), m < 0
  PROVE  Over(x \oslash y, n * (-e), d * (-m))
<1> DEFINE z == IF y[1] < 0 THEN <<-y[2], -y[1]>> ELSE <<y[2], y[1]>>
<1>1. Over(z, -e, -m)
  BY OverInverse
<1>2. x \oslash y = x \otimes z
  BY DEF \oslash
<1> HIDE DEF z
<1> QED BY <1>1, <1>2, OverTimes

LEMMA OverLess ==
  ASSUME NEW x, NEW y, NEW n, NEW m, NEW d, Over(x, n, d), Over(y, m, d)
  PROVE  /\ x \prec y <=> n < m
         /\ x \preceq y <=> n <= m
<1>1. ASSUME NEW u, NEW v, NEW i, NEW j, Over(u, i, d), Over(v, j, d)
      PROVE  u \prec v <=> i < j
  <2> DEFINE r == u \ominus v
  <2>1. Over(r, i - j, d) /\ i \in Int /\ j \in Int
    BY <1>1, OverMinus, OverParts
  <2>2. r[1] * d = (i - j) * r[2] /\ r[1] \in Int /\ r[2] \in Int /\ r[2] > 0 /\ d \in Int /\ d > 0
    BY <2>1, OverParts
  <2>3. u \prec v <=> r[1] < 0
    BY DEF \prec
  <2> HIDE DEF r
  <2> DEFINE k == i - j
  <2>4. k \in Int
    BY <2>1
  <2>5. r[1] < 0 <=> k < 0
    <3> HIDE DEF k
    <3> QED BY <2>2, <2>4 DEF k
  <2> QED BY <2>1, <2>3, <2>5
<1>2. x \prec y <=> n < m
  BY <1>1
<1>3. y \prec x <=> m < n
  BY <1>1
<1>4. n \in Int /\ m \in Int
  BY OverParts
<1> QED BY <1>2, <1>3, <1>4 DEF \preceq

-----------------------------------------------------------------------------
LEMMA PosTimes == \A d, e \in Pos : d * e \in Pos
BY DEF Pos

LEMMA OverConstants ==
  ASSUME NEW d \in Pos
  PROVE  Over(Zero, 0, d) /\ Over(One, d, d) /\ Over(Half, d, 2 * d) /\ Over(Half, 1, 2)
<1>1. Over(Zero, 0, 1) /\ Over(One, 1, 1) /\ Over(Half, 1, 2)
  BY OverR DEF Zero, One, Half, Pos
<1>2. Over(Zero, d * 0, d * 1) /\ Over(One, d * 1, d * 1) /\ Over(Half, d * 1, d * 2)
  BY <1>1, OverScale
<1>3. d * 0 = 0 /\ d * 1 = d /\ d * 2 = 2 * d
  BY DEF Pos
<1> QED BY <1>1, <1>2, <1>3

\* Eight fractions, or fewer, have a common denominator.
Denominator(d, S) == d \in Pos /\ \A x \in S : \E n \in Int : Over(x, n, d)

LEMMA DenominatorUnion ==
  ASSUME NEW d, NEW e, NEW S, NEW T, Denominator(d, S), Denominator(e, T)
  PROVE  Denominator(d * e, S \cup T)
<1>1. d \in Pos /\ e \in Pos /\ d * e \in Pos /\ d \in Int /\ e \in Int
  BY PosTimes DEF Denominator, Pos
<1>2. ASSUME NEW x \in S PROVE \E n \in Int : Over(x, n, d * e)
  <2>1. PICK n \in Int : Over(x, n, d)
    BY DEF Denominator
  <2>2. Over(x, n * e, d * e) /\ n * e \in Int
    BY <1>1, <2>1, OverScale
  <2> QED BY <2>2
<1>3. ASSUME NEW x \in T PROVE \E n \in Int : Over(x, n, d * e)
  <2>1. PICK n \in Int : Over(x, n, e)
    BY DEF Denominator
  <2>2. Over(x, d * n, d * e) /\ d * n \in Int
    BY <1>1, <2>1, OverScale
  <2> QED BY <2>2
<1> QED BY <1>1, <1>2, <1>3 DEF Denominator

LEMMA DenominatorOne == ASSUME NEW x \in Fraction PROVE \E d : Denominator(d, {x})
<1>1. Over(x, x[1], x[2]) /\ x[1] \in Int /\ x[2] \in Pos
  BY OverSelf, PairParts
<1> QED BY <1>1 DEF Denominator

LEMMA DenominatorOf ==
  ASSUME NEW x1 \in Fraction, NEW x2 \in Fraction, NEW x3 \in Fraction, NEW x4 \in Fraction,
         NEW x5 \in Fraction, NEW x6 \in Fraction, NEW x7 \in Fraction, NEW x8 \in Fraction
  PROVE  \E d : Denominator(d, {x1, x2, x3, x4, x5, x6, x7, x8})
<1>1. ASSUME NEW S, NEW T, \E d : Denominator(d, S), \E d : Denominator(d, T)
      PROVE  \E d : Denominator(d, S \cup T)
  BY <1>1, DenominatorUnion
<1>2. /\ \E d : Denominator(d, {x1} \cup {x2})
      /\ \E d : Denominator(d, {x3} \cup {x4})
      /\ \E d : Denominator(d, {x5} \cup {x6})
      /\ \E d : Denominator(d, {x7} \cup {x8})
  BY <1>1, DenominatorOne
<1>3. /\ \E d : Denominator(d, ({x1} \cup {x2}) \cup ({x3} \cup {x4}))
      /\ \E d : Denominator(d, ({x5} \cup {x6}) \cup ({x7} \cup {x8}))
  BY <1>1, <1>2
<1>4. PICK d : Denominator(d, (({x1} \cup {x2}) \cup ({x3} \cup {x4}))
                                 \cup (({x5} \cup {x6}) \cup ({x7} \cup {x8})))
  BY <1>1, <1>3
<1>5. (({x1} \cup {x2}) \cup ({x3} \cup {x4})) \cup (({x5} \cup {x6}) \cup ({x7} \cup {x8}))
        = {x1, x2, x3, x4, x5, x6, x7, x8}
  OBVIOUS
<1> QED BY <1>4, <1>5

LEMMA DenominatorOf3 ==
  ASSUME NEW x \in Fraction, NEW y \in Fraction, NEW z \in Fraction
  PROVE  \E d \in Pos : \E i, j, k \in Int : Over(x, i, d) /\ Over(y, j, d) /\ Over(z, k, d)
<1>1. PICK d : Denominator(d, {x, y, z, z, z, z, z, z})
  BY DenominatorOf
<1>2. d \in Pos /\ \A u \in {x, y, z} : \E n \in Int : Over(u, n, d)
  BY <1>1 DEF Denominator
<1>3. PICK i, j, k \in Int : Over(x, i, d) /\ Over(y, j, d) /\ Over(z, k, d)
  BY <1>2
<1> QED BY <1>2, <1>3

-----------------------------------------------------------------------------
\* The operations stay within the reduced fractions.
THEOREM Closed ==
  ASSUME NEW x \in Fraction, NEW y \in Fraction
  PROVE  /\ x \oplus y \in Fraction /\ x \ominus y \in Fraction /\ x \otimes y \in Fraction
         /\ y # Zero => x \oslash y \in Fraction
         /\ Minus(x) \in Fraction /\ Fabs(x) \in Fraction /\ SQR(x) \in Fraction
         /\ Zero \in Fraction /\ One \in Fraction /\ Half \in Fraction
<1>1. PICK d \in Pos, i \in Int, j \in Int, k \in Int : Over(x, i, d) /\ Over(y, j, d) /\ Over(y, k, d)
  BY DenominatorOf3
<1>2. Over(Zero, 0, d) /\ Over(One, d, d) /\ Over(Half, 1, 2)
  BY OverConstants
<1>3. /\ Over(x \oplus y, i + j, d) /\ Over(x \ominus y, i - j, d) /\ Over(x \otimes y, i * j, d * d)
      /\ Over(Zero \ominus x, 0 - i, d) /\ Over(x \otimes x, i * i, d * d)
  BY <1>1, <1>2, OverPlus, OverMinus, OverTimes
<1>4. y # Zero => x \oslash y \in Fraction
  <2>1. y # Zero => j > 0 \/ j < 0
    BY <1>1, <1>2, OverEqual
  <2>2. d \in Int
    BY DEF Pos
  <2>3. ASSUME j > 0 PROVE x \oslash y \in Fraction
    <3>1. Over(x \oslash y, i * d, d * j)
      BY <1>1, <2>2, <2>3, OverDivide
    <3> QED BY <3>1 DEF Over
  <2>4. ASSUME j < 0 PROVE x \oslash y \in Fraction
    <3>1. Over(x \oslash y, i * (-d), d * (-j))
      BY <1>1, <2>2, <2>4, OverDivideNegative
    <3> QED BY <3>1 DEF Over
  <2> QED BY <2>1, <2>3, <2>4
<1> QED BY <1>2, <1>3, <1>4 DEF Over, Minus, Fabs, SQR

\* Reduced fractions under the operations are a field.
THEOREM Field ==
  ASSUME NEW x \in Fraction, NEW y \in Fraction, NEW z \in Fraction
  PROVE  /\ x \oplus y = y \oplus x /\ (x \oplus y) \oplus z = x \oplus (y \oplus z)
         /\ x \oplus Zero = x /\ x \oplus Minus(x) = Zero /\ x \ominus y = x \oplus Minus(y)
         /\ x \otimes y = y \otimes x /\ (x \otimes y) \otimes z = x \otimes (y \otimes z)
         /\ x \otimes One = x /\ (y # Zero => (x \oslash y) \otimes y = x) /\ Zero # One
         /\ x \otimes (y \oplus z) = (x \otimes y) \oplus (x \otimes z)
<1>1. PICK d \in Pos, i \in Int, j \in Int, k \in Int : Over(x, i, d) /\ Over(y, j, d) /\ Over(z, k, d)
  BY DenominatorOf3
<1>2. d \in Int /\ d > 0
  BY DEF Pos
<1>3. /\ Over(Zero, 0, d) /\ Over(One, d, d)
      /\ Over(x \oplus y, i + j, d) /\ Over(y \oplus x, j + i, d) /\ Over(y \oplus z, j + k, d)
      /\ Over(Minus(x), 0 - i, d) /\ Over(Minus(y), 0 - j, d) /\ Over(x \ominus y, i - j, d)
  BY <1>1, OverConstants, OverPlus, OverMinus DEF Minus
<1>4. /\ Over((x \oplus y) \oplus z, (i + j) + k, d) /\ Over(x \oplus (y \oplus z), i + (j + k), d)
      /\ Over(x \oplus Zero, i + 0, d) /\ Over(x \oplus Minus(x), i + (0 - i), d)
      /\ Over(x \oplus Minus(y), i + (0 - j), d)
  BY <1>1, <1>3, OverPlus
<1>5. /\ x \oplus y = y \oplus x /\ (x \oplus y) \oplus z = x \oplus (y \oplus z)
      /\ x \oplus Zero = x /\ x \oplus Minus(x) = Zero /\ x \ominus y = x \oplus Minus(y)
      /\ Zero # One
  <2>1. /\ i + j = j + i /\ (i + j) + k = i + (j + k) /\ i + 0 = i /\ i + (0 - i) = 0
        /\ i - j = i + (0 - j) /\ d # 0
    BY <1>2
  <2> QED BY <1>1, <1>3, <1>4, <2>1, OverEqual
<1>6. /\ Over(x \otimes y, i * j, d * d) /\ Over(y \otimes x, j * i, d * d)
      /\ Over(y \otimes z, j * k, d * d) /\ Over(x \otimes z, i * k, d * d)
      /\ Over(x \otimes One, i * d, d * d) /\ Over(x, i * d, d * d)
  BY <1>1, <1>3, OverTimes, OverScale
<1>7. x \otimes y = y \otimes x /\ x \otimes One = x
  <2>1. i * j = j * i
    OBVIOUS
  <2> QED BY <1>6, <2>1, OverEqual
<1>8. (x \otimes y) \otimes z = x \otimes (y \otimes z)
  <2>1. Over((x \otimes y) \otimes z, (i * j) * k, (d * d) * d)
    BY <1>1, <1>6, OverTimes
  <2>2. Over(x \otimes (y \otimes z), i * (j * k), d * (d * d))
    BY <1>1, <1>6, OverTimes
  <2>3. (i * j) * k = i * (j * k) /\ (d * d) * d = d * (d * d)
    BY <1>2
  <2> QED BY <2>1, <2>2, <2>3, OverEqual
<1>9. x \otimes (y \oplus z) = (x \otimes y) \oplus (x \otimes z)
  <2>1. Over(x \otimes (y \oplus z), i * (j + k), d * d)
    BY <1>1, <1>3, OverTimes
  <2>2. Over((x \otimes y) \oplus (x \otimes z), i * j + i * k, d * d)
    BY <1>6, OverPlus
  <2>3. i * (j + k) = i * j + i * k
    OBVIOUS
  <2> QED BY <2>1, <2>2, <2>3, OverEqual
<1>10. ASSUME y # Zero PROVE (x \oslash y) \otimes y = x
  <2>1. j > 0 \/ j < 0
    BY <1>1, <1>3, <1>10, OverEqual
  <2>2. CASE j > 0
    <3>1. Over(x \oslash y, i * d, d * j)
      BY <1>1, <1>2, <2>2, OverDivide
    <3>2. Over((x \oslash y) \otimes y, (i * d) * j, (d * j) * d)
      BY <1>1, <3>1, OverTimes
    <3>3. Over(x, (d * j) * i, (d * j) * d)
      BY <1>1, <2>2, OverScale, PosTimes DEF Pos
    <3>4. (i * d) * j = (d * j) * i
      BY <1>2
    <3> QED BY <3>2, <3>3, <3>4, OverEqual
  <2>3. CASE j < 0
    <3>1. Over(x \oslash y, i * (-d), d * (-j))
      BY <1>1, <1>2, <2>3, OverDivideNegative
    <3>2. Over((x \oslash y) \otimes y, (i * (-d)) * j, (d * (-j)) * d)
      BY <1>1, <3>1, OverTimes
    <3>3. d * (-j) \in Pos
      BY <1>2, <2>3 DEF Pos
    <3>4. Over(x, (d * (-j)) * i, (d * (-j)) * d)
      BY <1>1, <3>3, OverScale
    <3>5. (i * (-d)) * j = (d * (-j)) * i
      BY <1>2
    <3> QED BY <3>2, <3>4, <3>5, OverEqual
  <2> QED BY <2>1, <2>2, <2>3
<1> QED BY <1>5, <1>7, <1>8, <1>9, <1>10

\* The order of the fractions is total and the operations respect it.
THEOREM Ordered ==
  ASSUME NEW x \in Fraction, NEW y \in Fraction, NEW z \in Fraction
  PROVE  /\ x \preceq y <=> x \prec y \/ x = y
         /\ x \prec y \/ x = y \/ y \prec x
         /\ ~(x \prec x) /\ (x \prec y => ~(y \prec x)) /\ (x \prec y /\ y \prec z => x \prec z)
         /\ x \prec y <=> x \oplus z \prec y \oplus z
         /\ x \prec y <=> Zero \prec y \ominus x
         /\ Zero \prec x /\ Zero \prec y => Zero \prec x \otimes y
<1>1. PICK d \in Pos, i \in Int, j \in Int, k \in Int : Over(x, i, d) /\ Over(y, j, d) /\ Over(z, k, d)
  BY DenominatorOf3
<1>2. /\ Over(Zero, 0, d) /\ Over(x \oplus z, i + k, d) /\ Over(y \oplus z, j + k, d)
      /\ Over(y \ominus x, j - i, d) /\ Over(x \otimes y, i * j, d * d) /\ Over(Zero, 0, d * d)
  BY <1>1, OverConstants, OverPlus, OverMinus, OverTimes, PosTimes
<1>3. /\ (x \prec y <=> i < j) /\ (y \prec x <=> j < i) /\ (x \preceq y <=> i <= j)
      /\ (y \prec z <=> j < k) /\ (x \prec z <=> i < k) /\ (x \prec x <=> i < i) /\ (x = y <=> i = j)
  BY <1>1, OverLess, OverEqual
<1>4. /\ (x \oplus z \prec y \oplus z <=> i + k < j + k) /\ (Zero \prec y \ominus x <=> 0 < j - i)
      /\ (Zero \prec x <=> 0 < i) /\ (Zero \prec y <=> 0 < j)
      /\ (Zero \prec x \otimes y <=> 0 < i * j)
  BY <1>1, <1>2, OverLess
<1>5. 0 < i /\ 0 < j => 0 < i * j
  OBVIOUS
<1> QED BY <1>3, <1>4, <1>5

\* Signs and sums.
LEMMA Sums ==
  ASSUME NEW x \in Fraction, NEW y \in Fraction
  PROVE  /\ (x \oplus y) \ominus y = x /\ (x \ominus y) \oplus y = x /\ x \ominus x = Zero
         /\ Zero \oplus x = x /\ x \ominus Zero = x /\ Zero \ominus x = Minus(x)
         /\ x \otimes Zero = Zero /\ Zero \otimes x = Zero /\ One \otimes x = x
         /\ Minus(Minus(x)) = x /\ Minus(Zero) = Zero
         /\ Minus(x) \otimes y = Minus(x \otimes y) /\ x \otimes Minus(y) = Minus(x \otimes y)
         /\ Minus(x) \ominus Minus(y) = y \ominus x /\ Minus(x \ominus y) = y \ominus x
         /\ x \ominus Minus(y) = x \oplus y /\ x \oplus Minus(y) = x \ominus y
         /\ Minus(x) \ominus y = Minus(x \oplus y) /\ SQR(Minus(x)) = SQR(x)
<1>1. PICK d \in Pos, i \in Int, j \in Int, k \in Int : Over(x, i, d) /\ Over(y, j, d) /\ Over(y, k, d)
  BY DenominatorOf3
<1>2. d \in Int /\ d > 0
  BY DEF Pos
<1>3. /\ Over(Zero, 0, d) /\ Over(One, d, d) /\ Over(Zero, 0, d * d)
      /\ Over(x \oplus y, i + j, d) /\ Over(x \ominus y, i - j, d) /\ Over(y \ominus x, j - i, d)
      /\ Over(x \ominus x, i - i, d) /\ Over(x \otimes y, i * j, d * d)
      /\ Over(Minus(x), 0 - i, d) /\ Over(Minus(y), 0 - j, d) /\ Over(Minus(Zero), 0 - 0, d)
      /\ Over(x \otimes x, i * i, d * d)
  BY <1>1, OverConstants, OverPlus, OverMinus, OverTimes, PosTimes DEF Minus
<1>4. /\ Over((x \oplus y) \ominus y, (i + j) - j, d) /\ Over((x \ominus y) \oplus y, (i - j) + j, d)
      /\ Over(Zero \oplus x, 0 + i, d) /\ Over(x \ominus Zero, i - 0, d)
      /\ Over(Minus(Minus(x)), 0 - (0 - i), d)
      /\ Over(Minus(x) \ominus Minus(y), (0 - i) - (0 - j), d) /\ Over(Minus(x \ominus y), 0 - (i - j), d)
      /\ Over(x \ominus Minus(y), i - (0 - j), d) /\ Over(x \oplus Minus(y), i + (0 - j), d)
      /\ Over(Minus(x) \ominus y, (0 - i) - j, d) /\ Over(Minus(x \oplus y), 0 - (i + j), d)
  BY <1>1, <1>3, OverPlus, OverMinus DEF Minus
<1>5. /\ Over(x \otimes Zero, i * 0, d * d) /\ Over(Zero \otimes x, 0 * i, d * d)
      /\ Over(One \otimes x, d * i, d * d) /\ Over(x, d * i, d * d)
      /\ Over(Minus(x) \otimes y, (0 - i) * j, d * d) /\ Over(x \otimes Minus(y), i * (0 - j), d * d)
      /\ Over(Minus(x) \otimes Minus(x), (0 - i) * (0 - i), d * d)
  BY <1>1, <1>3, OverTimes, OverScale
<1>6. Over(Minus(x \otimes y), 0 - (i * j), d * d)
  BY <1>3, OverMinus DEF Minus
<1>7. /\ (i + j) - j = i /\ (i - j) + j = i /\ i - i = 0 /\ 0 + i = i /\ i - 0 = i /\ 0 - 0 = 0
      /\ 0 - (0 - i) = i /\ (0 - i) - (0 - j) = j - i /\ 0 - (i - j) = j - i
      /\ i - (0 - j) = i + j /\ i + (0 - j) = i - j /\ (0 - i) - j = 0 - (i + j)
  OBVIOUS
<1>8. /\ i * 0 = 0 /\ 0 * i = 0 /\ (0 - i) * j = 0 - (i * j) /\ i * (0 - j) = 0 - (i * j)
      /\ (0 - i) * (0 - i) = i * i
  OBVIOUS
<1>9. \A a, b, n, m, e : Over(a, n, e) /\ Over(b, m, e) /\ n = m => a = b
  BY OverEqual
<1>10. /\ (x \oplus y) \ominus y = x /\ (x \ominus y) \oplus y = x /\ x \ominus x = Zero
       /\ Zero \oplus x = x /\ x \ominus Zero = x
       /\ Minus(Minus(x)) = x /\ Minus(Zero) = Zero
       /\ Minus(x) \ominus Minus(y) = y \ominus x /\ Minus(x \ominus y) = y \ominus x
       /\ x \ominus Minus(y) = x \oplus y /\ x \oplus Minus(y) = x \ominus y
       /\ Minus(x) \ominus y = Minus(x \oplus y)
  BY <1>1, <1>3, <1>4, <1>7, <1>9
<1>11. /\ x \otimes Zero = Zero /\ Zero \otimes x = Zero /\ One \otimes x = x
       /\ Minus(x) \otimes y = Minus(x \otimes y) /\ x \otimes Minus(y) = Minus(x \otimes y)
       /\ SQR(Minus(x)) = SQR(x)
  BY <1>3, <1>5, <1>6, <1>8, <1>9 DEF SQR
<1> QED BY <1>10, <1>11 DEF Minus

LEMMA CancelTimes ==
  ASSUME NEW x \in Fraction, NEW y \in Fraction, NEW z \in Fraction, z # Zero,
         x \otimes z = y \otimes z
  PROVE  x = y
<1>1. PICK d \in Pos, i \in Int, j \in Int, k \in Int : Over(x, i, d) /\ Over(y, j, d) /\ Over(z, k, d)
  BY DenominatorOf3
<1>2. Over(Zero, 0, d) /\ Over(x \otimes z, i * k, d * d) /\ Over(y \otimes z, j * k, d * d)
  BY <1>1, OverConstants, OverTimes
<1>3. k # 0 /\ i * k = j * k
  BY <1>1, <1>2, OverEqual
<1>4. i = j
  BY <1>3, Cancel
<1> QED BY <1>1, <1>4, OverEqual

LEMMA Quotients ==
  ASSUME NEW x \in Fraction, NEW y \in Fraction, y # Zero
  PROVE  /\ x \oslash y \in Fraction
         /\ y \otimes (x \oslash y) = x /\ (x \oslash y) \otimes y = x
         /\ (x \otimes y) \oslash y = x /\ (y \otimes x) \oslash y = x
         /\ y \oslash y = One /\ Zero \oslash y = Zero /\ x \oslash One = x
         /\ Minus(x) \oslash y = Minus(x \oslash y)
<1>1. /\ x \oslash y \in Fraction /\ x \otimes y \in Fraction /\ y \otimes x \in Fraction
      /\ Minus(x) \in Fraction /\ Zero \in Fraction /\ One \in Fraction /\ Zero # One
  BY Closed, Field
<1>2. (x \oslash y) \otimes y = x /\ y \otimes (x \oslash y) = x
  BY <1>1, Field
<1>3. /\ (x \otimes y) \oslash y \in Fraction /\ (y \otimes x) \oslash y \in Fraction
      /\ y \oslash y \in Fraction /\ Zero \oslash y \in Fraction /\ x \oslash One \in Fraction
      /\ Minus(x) \oslash y \in Fraction /\ Minus(x \oslash y) \in Fraction
  BY <1>1, Closed
<1>4. /\ ((x \otimes y) \oslash y) \otimes y = x \otimes y
      /\ ((y \otimes x) \oslash y) \otimes y = y \otimes x
      /\ (y \oslash y) \otimes y = y /\ (Zero \oslash y) \otimes y = Zero
      /\ (x \oslash One) \otimes One = x
      /\ (Minus(x) \oslash y) \otimes y = Minus(x)
  BY <1>1, Field
<1>5. /\ x \otimes y = y \otimes x /\ One \otimes y = y /\ Zero \otimes y = Zero /\ x \otimes One = x
      /\ Minus(x \oslash y) \otimes y = Minus((x \oslash y) \otimes y)
  BY <1>1, Field, Sums
<1> QED BY <1>1, <1>2, <1>3, <1>4, <1>5, CancelTimes

\* The order, its sums and its products.
LEMMA Comparisons ==
  ASSUME NEW x \in Fraction, NEW y \in Fraction, NEW z \in Fraction
  PROVE  /\ x \preceq x /\ (x \preceq y \/ y \preceq x) /\ (x \preceq y /\ y \preceq x => x = y)
         /\ (x \preceq y /\ y \preceq z => x \preceq z) /\ (x \prec y => x \preceq y /\ x # y)
         /\ (x \prec y /\ y \preceq z => x \prec z) /\ (x \preceq y /\ y \prec z => x \prec z)
         /\ x \preceq y <=> ~(y \prec x)
         /\ x \preceq y <=> x \oplus z \preceq y \oplus z
         /\ x \preceq y <=> x \ominus z \preceq y \ominus z
         /\ x \preceq y <=> z \ominus y \preceq z \ominus x
         /\ x \preceq y <=> Minus(y) \preceq Minus(x)
         /\ x \preceq y <=> Zero \preceq y \ominus x
         /\ Zero \prec One /\ Zero \prec Half /\ Half \prec One
<1>1. PICK d \in Pos, i \in Int, j \in Int, k \in Int : Over(x, i, d) /\ Over(y, j, d) /\ Over(z, k, d)
  BY DenominatorOf3
<1>2. /\ Over(Zero, 0, d) /\ Over(x \oplus z, i + k, d) /\ Over(y \oplus z, j + k, d)
      /\ Over(x \ominus z, i - k, d) /\ Over(y \ominus z, j - k, d)
      /\ Over(z \ominus x, k - i, d) /\ Over(z \ominus y, k - j, d)
      /\ Over(Minus(x), 0 - i, d) /\ Over(Minus(y), 0 - j, d) /\ Over(y \ominus x, j - i, d)
  BY <1>1, OverConstants, OverPlus, OverMinus DEF Minus
<1>3. \A a, b, n, m : Over(a, n, d) /\ Over(b, m, d) =>
        (a \prec b <=> n < m) /\ (a \preceq b <=> n <= m) /\ (a = b <=> n = m)
  BY OverLess, OverEqual
<1>4. /\ (x \prec y <=> i < j) /\ (y \prec x <=> j < i) /\ (x = y <=> i = j) /\ (x \preceq y <=> i <= j)
      /\ (y \preceq x <=> j <= i) /\ (y \prec z <=> j < k) /\ (y \preceq z <=> j <= k)
      /\ (x \prec z <=> i < k) /\ (x \preceq z <=> i <= k) /\ (x \preceq x <=> i <= i)
  BY <1>1, <1>3
<1>6. /\ (x \oplus z \preceq y \oplus z <=> i + k <= j + k)
      /\ (x \ominus z \preceq y \ominus z <=> i - k <= j - k)
      /\ (z \ominus y \preceq z \ominus x <=> k - j <= k - i)
  BY <1>2, OverLess
<1>8. /\ (Minus(y) \preceq Minus(x) <=> 0 - j <= 0 - i)
      /\ (Zero \preceq y \ominus x <=> 0 <= j - i)
  BY <1>2, OverLess
<1>5. Zero \prec One /\ Zero \prec Half /\ Half \prec One
  <2>1. 2 \in Pos /\ Over(Zero, 0, 2) /\ Over(One, 2, 2) /\ Over(Half, 1, 2)
    BY OverConstants DEF Pos
  <2> QED BY <2>1, OverLess
<1>7. x \preceq y <=> ~(y \prec x)
  BY DEF \preceq
<1> QED BY <1>4, <1>5, <1>6, <1>7, <1>8

LEMMA Products ==
  ASSUME NEW x \in Fraction, NEW y \in Fraction, NEW z \in Fraction, Zero \preceq z, x \preceq y
  PROVE  z \otimes x \preceq z \otimes y /\ x \otimes z \preceq y \otimes z
<1>1. PICK d \in Pos, i \in Int, j \in Int, k \in Int : Over(x, i, d) /\ Over(y, j, d) /\ Over(z, k, d)
  BY DenominatorOf3
<1>2. /\ Over(Zero, 0, d) /\ Over(z \otimes x, k * i, d * d) /\ Over(z \otimes y, k * j, d * d)
      /\ Over(x \otimes z, i * k, d * d) /\ Over(y \otimes z, j * k, d * d)
  BY <1>1, OverConstants, OverTimes
<1>3. 0 <= k /\ i <= j
  BY <1>1, <1>2, OverLess
<1>4. k * i <= k * j /\ i * k <= j * k
  BY <1>3
<1> QED BY <1>2, <1>4, OverLess

\* Dividing by what is positive.
LEMMA Shares ==
  ASSUME NEW x \in Fraction, NEW y \in Fraction, NEW z \in Fraction, Zero \prec z
  PROVE  /\ x \oslash z \in Fraction /\ z # Zero
         /\ x \preceq y <=> x \oslash z \preceq y \oslash z
         /\ x \preceq y \otimes z <=> x \oslash z \preceq y
         /\ y \otimes z \preceq x <=> y \preceq x \oslash z
<1>1. PICK d \in Pos, i \in Int, j \in Int, k \in Int : Over(x, i, d) /\ Over(y, j, d) /\ Over(z, k, d)
  BY DenominatorOf3
<1>2. d \in Int /\ d > 0 /\ d * d \in Pos
  BY PosTimes DEF Pos
<1>3. Over(Zero, 0, d)
  BY OverConstants
<1>4. k > 0
  BY <1>1, <1>3, OverLess
<1>5. z # Zero
  BY <1>1, <1>3, <1>4, OverEqual
<1>6. /\ Over(x \oslash z, i * d, d * k) /\ Over(y \oslash z, j * d, d * k)
      /\ Over(y \otimes z, j * k, d * d) /\ Over(x, i * d, d * d) /\ Over(y, j * k, d * k)
  <2>1. Over(x \oslash z, i * d, d * k) /\ Over(y \oslash z, j * d, d * k)
    BY <1>1, <1>2, <1>4, OverDivide
  <2>2. Over(x, i * d, d * d) /\ Over(y, j * k, d * k)
    BY <1>1, <1>4, OverScale DEF Pos
  <2> QED BY <1>1, <2>1, <2>2, OverTimes
<1>7. /\ x \preceq y <=> i <= j
      /\ x \oslash z \preceq y \oslash z <=> i * d <= j * d
      /\ x \preceq y \otimes z <=> i * d <= j * k
      /\ x \oslash z \preceq y <=> i * d <= j * k
      /\ y \otimes z \preceq x <=> j * k <= i * d
      /\ y \preceq x \oslash z <=> j * k <= i * d
  BY <1>1, <1>6, OverLess
<1>8. i <= j <=> i * d <= j * d
  BY <1>2
<1> QED BY <1>5, <1>6, <1>7, <1>8 DEF Over

LEMMA Absolute ==
  ASSUME NEW x \in Fraction, NEW y \in Fraction
  PROVE  /\ Fabs(x) \in Fraction /\ Zero \preceq Fabs(x) /\ Fabs(Minus(x)) = Fabs(x)
         /\ Fabs(x) \preceq y <=> x \preceq y /\ Minus(y) \preceq x
         /\ Zero \preceq x => Fabs(x) = x
         /\ x \prec Zero => Fabs(x) = Minus(x)
         /\ Fabs(x) \in {x, Minus(x)}
<1>1. PICK d \in Pos, i \in Int, j \in Int, k \in Int : Over(x, i, d) /\ Over(y, j, d) /\ Over(y, k, d)
  BY DenominatorOf3
<1>2. Over(Zero, 0, d) /\ Over(Minus(x), 0 - i, d) /\ Over(Minus(y), 0 - j, d)
  BY <1>1, OverConstants, OverMinus DEF Minus
<1>3. \A a, b, n, m : Over(a, n, d) /\ Over(b, m, d) =>
        (a \prec b <=> n < m) /\ (a \preceq b <=> n <= m) /\ (a = b <=> n = m)
  BY OverLess, OverEqual
<1>4. Minus(Minus(x)) = x
  BY Sums
<1>5. CASE x \prec Zero
  <2>1. i < 0
    BY <1>1, <1>2, <1>3, <1>5
  <2>2. Fabs(x) = Minus(x)
    BY <1>5 DEF Fabs
  <2>3. ~(Minus(x) \prec Zero)
    BY <1>2, <1>3, <2>1
  <2>4. Fabs(Minus(x)) = Minus(x)
    BY <2>3 DEF Fabs
  <2>5. Zero \preceq Fabs(x)
    BY <1>2, <1>3, <2>1, <2>2
  <2>6. Fabs(x) \preceq y <=> 0 - i <= j
    BY <1>1, <1>2, <1>3, <2>2
  <2>7. x \preceq y <=> i <= j
    BY <1>1, <1>3
  <2>8. Minus(y) \preceq x <=> 0 - j <= i
    BY <1>1, <1>2, <1>3
  <2>9. ~(Zero \preceq x)
    BY <1>5 DEF \preceq
  <2> QED BY <1>5, <2>1, <2>2, <2>4, <2>5, <2>6, <2>7, <2>8, <2>9, Closed
<1>6. CASE ~(x \prec Zero)
  <2>1. i >= 0
    BY <1>1, <1>2, <1>3, <1>6
  <2>2. Fabs(x) = x
    BY <1>6 DEF Fabs
  <2>3. Fabs(Minus(x)) = x
    <3>1. CASE Minus(x) \prec Zero
      BY <1>4, <3>1 DEF Fabs
    <3>2. CASE ~(Minus(x) \prec Zero)
      <4>1. i = 0
        BY <1>2, <1>3, <2>1, <3>2
      <4>2. Minus(x) = x
        BY <1>1, <1>2, <1>3, <4>1
      <4> QED BY <3>2, <4>2 DEF Fabs
    <3> QED BY <3>1, <3>2
  <2>5. Zero \preceq Fabs(x)
    BY <1>1, <1>2, <1>3, <2>1, <2>2
  <2>6. x \preceq y <=> i <= j
    BY <1>1, <1>3
  <2>7. Minus(y) \preceq x <=> 0 - j <= i
    BY <1>1, <1>2, <1>3
  <2> QED BY <1>6, <2>1, <2>2, <2>3, <2>5, <2>6, <2>7
<1> QED BY <1>5, <1>6
=============================================================================
