-------------------------- MODULE Problems_proofs --------------------------
(***************************************************************************)
(* The initial data of the problems is what the problems are about, for    *)
(* every deck of a positive gas, every domain and every table of functions *)
(* that meets the assumptions of Profiles and LinearWave.                  *)
(***************************************************************************)
EXTENDS TLAPS, Problems, Rationals_proofs, FiniteSetTheorems

\* Written data is that of one cell, by the formulas of the deck's problem.
ProfileInv ==
  /\ deck \in KHDecks \cup BlastDecks \cup WaveDecks
  /\ WrittenKH => \E x \in Xs, y \in Ys, r \in [1 .. 4 -> Draws] : cell = <<x, y>> /\ u = KH(x, y, r)
  /\ Written /\ deck \in BlastDecks => cell \in Offsets /\ u = BlastCell(cell)

LEMMA ProfileInit == Init => ProfileInv
BY DEF Init, InitProfile, InitWave, ProfileInv, WrittenKH, Written

LEMMA ProfileStep == ProfileInv /\ [Next]_vars => ProfileInv'
<1> SUFFICES ASSUME ProfileInv, [Next]_vars PROVE ProfileInv'
  OBVIOUS
<1> USE DEF ProfileInv, WrittenKH, Written
<1>1. deck' = deck
  BY DEF Next, vars, Generate, GenerateKH, GenerateBlast, NextWave, InitUserMeshData,
         ProblemGenerator, Execute, SumErrors, Reduce, WriteRow
<1>2. (\A x, y, r : KH(x, y, r)' = KH(x, y, r)) /\ (\A o : BlastCell(o)' = BlastCell(o))
  BY <1>1 DEF KH, SlipSurface, ShearLayer, BeckwithStone, Lecoanet, ResolvedStreams, Cell, gm1,
              BlastCell, rin, rout
<1>3. CASE GenerateKH
  BY <1>1, <1>2, <1>3, DecksAssumption DEF GenerateKH
<1>4. CASE GenerateBlast
  BY <1>1, <1>2, <1>4, DecksAssumption DEF GenerateBlast
<1>5. CASE deck \in WaveDecks
  BY <1>1, <1>5, DecksAssumption
<1>6. CASE UNCHANGED vars
  BY <1>1, <1>2, <1>6 DEF vars
<1> QED BY <1>3, <1>4, <1>5, <1>6 DEF Next, Generate

THEOREM ProfileInductive == Spec => []ProfileInv
BY ProfileInit, ProfileStep, PTL DEF Spec

-----------------------------------------------------------------------------
\* The forms of the order that the profiles ask for.
LEMMA Commuted ==
  ASSUME NEW x \in Fraction, NEW y \in Fraction
  PROVE  x \oplus y = y \oplus x /\ x \otimes y = y \otimes x
         /\ x \ominus y = x \oplus Minus(y) /\ x \ominus y = Minus(y) \oplus x
<1>1. Minus(y) \in Fraction /\ x \in Fraction
  BY Closed
<1>2. x \ominus y = x \oplus Minus(y)
  BY Field, <1>1
<1>3. x \oplus Minus(y) = Minus(y) \oplus x
  BY Field, <1>1
<1> QED BY <1>2, <1>3, Field

LEMMA Transitive ==
  ASSUME NEW x \in Fraction, NEW y \in Fraction, NEW z \in Fraction, x \preceq y, y \preceq z
  PROVE  x \preceq z
BY Comparisons

LEMMA Shifted ==
  ASSUME NEW x \in Fraction, NEW y \in Fraction, NEW z \in Fraction, x \preceq y
  PROVE  /\ x \oplus z \preceq y \oplus z /\ z \oplus x \preceq z \oplus y
         /\ x \ominus z \preceq y \ominus z /\ z \ominus y \preceq z \ominus x
         /\ Minus(y) \preceq Minus(x)
<1>1. z \oplus x = x \oplus z /\ z \oplus y = y \oplus z
  BY Commuted
<1> QED BY <1>1, Comparisons

\* A random part of at most half the amplitude.
LEMMA Noise ==
  ASSUME NEW v \in Fraction, NEW a \in Fraction, NEW r \in Fraction,
         Zero \preceq v, Zero \preceq a, Fabs(r) \preceq Half
  PROVE  LET v1 == v \oplus (a \otimes r)
             noise == Half \otimes a
         IN /\ v1 \in Fraction /\ a \otimes r \in Fraction /\ noise \in Fraction
            /\ v1 \preceq v \oplus noise /\ v \ominus noise \preceq v1
            /\ Minus(v \oplus noise) \preceq v1
<1> DEFINE q == a \otimes r
           noise == Half \otimes a
<1>1. Zero \in Fraction /\ Half \in Fraction
  BY Closed
<1>2. q \in Fraction /\ noise \in Fraction /\ Minus(Half) \in Fraction
  BY <1>1, Closed
<1>3. r \preceq Half /\ Minus(Half) \preceq r
  BY <1>1, Absolute
<1>4. q \preceq noise
  <2>1. r \otimes a \preceq Half \otimes a
    BY <1>1, <1>3, Products
  <2> QED BY <2>1, Commuted
<1>5. Minus(noise) \preceq q
  <2>1. Minus(Half) \otimes a \preceq r \otimes a
    BY <1>2, <1>3, Products
  <2>2. Minus(Half) \otimes a = Minus(noise)
    BY <1>1, Sums
  <2> QED BY <2>1, <2>2, Commuted
<1> HIDE DEF q, noise
<1>6. Minus(noise) \in Fraction /\ v \oplus q \in Fraction /\ v \oplus noise \in Fraction
      /\ v \ominus noise \in Fraction /\ Minus(v) \in Fraction /\ Minus(v \oplus noise) \in Fraction
  BY <1>2, Closed
<1>7. v \oplus q \preceq v \oplus noise
  BY <1>2, <1>4, Shifted
<1>8. v \ominus noise \preceq v \oplus q
  <2>1. v \oplus Minus(noise) \preceq v \oplus q
    BY <1>2, <1>5, <1>6, Shifted
  <2> QED BY <2>1, <1>2, Commuted
<1>9. Minus(v) \preceq v
  <2>1. Minus(v) \preceq Minus(Zero)
    BY <1>1, Shifted
  <2>2. Minus(Zero) = Zero
    BY <1>1, Sums
  <2> QED BY <2>1, <2>2, <1>1, <1>6, Transitive
<1>10. Minus(v \oplus noise) \preceq v \ominus noise
  <2>1. Minus(v \oplus noise) = Minus(v) \ominus noise
    BY <1>2, Sums
  <2>2. Minus(v) \ominus noise \preceq v \ominus noise
    BY <1>2, <1>6, <1>9, Shifted
  <2> QED BY <2>1, <2>2
<1>11. Minus(v \oplus noise) \preceq v \oplus q
  BY <1>6, <1>8, <1>10, Transitive
<1> QED BY <1>2, <1>6, <1>7, <1>8, <1>11 DEF q, noise

\* A weighted mean of a and b lies between them and follows its weight.
LEMMA Mean ==
  ASSUME NEW f \in Fraction, NEW a \in Fraction, NEW b \in Fraction,
         Zero \preceq f, f \preceq One, b \preceq a
  PROVE  LET mix == ((One \ominus f) \otimes a) \oplus (f \otimes b)
         IN /\ mix \in Fraction /\ b \preceq mix /\ mix \preceq a
            /\ \A g \in Fraction :
                 g \preceq f => mix \preceq ((One \ominus g) \otimes a) \oplus (g \otimes b)
<1> DEFINE Mix(g) == ((One \ominus g) \otimes a) \oplus (g \otimes b)
           w == a \ominus b
<1>1. Zero \in Fraction /\ One \in Fraction /\ w \in Fraction /\ Zero \preceq w
  BY Closed, Comparisons
<1>2. \A g \in Fraction : g \otimes w \in Fraction /\ Mix(g) = a \ominus (g \otimes w)
  <2> TAKE g \in Fraction
  <2>1. PICK d \in Pos : \E i, j, k \in Int : Over(g, i, d) /\ Over(a, j, d) /\ Over(b, k, d)
    BY DenominatorOf3
  <2>2. PICK i \in Int, j \in Int, k \in Int : Over(g, i, d) /\ Over(a, j, d) /\ Over(b, k, d)
    BY <2>1
  <2>3. Over(One, d, d)
    BY OverConstants
  <2>4. Over(One \ominus g, d - i, d) /\ Over(w, j - k, d)
    BY <2>2, <2>3, OverMinus
  <2>5. /\ Over((One \ominus g) \otimes a, (d - i) * j, d * d)
        /\ Over(g \otimes b, i * k, d * d) /\ Over(g \otimes w, i * (j - k), d * d)
    BY <2>2, <2>4, OverTimes
  <2>6. Over(Mix(g), (d - i) * j + i * k, d * d)
    BY <2>5, OverPlus
  <2>7. Over(a, d * j, d * d)
    BY <2>2, OverScale
  <2>8. Over(a \ominus (g \otimes w), d * j - i * (j - k), d * d)
    BY <2>5, <2>7, OverMinus
  <2>9. (d - i) * j + i * k = d * j - i * (j - k)
    <3> d \in Int
      BY DEF Pos
    <3> QED OBVIOUS
  <2>10. Mix(g) = a \ominus (g \otimes w)
    BY <2>6, <2>8, <2>9, OverEqual
  <2> QED BY <2>10, <1>1, Closed
<1> HIDE DEF Mix, w
<1>3. a \ominus w = b /\ One \otimes w = w /\ Zero \otimes w = Zero /\ a \ominus Zero = a
  <2>1. a \ominus w = b
    <3>1. b \oplus w = a /\ w \oplus b = a
      BY <1>1, Sums, Commuted DEF w
    <3>2. (b \oplus w) \ominus w = b
      BY <1>1, Sums
    <3> QED BY <3>1, <3>2
  <2> QED BY <2>1, <1>1, Sums
<1>4. f \otimes w \preceq w /\ Zero \preceq f \otimes w
  <2>1. f \otimes w \preceq One \otimes w /\ Zero \otimes w \preceq f \otimes w
    BY <1>1, Products
  <2> QED BY <2>1, <1>3
<1>5. b \preceq Mix(f) /\ Mix(f) \preceq a
  <2>1. a \ominus w \preceq a \ominus (f \otimes w) /\ a \ominus (f \otimes w) \preceq a \ominus Zero
    BY <1>1, <1>2, <1>4, Shifted
  <2> QED BY <2>1, <1>2, <1>3
<1>6. ASSUME NEW g \in Fraction, g \preceq f PROVE Mix(f) \preceq Mix(g)
  <2>1. g \otimes w \preceq f \otimes w
    BY <1>1, <1>6, Products
  <2>2. a \ominus (f \otimes w) \preceq a \ominus (g \otimes w)
    BY <1>2, <2>1, Shifted
  <2> QED BY <2>2, <1>2
<1>7. Mix(f) \in Fraction
  BY <1>2, Closed
<1> QED BY <1>5, <1>6, <1>7 DEF Mix

\* What two streams that mix by weight carry, and how fast.
LEMMA Streams ==
  ASSUME NEW w \in Fraction, NEW v \in Fraction, NEW k \in Fraction,
         Zero \preceq w, w \preceq One, Zero \prec k, Zero \preceq v
  PROVE  LET d == w \oplus ((One \ominus w) \otimes k)
             m == (w \otimes v) \ominus ((One \ominus w) \otimes v \otimes k)
         IN /\ d \in Fraction /\ m \in Fraction /\ Zero \prec d /\ Fabs(m \oslash d) \preceq v
            /\ w = Zero => d = k /\ m \oslash d = Minus(v)
            /\ w = One => d = One /\ m \oslash d = v
<1> DEFINE n == One \ominus w
           x == n \otimes k
           d == w \oplus x
           p == w \otimes v
           q == n \otimes v \otimes k
           m == p \ominus q
<1>1. Zero \in Fraction /\ One \in Fraction
  BY Closed
<1>2. n \in Fraction /\ Zero \preceq n
  BY <1>1, Closed, Comparisons
<1>3. n \otimes v \in Fraction /\ x \in Fraction /\ p \in Fraction
  BY <1>2, Closed
<1>4. d \in Fraction /\ q \in Fraction
  BY <1>3, Closed
<1>5. m \in Fraction
  BY <1>3, <1>4, Closed
<1>6. Zero \preceq k /\ k # Zero
  BY <1>1, Comparisons
<1>7. Zero \preceq x /\ Zero \preceq p /\ Zero \preceq n \otimes v
  <2>1. Zero \otimes k \preceq n \otimes k
    BY <1>1, <1>2, <1>6, Products
  <2>2. Zero \otimes v \preceq w \otimes v /\ Zero \otimes v \preceq n \otimes v
    BY <1>1, <1>2, Products
  <2> QED BY <2>1, <2>2, Sums
<1>8. Zero \preceq q
  <2>1. Zero \otimes k \preceq (n \otimes v) \otimes k
    BY <1>1, <1>3, <1>6, <1>7, Products
  <2> QED BY <2>1, Sums
<1>9. v \otimes d = p \oplus q
  <2>1. v \otimes d = (v \otimes w) \oplus (v \otimes x)
    BY <1>3, Field
  <2>2. v \otimes x = (v \otimes n) \otimes k
    BY <1>2, Field
  <2>3. v \otimes n = n \otimes v /\ v \otimes w = p
    BY <1>2, Commuted
  <2> QED BY <2>1, <2>2, <2>3
<1>10. w = Zero => n = One /\ x = k /\ d = k /\ p = Zero /\ q = v \otimes k /\ m = Minus(v \otimes k)
  <2> HAVE w = Zero
  <2>1. n = One
    BY <1>1, Sums
  <2>2. x = k /\ n \otimes v = v
    BY <2>1, <1>1, Sums
  <2>3. d = k /\ p = Zero
    BY <2>2, Sums
  <2>4. q = v \otimes k /\ v \otimes k \in Fraction
    BY <2>2, Closed
  <2>5. m = Minus(v \otimes k)
    BY <2>3, <2>4, Sums
  <2> QED BY <2>1, <2>2, <2>3, <2>4, <2>5
<1>11. w = One => n = Zero /\ d = One /\ m = v
  <2> HAVE w = One
  <2>1. n = Zero
    BY <1>1, Sums
  <2>2. x = Zero /\ n \otimes v = Zero
    BY <2>1, Sums
  <2>3. q = Zero /\ p = v
    BY <2>2, Sums
  <2>4. d = One
    BY <2>2, <1>1, Field
  <2> QED BY <2>1, <2>3, <2>4, Sums
<1>12. Zero \prec d
  <2>1. CASE w = Zero
    BY <2>1, <1>10
  <2>2. CASE Zero \prec w
    <3>1. w \oplus Zero \preceq d
      BY <1>1, <1>3, <1>7, Shifted
    <3>2. w \oplus Zero = w
      BY Field, <1>1
    <3> QED BY <3>1, <3>2, <2>2, <1>1, <1>4, Comparisons
  <2> QED BY <2>1, <2>2, <1>1, Ordered
<1> HIDE DEF n, x, d, p, q, m
<1>13. m \preceq p \oplus q /\ Minus(p \oplus q) \preceq m
  <2>1. p \oplus q \in Fraction /\ Minus(p) \in Fraction /\ Minus(q) \in Fraction /\ Minus(Zero) = Zero
    BY <1>1, <1>3, <1>4, Closed, Sums
  <2>2. Minus(q) \preceq Zero /\ Minus(p) \preceq Zero
    BY <1>1, <1>3, <1>4, <1>7, <1>8, <2>1, Shifted
  <2>3. Minus(q) \preceq q /\ Minus(p) \preceq p
    BY <1>1, <1>3, <1>4, <1>7, <1>8, <2>1, <2>2, Transitive
  <2>4. p \oplus Minus(q) \preceq p \oplus q
    BY <1>3, <1>4, <2>1, <2>3, Shifted
  <2>5. Minus(p) \ominus q \preceq p \ominus q
    BY <1>3, <1>4, <2>1, <2>3, Shifted
  <2>6. p \oplus Minus(q) = p \ominus q /\ Minus(p) \ominus q = Minus(p \oplus q)
    BY <1>3, <1>4, Sums
  <2> QED BY <2>4, <2>5, <2>6 DEF m
<1>14. m \preceq v \otimes d /\ Minus(v) \otimes d \preceq m
  <2>1. Minus(v) \otimes d = Minus(v \otimes d)
    BY <1>4, Sums
  <2> QED BY <2>1, <1>9, <1>13
<1>15. m \oslash d \preceq v /\ Minus(v) \preceq m \oslash d /\ m \oslash d \in Fraction
  <2>1. Minus(v) \in Fraction
    BY Closed
  <2> QED BY <2>1, <1>4, <1>5, <1>12, <1>14, Shares
<1>16. Fabs(m \oslash d) \preceq v
  BY <1>15, Absolute
<1>17. w = Zero => m \oslash d = Minus(v)
  <2> HAVE w = Zero
  <2>1. m = Minus(v) \otimes k /\ Minus(v) \in Fraction
    BY <1>10, Sums, Closed
  <2> QED BY <2>1, <1>6, <1>10, Quotients
<1>18. w = One => m \oslash d = v
  <2> HAVE w = One
  <2>1. One # Zero
    BY <1>1, Field
  <2>2. v \oslash One = v
    BY <2>1, <1>1, Quotients
  <2> QED BY <2>2, <1>11
<1> QED BY <1>4, <1>5, <1>10, <1>11, <1>12, <1>16, <1>17, <1>18 DEF n, x, d, p, q, m

-----------------------------------------------------------------------------
LEMMA Positive ==
  ASSUME NEW n \in Pos, NEW d \in Pos
  PROVE  R(n, d) \in Fraction /\ Zero \prec R(n, d) /\ R(n, d) # Zero
<1>1. Over(R(n, d), n, d) /\ Over(Zero, 0, d) /\ n > 0 /\ n # 0
  BY OverR, OverConstants DEF Pos
<1>2. Zero \prec R(n, d)
  BY <1>1, OverLess
<1>3. R(n, d) # Zero
  BY <1>1, OverEqual
<1> QED BY <1>1, <1>2, <1>3, OverParts

LEMMA DeckFacts ==
  ASSUME deck \in KHDecks
  PROVE  /\ deck.iprob \in 1 .. 5 /\ deck.gamma \in Fraction /\ deck.vflow \in Fraction
         /\ deck.amp \in Fraction /\ deck.problem_amp \in Fraction
         /\ deck.drat \in Fraction /\ deck.drho_rho0 \in Fraction
         /\ deck.vboost \in Fraction /\ deck.a \in Fraction /\ deck.sigma \in Fraction
         /\ Zero \prec deck.drat /\ deck.drat # Zero /\ Zero \prec deck.a /\ deck.a # Zero
         /\ deck.sigma # Zero /\ Zero \preceq deck.drho_rho0 /\ Zero \preceq deck.vflow
         /\ Zero \preceq deck.amp /\ gm1 \in Fraction /\ gm1 # Zero
<1>1. One \in Fraction /\ Zero \in Fraction
  BY Closed, Positive DEF One, Zero, Pos
<1>2. /\ deck.iprob \in 1 .. 5 /\ deck.gamma \in Fraction /\ deck.vflow \in Fraction
      /\ deck.amp \in Fraction /\ deck.problem_amp \in Fraction
      /\ deck.drat \in Fraction /\ deck.drho_rho0 \in Fraction
      /\ deck.vboost \in Fraction /\ deck.a \in Fraction /\ deck.sigma \in Fraction
      /\ One \prec deck.gamma /\ Zero \prec deck.drat /\ Zero \prec deck.a
      /\ deck.sigma # Zero /\ Zero \preceq deck.drho_rho0 /\ Zero \preceq deck.vflow
      /\ Zero \preceq deck.amp
  BY ProfilesAssumption
<1>3. gm1 \in Fraction
  BY <1>1, <1>2, Closed DEF gm1
<1>4. Zero \prec gm1
  BY <1>1, <1>2, Ordered DEF gm1
<1> QED BY <1>1, <1>2, <1>3, <1>4, Comparisons

\* A cell has the pressure it is made with.
LEMMA CellFacts ==
  ASSUME gm1 \in Fraction, gm1 # Zero,
         NEW d \in Fraction, NEW m1 \in Fraction, NEW m2 \in Fraction, NEW p \in Fraction, d # Zero
  PROVE  /\ Pressure(Cell(d, m1, m2, p)) = p
         /\ Cell(d, m1, m2, p).d = d /\ Cell(d, m1, m2, p).m1 = m1
<1> DEFINE K == Kinetic(d, m1, m2)
           h == Half \otimes K
           e == p \oslash gm1
<1>1. SQR(m1) \in Fraction /\ SQR(m2) \in Fraction
  BY Closed
<1>2. SQR(m1) \oplus SQR(m2) \in Fraction
  BY <1>1, Closed
<1>3. K \in Fraction
  BY <1>2, Closed DEF Kinetic
<1>4. h \in Fraction /\ e \in Fraction
  BY <1>3, Closed
<1>5. Pressure(Cell(d, m1, m2, p)) = gm1 \otimes ((e \oplus h) \ominus h)
  BY DEF Pressure, Cell
<1> HIDE DEF h, e
<1>6. (e \oplus h) \ominus h = e
  BY <1>4, Sums
<1>7. gm1 \otimes e = p
  BY Quotients DEF e
<1> QED BY <1>5, <1>6, <1>7 DEF Cell

LEMMA CellShape ==
  ASSUME NEW d, NEW m1, NEW m2, NEW p
  PROVE  Cell(d, m1, m2, p).d = d /\ Cell(d, m1, m2, p).m1 = m1 /\ Cell(d, m1, m2, p).m2 = m2
BY DEF Cell

\* The numbers of the profiles.
LEMMA Numbers ==
  /\ {R(1, 50), R(1, 100), R(1, 20), R(5, 2), R(10, 1), R(101, 200), R(99, 200),
      Quarter, Half, One, Zero, z1, z2} \subseteq Fraction
  /\ Zero \prec R(1, 50) /\ Zero \prec R(1, 100) /\ Zero \prec R(1, 20)
  /\ R(99, 200) \prec R(101, 200) /\ Zero \prec R(99, 200)
  /\ Zero \prec One /\ One # Zero /\ Zero \prec Half /\ Zero \preceq Half /\ Half \oplus Half = One
<1>1. {1, 50, 100, 20, 5, 2, 10, 101, 200, 99, 4} \subseteq Pos
  BY DEF Pos
<1>2. Over(R(99, 200), 99, 200) /\ Over(R(101, 200), 101, 200)
  BY <1>1, OverR
<1>3. R(99, 200) \prec R(101, 200)
  BY <1>2, OverLess
<1>4. Over(Half, 1, 2) /\ Over(One, 2, 2)
  BY <1>1, OverConstants
<1>5. Half \oplus Half = One
  <2>1. Over(Half \oplus Half, 1 + 1, 2)
    BY <1>4, OverPlus
  <2> QED BY <1>4, <2>1, OverEqual
<1>6. Zero \in Fraction /\ One \in Fraction /\ Half \in Fraction
  BY <1>1, Positive, Closed
<1>7. z1 \in Fraction
  BY <1>6, Closed DEF z1
<1> QED BY <1>1, <1>3, <1>5, <1>6, <1>7, Positive, Comparisons DEF Quarter, One, Half, z2

LEMMA TanhFacts ==
  ASSUME NEW s \in TanhArguments
  PROVE  /\ Tanh(s) \in Fraction /\ Tanh(Minus(s)) = Minus(Tanh(s))
         /\ Minus(One) \preceq Tanh(s) /\ Tanh(s) \preceq One
         /\ \A t \in TanhArguments : s \preceq t => Tanh(s) \preceq Tanh(t)
BY TablesAssumption, Absolute, Numbers

LEMMA TanhArgumentsOf ==
  ASSUME NEW y \in Ys
  PROVE  LET layer == y \oslash R(1, 50)
             stone == (Fabs(y) \ominus Half) \oslash R(1, 100)
             lower == (y \ominus z1) \oslash R(1, 20)
             upper == (y \ominus z2) \oslash R(1, 20)
         IN /\ y \in Fraction /\ Minus(y) \in Ys
            /\ layer \in TanhArguments /\ Minus(layer) \in TanhArguments
            /\ stone \in TanhArguments /\ Minus(stone) \in TanhArguments
            /\ lower \in TanhArguments /\ Minus(lower) \in TanhArguments
            /\ upper \in TanhArguments /\ Minus(upper) \in TanhArguments
            /\ deck \in KHDecks /\ deck.iprob = 5 =>
                 LET s == (Fabs(y) \ominus Quarter) \oslash deck.a
                 IN s \in TanhArguments /\ Minus(s) \in TanhArguments
BY DomainAssumption DEF TanhArguments

-----------------------------------------------------------------------------
LEMMA DrawFacts ==
  ASSUME deck \in KHDecks, NEW r \in [1 .. 4 -> Draws], NEW n \in 1 .. 4
  PROVE  LET v1 == deck.vflow \oplus (deck.amp \otimes r[n])
             noise == Half \otimes deck.amp
         IN /\ v1 \in Fraction /\ deck.amp \otimes r[n] \in Fraction /\ noise \in Fraction
            /\ v1 \preceq deck.vflow \oplus noise /\ deck.vflow \ominus noise \preceq v1
            /\ Minus(deck.vflow \oplus noise) \preceq v1
<1>1. r[n] \in Fraction /\ Fabs(r[n]) \preceq Half
  BY DomainAssumption
<1>2. /\ deck.vflow \in Fraction /\ deck.amp \in Fraction
      /\ Zero \preceq deck.vflow /\ Zero \preceq deck.amp
  BY DeckFacts
<1> QED BY <1>1, <1>2, Noise

LEMMA CellIs ==
  ASSUME deck \in KHDecks,
         NEW d \in Fraction, NEW m1 \in Fraction, NEW m2 \in Fraction, NEW p \in Fraction, Zero \prec d
  PROVE  /\ Pressure(Cell(d, m1, m2, p)) = p /\ Zero \prec Cell(d, m1, m2, p).d
         /\ Cell(d, m1, m2, p).d = d /\ Cell(d, m1, m2, p).m1 = m1
<1>1. d # Zero /\ gm1 \in Fraction /\ gm1 # Zero
  BY DeckFacts, Numbers, Comparisons
<1> QED BY <1>1, CellFacts

LEMMA SlipSurfaceFacts ==
  ASSUME deck \in KHDecks, NEW y \in Ys, NEW r \in [1 .. 4 -> Draws]
  PROVE  LET w == SlipSurface(y, r)
             noise == Half \otimes deck.amp
             v == w.m1 \oslash w.d
         IN /\ Zero \prec w.d /\ Pressure(w) = R(5, 2) /\ v \in Fraction
            /\ Fabs(v) \preceq deck.vflow \oplus noise
            /\ IF Fabs(y) \prec Quarter
               THEN w.d = deck.drat /\ v \preceq Minus(deck.vflow \ominus noise)
               ELSE w.d = One /\ deck.vflow \ominus noise \preceq v
<1> DEFINE v1(n) == deck.vflow \oplus (deck.amp \otimes r[n])
           noise == Half \otimes deck.amp
<1>1. /\ deck.drat \in Fraction /\ deck.amp \in Fraction /\ deck.vflow \in Fraction
      /\ Zero \prec deck.drat /\ deck.drat # Zero /\ Minus(deck.drat) \in Fraction
  BY DeckFacts, Closed
<1>2. /\ v1(1) \in Fraction /\ v1(3) \in Fraction /\ noise \in Fraction
      /\ deck.amp \otimes r[2] \in Fraction
      /\ v1(1) \preceq deck.vflow \oplus noise /\ deck.vflow \ominus noise \preceq v1(1)
      /\ v1(3) \preceq deck.vflow \oplus noise /\ deck.vflow \ominus noise \preceq v1(3)
      /\ Minus(deck.vflow \oplus noise) \preceq v1(1) /\ Minus(deck.vflow \oplus noise) \preceq v1(3)
  BY DrawFacts
<1>3. r[4] \in Fraction /\ deck.drat \otimes deck.amp \in Fraction
  BY <1>1, Closed, DomainAssumption
<1>4. deck.drat \otimes deck.amp \otimes r[4] \in Fraction
  BY <1>3, Closed
<1> HIDE DEF v1, noise
<1>5. /\ Minus(deck.drat) \otimes v1(3) \in Fraction /\ Minus(v1(3)) \in Fraction
      /\ deck.vflow \oplus noise \in Fraction /\ deck.vflow \ominus noise \in Fraction
  BY <1>1, <1>2, Closed
<1>6. CASE Fabs(y) \prec Quarter
  <2>1. SlipSurface(y, r) = Cell(deck.drat, Minus(deck.drat) \otimes v1(3),
                                 deck.drat \otimes deck.amp \otimes r[4], R(5, 2))
    BY <1>6 DEF SlipSurface, v1
  <2>2. (Minus(deck.drat) \otimes v1(3)) \oslash deck.drat = Minus(v1(3))
    <3>1. Minus(deck.drat) \otimes v1(3) = deck.drat \otimes Minus(v1(3))
      BY <1>1, <1>2, Sums
    <3> QED BY <3>1, <1>1, <1>5, Quotients
  <2>3. Minus(v1(3)) \preceq Minus(deck.vflow \ominus noise)
    BY <1>2, <1>5, Shifted
  <2>4. Fabs(Minus(v1(3))) \preceq deck.vflow \oplus noise
    <3>1. Fabs(v1(3)) \preceq deck.vflow \oplus noise
      BY <1>2, <1>5, Absolute
    <3> QED BY <3>1, <1>2, Absolute
  <2>5. LET w == SlipSurface(y, r)
        IN /\ Zero \prec w.d /\ Pressure(w) = R(5, 2) /\ w.d = deck.drat
           /\ w.m1 \oslash w.d = Minus(v1(3))
    <3> DEFINE m1 == Minus(deck.drat) \otimes v1(3)
               m2 == deck.drat \otimes deck.amp \otimes r[4]
    <3>1. R(5, 2) \in Fraction /\ m1 \in Fraction /\ m2 \in Fraction
      BY <1>4, <1>5, Numbers
    <3>2. SlipSurface(y, r) = Cell(deck.drat, m1, m2, R(5, 2)) /\ m1 \oslash deck.drat = Minus(v1(3))
      BY <2>1, <2>2
    <3> HIDE DEF m1, m2
    <3> QED BY <3>1, <3>2, <1>1, CellIs
  <2> QED BY <1>5, <2>3, <2>4, <2>5, <1>6 DEF noise
<1>7. CASE ~(Fabs(y) \prec Quarter)
  <2>1. SlipSurface(y, r) = Cell(One, v1(1), deck.amp \otimes r[2], R(5, 2))
    BY <1>7 DEF SlipSurface, v1
  <2>2. v1(1) \oslash One = v1(1)
    BY <1>2, Numbers, Quotients
  <2>3. Fabs(v1(1)) \preceq deck.vflow \oplus noise
    BY <1>2, <1>5, Absolute
  <2>4. LET w == SlipSurface(y, r)
        IN /\ Zero \prec w.d /\ Pressure(w) = R(5, 2) /\ w.d = One
           /\ w.m1 \oslash w.d = v1(1)
    <3>1. R(5, 2) \in Fraction /\ One \in Fraction /\ Zero \prec One
      BY Numbers
    <3> QED BY <2>1, <2>2, <3>1, <1>2, CellIs
  <2> QED BY <2>3, <2>4, <1>2, <1>7 DEF noise
<1> QED BY <1>6, <1>7

\* tanh is odd and does not fall: where it is one in size, its sign is that of
\* its argument, which is not zero.
LEMMA Saturated ==
  ASSUME NEW s \in TanhArguments, s \in Fraction, Minus(s) \in TanhArguments, Fabs(Tanh(s)) = One
  PROVE  IF s \prec Zero THEN Tanh(s) = Minus(One) ELSE Zero \prec s /\ Tanh(s) = One
<1> DEFINE t == Tanh(s)
<1>1. t \in Fraction /\ Tanh(Minus(s)) = Minus(t) /\ Tanh(Minus(s)) \in Fraction
  BY TanhFacts
<1>2. /\ s \preceq Minus(s) => t \preceq Minus(t)
      /\ Minus(s) \preceq s => Minus(t) \preceq t
  BY <1>1, TanhFacts
<1> HIDE DEF t
<1>3. Zero \in Fraction /\ One \in Fraction /\ Zero \prec One /\ Minus(One) \in Fraction /\ Minus(s) \in Fraction
  BY Numbers, Closed
<1>4. Minus(One) \prec One
  <2>1. Minus(One) \preceq Minus(Zero) /\ Minus(Zero) = Zero
    BY <1>3, Shifted, Comparisons, Sums
  <2> QED BY <2>1, <1>3, Comparisons
<1>5. t = One \/ t = Minus(One)
  <2>1. Fabs(t) = t \/ Fabs(t) = Minus(t)
    BY <1>1, Absolute
  <2>2. Fabs(t) = One
    BY DEF t
  <2>3. Minus(Minus(t)) = t
    BY <1>1, Sums
  <2> QED BY <2>1, <2>2, <2>3
<1>6. ASSUME s \prec Zero PROVE t = Minus(One)
  <2>1. s \preceq Zero /\ Minus(Zero) = Zero
    BY <1>3, <1>6, Comparisons, Sums
  <2>2. Zero \preceq Minus(s)
    BY <1>3, <2>1, Shifted
  <2>3. t \preceq Minus(t)
    BY <1>2, <1>3, <2>1, <2>2, Transitive
  <2> QED BY <1>3, <1>4, <1>5, <2>3, Comparisons
<1>7. ASSUME ~(s \prec Zero) PROVE t = One /\ Zero \prec s
  <2>1. Zero \preceq s /\ Minus(Zero) = Zero
    BY <1>3, <1>7, Comparisons, Sums
  <2>2. Minus(s) \preceq Zero
    BY <1>3, <2>1, Shifted
  <2>3. Minus(t) \preceq t
    BY <1>2, <1>3, <2>1, <2>2, Transitive
  <2>4. Minus(Minus(One)) = One
    BY <1>3, Sums
  <2>5. t = One
    BY <1>3, <1>4, <1>5, <2>3, <2>4, Comparisons
  <2>6. s # Zero
    <3> SUFFICES ASSUME s = Zero PROVE FALSE
      OBVIOUS
    <3>1. s \preceq Minus(s)
      BY <2>1, <1>3, Comparisons
    <3>2. One \preceq Minus(One)
      BY <3>1, <2>5, <1>2
    <3> QED BY <3>2, <1>3, <1>4, Comparisons
  <2> QED BY <2>1, <2>5, <2>6, <1>3, Ordered
<1> QED BY <1>6, <1>7 DEF t

LEMMA Below ==
  ASSUME NEW x \in Fraction, NEW y \in Fraction
  PROVE  x \ominus y \in Fraction /\ (x \ominus y \prec Zero <=> x \prec y)
         /\ (Zero \prec x \ominus y <=> y \prec x)
<1>1. x \ominus y \in Fraction /\ Zero \in Fraction
  BY Closed
<1>2. y \preceq x <=> Zero \preceq x \ominus y
  BY Comparisons
<1>3. Zero \prec x \ominus y <=> y \prec x
  BY Ordered, <1>1
<1> QED BY <1>1, <1>2, <1>3, Comparisons

\* The sides of a layer at c, of width a, where it has settled.
LEMMA Sides ==
  ASSUME NEW x \in Fraction, NEW c \in Fraction, NEW a \in Fraction, Zero \prec a,
         LET s == (x \ominus c) \oslash a
         IN s \in TanhArguments /\ Minus(s) \in TanhArguments /\ Fabs(Tanh(s)) = One
  PROVE  IF x \prec c THEN Tanh((x \ominus c) \oslash a) = Minus(One)
         ELSE c \prec x /\ Tanh((x \ominus c) \oslash a) = One
<1> DEFINE z == x \ominus c
           s == z \oslash a
<1>1. z \in Fraction /\ Zero \in Fraction /\ (z \prec Zero <=> x \prec c) /\ (Zero \prec z <=> c \prec x)
  BY Below, Closed
<1> HIDE DEF z
<1>2. s \in Fraction /\ Zero \oslash a = Zero
  BY <1>1, Shares, Quotients
<1>3. (Zero \preceq z <=> Zero \preceq s) /\ (z \preceq Zero <=> s \preceq Zero)
  BY <1>1, <1>2, Shares
<1>4. (z \prec Zero <=> s \prec Zero) /\ (Zero \prec z <=> Zero \prec s)
  BY <1>1, <1>2, <1>3, Comparisons
<1>5. IF s \prec Zero THEN Tanh(s) = Minus(One) ELSE Zero \prec s /\ Tanh(s) = One
  BY <1>2, Saturated DEF z
<1> QED BY <1>1, <1>4, <1>5 DEF z

\* A stream at v, by the tanh of its layer.
LEMMA Driven ==
  ASSUME NEW v \in Fraction, NEW t \in Fraction,
         Zero \preceq v, Minus(One) \preceq t, t \preceq One
  PROVE  /\ v \otimes t \in Fraction /\ Fabs(v \otimes t) \preceq v
         /\ (t = One => v \otimes t = v) /\ (t = Minus(One) => v \otimes t = Minus(v))
<1>1. One \in Fraction /\ Minus(One) \in Fraction /\ v \otimes t \in Fraction
  BY Closed
<1>2. v \otimes One = v /\ v \otimes Minus(One) = Minus(v)
  <2>1. v \otimes One = v
    BY <1>1, Field
  <2>2. v \otimes Minus(One) = Minus(v \otimes One)
    BY <1>1, Sums
  <2> QED BY <2>1, <2>2
<1>3. v \otimes t \preceq v \otimes One /\ v \otimes Minus(One) \preceq v \otimes t
  BY <1>1, Products
<1> QED BY <1>1, <1>2, <1>3, Absolute

LEMMA ShearLayerFacts ==
  ASSUME deck \in KHDecks, NEW x \in Xs, NEW y \in Ys
  PROVE  LET w == ShearLayer(x, y)
             v == w.m1 \oslash w.d
         IN /\ Zero \prec w.d /\ Pressure(w) = One /\ w.d = One /\ v \in Fraction /\ Fabs(v) \preceq deck.vflow
            /\ Fabs(Tanh(y \oslash R(1, 50))) = One =>
                 v = IF y \prec Zero THEN Minus(deck.vflow) ELSE deck.vflow
<1> DEFINE m1 == deck.vflow \otimes Tanh(y \oslash R(1, 50))
           s == deck.amp \otimes Sin(x \oplus Quarter)
           e == Exp(SQR(y) \oslash SQR(R(1, 5)))
<1>1. Tanh(y \oslash R(1, 50)) \in Fraction /\ Sin(x \oplus Quarter) \in Fraction /\ e \in Fraction
  BY TanhArgumentsOf, TanhFacts, TablesAssumption
<1>2. m1 \in Fraction /\ s \in Fraction
  BY <1>1, DeckFacts, Closed
<1>3. s \otimes e \in Fraction
  BY <1>1, <1>2, Closed
<1>4. ShearLayer(x, y) = Cell(One, m1, s \otimes e, One)
  BY DEF ShearLayer
<1>5. Fabs(m1) \preceq deck.vflow
  BY TanhArgumentsOf, TanhFacts, DeckFacts, Driven
<1>6. ASSUME Fabs(Tanh(y \oslash R(1, 50))) = One
      PROVE  m1 = IF y \prec Zero THEN Minus(deck.vflow) ELSE deck.vflow
  <2>1. y \ominus Zero = y /\ y \in Fraction /\ Zero \in Fraction
    BY TanhArgumentsOf, Sums, Closed
  <2>2. R(1, 50) \in Fraction /\ Zero \prec R(1, 50)
    BY Numbers
  <2>3. Tanh(y \oslash R(1, 50)) = IF y \prec Zero THEN Minus(One) ELSE One
    BY <1>6, <2>1, <2>2, TanhArgumentsOf, Sides
  <2> QED BY <2>3, TanhArgumentsOf, TanhFacts, DeckFacts, Driven
<1> HIDE DEF m1, s, e
<1>7. One \in Fraction /\ Zero \prec One
  BY Numbers
<1>8. m1 \oslash One = m1
  BY <1>2, <1>7, Comparisons, Quotients
<1>9. LET w == ShearLayer(x, y)
      IN Zero \prec w.d /\ Pressure(w) = One /\ w.d = One /\ w.m1 = m1
  BY <1>2, <1>3, <1>4, <1>7, CellIs
<1> QED BY <1>2, <1>5, <1>6, <1>8, <1>9

\* 0.505 - 0.495 and 0.505 + 0.495.
LEMMA StoneDensities ==
  /\ R(101, 200) \oplus (R(99, 200) \otimes One) = One
  /\ R(101, 200) \oplus (R(99, 200) \otimes Minus(One)) = R(1, 100)
<1> DEFINE b == R(101, 200)
           a == R(99, 200)
<1>1. Over(b, 101, 200) /\ Over(a, 99, 200) /\ Over(R(1, 100), 2, 200) /\ Over(One, 200, 200)
  <2>1. 200 \in Pos /\ 100 \in Pos /\ 2 \in Pos
    BY DEF Pos
  <2>2. Over(R(1, 100), 1, 100)
    BY <2>1, OverR
  <2>3. Over(R(1, 100), 2 * 1, 2 * 100)
    BY <2>1, <2>2, OverScale
  <2> QED BY <2>1, <2>3, OverR, OverConstants
<1>2. a \in Fraction /\ b \in Fraction /\ One \in Fraction
  BY Numbers
<1> HIDE DEF a, b
<1>3. a \otimes One = a /\ a \otimes Minus(One) = Minus(a)
  <2>1. a \otimes One = a
    BY <1>2, Field
  <2>2. a \otimes Minus(One) = Minus(a \otimes One)
    BY <1>2, Sums
  <2> QED BY <2>1, <2>2
<1>4. b \oplus a = One
  <2>1. Over(b \oplus a, 101 + 99, 200)
    BY <1>1, OverPlus
  <2> QED BY <2>1, <1>1, OverEqual
<1>5. b \oplus Minus(a) = R(1, 100)
  <2>1. Over(b \ominus a, 101 - 99, 200) /\ b \oplus Minus(a) = b \ominus a
    BY <1>1, <1>2, OverMinus, Sums
  <2> QED BY <2>1, <1>1, OverEqual
<1> QED BY <1>3, <1>4, <1>5 DEF a, b

LEMMA BeckwithStoneFacts ==
  ASSUME deck \in KHDecks, NEW x \in Xs, NEW y \in Ys
  PROVE  LET w == BeckwithStone(x, y)
             v == w.m1 \oslash w.d
         IN /\ Zero \prec w.d /\ Pressure(w) = One /\ v \in Fraction /\ Fabs(v) \preceq deck.vflow
            /\ Fabs(Tanh((Fabs(y) \ominus Half) \oslash R(1, 100))) = One =>
                 IF Fabs(y) \prec Half THEN w.d = R(1, 100) /\ v = Minus(deck.vflow)
                 ELSE w.d = One /\ v = deck.vflow
<1> DEFINE z == Fabs(y) \ominus Half
           t == Tanh(z \oslash R(1, 100))
           d == R(101, 200) \oplus (R(99, 200) \otimes t)
           v1 == deck.vflow \otimes t
           s == deck.problem_amp \otimes deck.vflow \otimes Sin(x)
           e == Exp(SQR(z) \oslash SQR(R(1, 10)))
           v2 == s \otimes e
           m2 == IF y \prec Zero THEN Minus(v2) ELSE v2
<1>1. BeckwithStone(x, y) = Cell(d, v1 \otimes d, m2 \otimes d, One)
  BY DEF BeckwithStone
<1>2. t \in Fraction /\ Minus(One) \preceq t /\ t \preceq One
  BY TanhArgumentsOf, TanhFacts
<1>3. Sin(x) \in Fraction /\ e \in Fraction
  BY TablesAssumption
<1>9. Fabs(t) = One => t = IF Fabs(y) \prec Half THEN Minus(One) ELSE One
  <2>1. Fabs(y) \in Fraction /\ Half \in Fraction /\ R(1, 100) \in Fraction /\ Zero \prec R(1, 100)
    BY TanhArgumentsOf, Closed, Numbers
  <2> QED BY <2>1, TanhArgumentsOf, Sides
<1> HIDE DEF t, e
<1>4. v1 \in Fraction /\ deck.problem_amp \otimes deck.vflow \in Fraction
  BY <1>2, DeckFacts, Closed
<1>5. s \in Fraction
  BY <1>3, <1>4, Closed
<1>6. m2 \in Fraction
  <2>1. v2 \in Fraction
    BY <1>3, <1>5, Closed
  <2> QED BY <2>1, Closed
<1>7. d \in Fraction /\ Zero \prec d
  <2> DEFINE a == R(99, 200)
             b == R(101, 200)
  <2>1. a \in Fraction /\ b \in Fraction /\ a \prec b /\ Zero \prec a /\ Zero \in Fraction /\ One \in Fraction
    BY Numbers
  <2> HIDE DEF a, b
  <2>2. a \otimes t \in Fraction /\ Minus(a) \in Fraction /\ Minus(One) \in Fraction
    BY <1>2, <2>1, Closed
  <2>3. Minus(a) \preceq a \otimes t
    <3>1. a \otimes Minus(One) \preceq a \otimes t
      BY <1>2, <2>1, <2>2, Products, Comparisons
    <3>2. a \otimes Minus(One) = Minus(a \otimes One)
      BY <2>1, Sums
    <3>3. a \otimes One = a
      BY <2>1, Field
    <3> QED BY <3>1, <3>2, <3>3
  <2>4. b \oplus Minus(a) \preceq b \oplus (a \otimes t)
    BY <2>1, <2>2, <2>3, Shifted
  <2>5. Zero \prec b \ominus a /\ b \ominus a = b \oplus Minus(a) /\ b \ominus a \in Fraction
    BY <2>1, Ordered, Commuted, Closed
  <2>6. b \oplus (a \otimes t) \in Fraction
    BY <2>1, <2>2, Closed
  <2>7. Zero \prec b \oplus (a \otimes t)
    BY <2>1, <2>4, <2>5, <2>6, Comparisons
  <2> QED BY <2>6, <2>7 DEF a, b
<1>10. (t = Minus(One) => d = R(1, 100)) /\ (t = One => d = One)
  BY <1>2, StoneDensities
<1>11. /\ Fabs(v1) \preceq deck.vflow
       /\ (t = One => v1 = deck.vflow) /\ (t = Minus(One) => v1 = Minus(deck.vflow))
  BY <1>2, DeckFacts, Driven
<1> HIDE DEF d, v1, m2
<1>8. v1 \otimes d \in Fraction /\ m2 \otimes d \in Fraction /\ One \in Fraction
  BY <1>4, <1>6, <1>7, Closed
<1>12. (v1 \otimes d) \oslash d = v1
  BY <1>4, <1>7, Numbers, Comparisons, Quotients
<1>13. LET w == BeckwithStone(x, y)
       IN Zero \prec w.d /\ Pressure(w) = One /\ w.d = d /\ w.m1 = v1 \otimes d
  BY <1>1, <1>7, <1>8, CellIs
<1> QED BY <1>4, <1>9, <1>10, <1>11, <1>12, <1>13 DEF t

LEMMA FabsBelow ==
  ASSUME NEW x \in Fraction, NEW c \in Fraction, Zero \prec c
  PROVE  Fabs(x) \prec c <=> Minus(c) \prec x /\ x \prec c
<1>1. /\ Zero \in Fraction /\ Minus(x) \in Fraction /\ Minus(c) \in Fraction
      /\ Minus(Minus(c)) = c /\ Minus(Zero) = Zero /\ Minus(Minus(x)) = x
  BY Closed, Sums
<1>2. x \preceq Minus(c) <=> c \preceq Minus(x)
  BY <1>1, Comparisons
<1>3. Minus(c) \prec Zero
  BY <1>1, Comparisons
<1>4. CASE Zero \preceq x
  BY <1>1, <1>3, <1>4, Absolute, Comparisons
<1>5. CASE x \prec Zero
  <2>1. Fabs(x) = Minus(x)
    BY <1>5, Absolute
  <2> QED BY <2>1, <1>1, <1>2, <1>5, Comparisons, Ordered
<1> QED BY <1>1, <1>4, <1>5, Comparisons

\* The smooth profile of iprob=4 and its density, one or more.
LEMMA LecoanetFacts ==
  ASSUME deck \in KHDecks, NEW x \in Xs, NEW y \in Ys
  PROVE  LET w == Lecoanet(x, y)
             v == (w.m1 \oslash w.d) \ominus deck.vboost
         IN /\ Zero \prec w.d /\ Pressure(w) = R(10, 1) /\ Fabs(v) \preceq deck.vflow
            /\ Fabs(Tanh((y \ominus z1) \oslash R(1, 20))) = One
               /\ Fabs(Tanh((y \ominus z2) \oslash R(1, 20))) = One =>
                 IF Fabs(y) \prec Half THEN w.d = One \oplus deck.drho_rho0 /\ v = deck.vflow
                 ELSE w.d = One /\ v = Minus(deck.vflow)
<1> DEFINE a == (y \ominus z1) \oslash R(1, 20)
           b == (y \ominus z2) \oslash R(1, 20)
           t == Tanh(a) \ominus Tanh(b)
           k == Half \otimes deck.drho_rho0
           dens == One \oplus (k \otimes t)
           v1 == (deck.vflow \otimes (t \ominus One)) \oplus deck.vboost
           e1 == Exp(SQR(y \ominus z1) \oslash R(1, 25))
           e2 == Exp(SQR(y \ominus z2) \oslash R(1, 25))
           s == Minus(deck.amp) \otimes AveSine(x)
           v2 == s \otimes (e1 \oplus e2)
<1>1. Lecoanet(x, y) = Cell(dens, v1 \otimes dens, v2 \otimes dens, R(10, 1))
  BY DEF Lecoanet
<1>2. /\ y \in Fraction /\ a \in TanhArguments /\ b \in TanhArguments
      /\ Tanh(a) \in Fraction /\ Tanh(b) \in Fraction
  BY TanhArgumentsOf, TanhFacts
<1>3. Zero \preceq t /\ t \in Fraction
  <2>1. z1 \preceq z2
    <3>1. Minus(Half) \preceq Minus(Zero) /\ Minus(Zero) = Zero
      BY Numbers, Shifted, Sums
    <3> QED BY <3>1, Numbers, Transitive DEF z1, z2
  <2>2. z1 \in Fraction /\ z2 \in Fraction /\ R(1, 20) \in Fraction /\ Zero \prec R(1, 20)
    BY Numbers
  <2>3. y \ominus z2 \preceq y \ominus z1 /\ y \ominus z2 \in Fraction /\ y \ominus z1 \in Fraction
    BY <1>2, <2>1, <2>2, Shifted, Closed
  <2>4. b \preceq a
    BY <2>2, <2>3, Shares
  <2>5. Tanh(b) \preceq Tanh(a)
    BY <1>2, <2>4, TanhFacts
  <2> QED BY <1>2, <2>5, Comparisons, Closed
<1>13. t \preceq One \oplus One
  <2>1. Minus(One) \preceq Tanh(b) /\ Tanh(a) \preceq One /\ One \in Fraction
    BY <1>2, TanhFacts, Numbers
  <2>2. Minus(Tanh(b)) \preceq One /\ Minus(Tanh(b)) \in Fraction
    <3>1. Minus(Tanh(b)) \preceq Minus(Minus(One)) /\ Minus(One) \in Fraction
      BY <1>2, <2>1, Shifted, Closed
    <3> QED BY <3>1, <1>2, <2>1, Sums, Closed
  <2> HIDE DEF a, b
  <2>3. /\ Tanh(a) \oplus Minus(Tanh(b)) \preceq One \oplus Minus(Tanh(b))
        /\ One \oplus Minus(Tanh(b)) \preceq One \oplus One
    BY <1>2, <2>1, <2>2, Shifted
  <2>4. One \oplus Minus(Tanh(b)) \in Fraction /\ One \oplus One \in Fraction
    BY <2>1, <2>2, Closed
  <2>5. t = Tanh(a) \oplus Minus(Tanh(b))
    BY <1>2, Commuted
  <2> QED BY <2>3, <2>4, <2>5, <1>3, Transitive
<1>14. ASSUME Fabs(Tanh(a)) = One, Fabs(Tanh(b)) = One
       PROVE  t = IF Fabs(y) \prec Half THEN One \oplus One ELSE Zero
  <2>1. /\ z1 \in Fraction /\ z2 \in Fraction /\ R(1, 20) \in Fraction /\ Zero \prec R(1, 20)
        /\ One \in Fraction /\ Minus(One) \in Fraction /\ Half \in Fraction /\ Zero \prec Half
    BY Numbers, Closed
  <2>2. IF y \prec z1 THEN Tanh(a) = Minus(One) ELSE z1 \prec y /\ Tanh(a) = One
    BY <1>2, <1>14, <2>1, TanhArgumentsOf, Sides
  <2>3. IF y \prec z2 THEN Tanh(b) = Minus(One) ELSE z2 \prec y /\ Tanh(b) = One
    BY <1>2, <1>14, <2>1, TanhArgumentsOf, Sides
  <2>4. z1 \prec z2 /\ z1 = Minus(Half) /\ z2 = Half
    <3>1. Minus(Half) \preceq Minus(Zero) /\ Minus(Zero) = Zero /\ Zero \in Fraction
      BY <2>1, Shifted, Comparisons, Sums, Numbers
    <3> QED BY <3>1, <2>1, Comparisons DEF z1, z2
  <2>5. One \ominus Minus(One) = One \oplus One /\ One \ominus One = Zero
        /\ Minus(One) \ominus Minus(One) = Zero
    BY <2>1, Sums
  <2>6. Fabs(y) \prec Half <=> z1 \prec y /\ y \prec z2
    BY <1>2, <2>1, <2>4, FabsBelow
  <2> HIDE DEF a, b
  <2>7. CASE y \prec z1
    <3>1. y \prec z2 /\ ~(z1 \prec y)
      BY <2>1, <2>4, <2>7, <1>2, Ordered
    <3> QED BY <3>1, <2>2, <2>3, <2>5, <2>6, <2>7
  <2>8. CASE ~(y \prec z1)
    BY <2>2, <2>3, <2>5, <2>6, <2>8, <2>1, <1>2, Ordered
  <2> QED BY <2>7, <2>8
<1>4. AveSine(x) \in Fraction
  <2>1. Sin(x) \in Fraction /\ Sin(x \ominus Half) \in Fraction /\ Sin(Half \oplus x) \in Fraction
    BY TablesAssumption
  <2> DEFINE o == IF Zero \prec x THEN Sin(x \ominus Half) ELSE Sin(Half \oplus x)
  <2>2. o \in Fraction
    BY <2>1
  <2>3. AveSine(x) = Half \otimes (Sin(x) \ominus o)
    BY DEF AveSine
  <2> HIDE DEF o
  <2>4. Half \in Fraction /\ Sin(x) \ominus o \in Fraction
    BY <2>1, <2>2, Closed
  <2> QED BY <2>3, <2>4, Closed
<1>5. e1 \in Fraction /\ e2 \in Fraction
  BY TablesAssumption
<1> HIDE DEF t, e1, e2
<1>6. e1 \oplus e2 \in Fraction /\ Minus(deck.amp) \in Fraction
  BY <1>5, DeckFacts, Closed
<1>7. s \in Fraction
  BY <1>4, <1>6, Closed
<1>8. v2 \in Fraction
  BY <1>6, <1>7, Closed
<1>9. v1 \in Fraction
  <2>1. t \ominus One \in Fraction
    BY <1>3, Numbers, Closed
  <2>2. deck.vflow \otimes (t \ominus One) \in Fraction
    BY <2>1, DeckFacts, Closed
  <2> QED BY <2>2, DeckFacts, Closed
<1>10. dens \in Fraction /\ Zero \prec dens
  <2>1. Zero \in Fraction /\ One \in Fraction /\ Half \in Fraction /\ Zero \preceq Half /\ Zero \prec One
    BY Numbers
  <2>2. deck.drho_rho0 \in Fraction /\ Zero \preceq deck.drho_rho0
    BY DeckFacts
  <2>3. k \in Fraction /\ Zero \preceq k
    <3>1. Half \otimes Zero \preceq Half \otimes deck.drho_rho0
      BY <2>1, <2>2, Products
    <3> QED BY <3>1, <2>1, <2>2, Sums, Closed
  <2> HIDE DEF k
  <2>4. k \otimes t \in Fraction /\ Zero \preceq k \otimes t
    <3>1. k \otimes Zero \preceq k \otimes t
      BY <2>1, <2>3, <1>3, Products
    <3> QED BY <3>1, <2>3, <1>3, Sums, Closed
  <2>5. One \oplus Zero \preceq dens /\ One \oplus Zero = One /\ dens \in Fraction
    BY <2>1, <2>4, Shifted, Field, Closed
  <2> QED BY <2>1, <2>5, Comparisons
<1>15. /\ t = Zero => dens = One
       /\ t = One \oplus One => dens = One \oplus deck.drho_rho0
  <2>1. One \in Fraction /\ Half \in Fraction /\ deck.drho_rho0 \in Fraction
    BY Numbers, DeckFacts
  <2>2. k \in Fraction /\ Zero \in Fraction
    BY <2>1, Closed
  <2>3. k \otimes (One \oplus One) = deck.drho_rho0
    <3>1. k \otimes (One \oplus One) = (k \otimes One) \oplus (k \otimes One) /\ k \otimes One = k
      BY <2>1, <2>2, Field
    <3>2. k \oplus k = deck.drho_rho0
      <4>1. /\ k = deck.drho_rho0 \otimes Half
            /\ deck.drho_rho0 \otimes (Half \oplus Half) = k \oplus k
        BY <2>1, Field
      <4> QED BY <4>1, <2>1, Field, Numbers
    <3> QED BY <3>1, <3>2
  <2> HIDE DEF k
  <2>4. k \otimes Zero = Zero /\ One \oplus Zero = One
    BY <2>1, <2>2, Sums, Field
  <2> QED BY <2>3, <2>4
<1>16. v1 \ominus deck.vboost = deck.vflow \otimes (t \ominus One)
  <2>1. t \ominus One \in Fraction
    BY <1>3, Numbers, Closed
  <2>2. deck.vflow \otimes (t \ominus One) \in Fraction
    BY <2>1, DeckFacts, Closed
  <2> QED BY <2>2, DeckFacts, Sums
<1>17. /\ Fabs(deck.vflow \otimes (t \ominus One)) \preceq deck.vflow
       /\ t = Zero => deck.vflow \otimes (t \ominus One) = Minus(deck.vflow)
       /\ t = One \oplus One => deck.vflow \otimes (t \ominus One) = deck.vflow
  <2>1. One \in Fraction /\ Zero \in Fraction
    BY Numbers
  <2>2. One \oplus One \in Fraction /\ t \ominus One \in Fraction
    BY <2>1, <1>3, Closed
  <2>3. Zero \ominus One = Minus(One) /\ (One \oplus One) \ominus One = One
    BY <2>1, Sums
  <2>4. Zero \ominus One \preceq t \ominus One /\ t \ominus One \preceq (One \oplus One) \ominus One
    BY <2>1, <2>2, <1>3, <1>13, Shifted
  <2> QED BY <2>2, <2>3, <2>4, DeckFacts, Driven
<1> HIDE DEF dens, v1, v2
<1>11. v1 \otimes dens \in Fraction /\ v2 \otimes dens \in Fraction
  BY <1>8, <1>9, <1>10, Closed
<1>12. R(10, 1) \in Fraction
  BY Numbers
<1>18. (v1 \otimes dens) \oslash dens = v1
  BY <1>9, <1>10, Numbers, Comparisons, Quotients
<1>19. LET w == Lecoanet(x, y)
       IN Zero \prec w.d /\ Pressure(w) = R(10, 1) /\ w.d = dens /\ w.m1 = v1 \otimes dens
  BY <1>1, <1>10, <1>11, <1>12, CellIs
<1> QED BY <1>14, <1>15, <1>16, <1>17, <1>18, <1>19

\* The weight of the upper stream.
LEMMA Weight ==
  ASSUME NEW t \in Fraction, Minus(One) \preceq t, t \preceq One
  PROVE  LET w == (t \oplus One) \otimes Half
         IN /\ w \in Fraction /\ Zero \preceq w /\ w \preceq One
            /\ (t = One => w = One) /\ (t = Minus(One) => w = Zero)
<1>1. Zero \in Fraction /\ One \in Fraction /\ Half \in Fraction /\ Zero \preceq Half
  BY Numbers
<1>2. t \oplus One \in Fraction /\ Minus(One) \in Fraction /\ One \oplus One \in Fraction
  BY <1>1, Closed
<1>3. Minus(One) \oplus One = Zero /\ Zero \otimes Half = Zero
  <2>1. Minus(One) \oplus One = One \oplus Minus(One)
    BY <1>1, <1>2, Commuted
  <2> QED BY <2>1, <1>1, Field, Sums
<1>4. (One \oplus One) \otimes Half = One
  <2>1. (One \oplus One) \otimes Half = Half \otimes (One \oplus One)
    BY <1>1, <1>2, Commuted
  <2>2. Half \otimes (One \oplus One) = (Half \otimes One) \oplus (Half \otimes One)
    BY <1>1, Field
  <2>3. Half \otimes One = Half
    BY <1>1, Field
  <2> QED BY <2>1, <2>2, <2>3, Numbers
<1>5. Zero \preceq t \oplus One /\ t \oplus One \preceq One \oplus One
  BY <1>1, <1>2, <1>3, Shifted
<1>6. Zero \otimes Half \preceq (t \oplus One) \otimes Half
      /\ (t \oplus One) \otimes Half \preceq (One \oplus One) \otimes Half
  BY <1>1, <1>2, <1>5, Products
<1>7. (t \oplus One) \otimes Half \in Fraction
  BY <1>1, <1>2, Closed
<1> QED BY <1>3, <1>4, <1>6, <1>7

\* The pressure of an energy with a quarter where a half belongs.
LEMMA QuarterLeftOut ==
  ASSUME NEW g \in Fraction, g # Zero, NEW p \in Fraction, NEW K \in Fraction
  PROVE  g \otimes (((p \oslash g) \oplus (Quarter \otimes K)) \ominus (Half \otimes K))
           = p \ominus (g \otimes Quarter \otimes K)
<1> DEFINE e == p \oslash g
           q == Quarter \otimes K
<1>1. Quarter \in Fraction /\ Half \in Fraction /\ q \in Fraction /\ e \in Fraction /\ g \otimes e = p
  BY Numbers, Closed, Quotients
<1>2. Half \otimes K = q \oplus q
  <2>1. Quarter \oplus Quarter = Half
    <3>1. Over(Quarter, 1, 4) /\ Over(Half, 2, 4)
      <4>1. 4 \in Pos /\ 2 \in Pos
        BY DEF Pos
      <4>2. Over(Half, 2, 2 * 2)
        BY <4>1, OverConstants
      <4> QED BY <4>1, <4>2, OverR DEF Quarter
    <3>2. Over(Quarter \oplus Quarter, 1 + 1, 4)
      BY <3>1, OverPlus
    <3> QED BY <3>1, <3>2, OverEqual
  <2>2. /\ K \otimes (Quarter \oplus Quarter) = (K \otimes Quarter) \oplus (K \otimes Quarter)
        /\ K \otimes Quarter = q /\ K \otimes Half = Half \otimes K
    BY <1>1, Field
  <2> QED BY <2>1, <2>2
<1>3. g \otimes Quarter \otimes K = g \otimes q
  BY <1>1, Field
<1> HIDE DEF e, q
<1>4. e \oplus q \in Fraction /\ q \oplus q \in Fraction /\ Minus(q) \in Fraction /\ g \otimes q \in Fraction
  BY <1>1, Closed
<1>5. (e \oplus q) \ominus (q \oplus q) = e \ominus q
  <2>1. (e \oplus q) \ominus (q \oplus q) = (e \oplus q) \oplus Minus(q \oplus q)
    BY <1>4, Field
  <2>2. Minus(q \oplus q) = Minus(q) \ominus q /\ Minus(q) \ominus q = Minus(q) \oplus Minus(q)
    BY <1>1, <1>4, Sums, Field
  <2>3. (e \oplus q) \oplus (Minus(q) \oplus Minus(q)) = ((e \oplus q) \oplus Minus(q)) \oplus Minus(q)
    BY <1>4, Field
  <2>4. (e \oplus q) \oplus Minus(q) = e
    <3>1. (e \oplus q) \oplus Minus(q) = (e \oplus q) \ominus q
      BY <1>1, <1>4, Field
    <3> QED BY <3>1, <1>1, Sums
  <2>5. e \oplus Minus(q) = e \ominus q
    BY <1>1, Field
  <2> QED BY <2>1, <2>2, <2>3, <2>4, <2>5
<1>6. g \otimes (e \ominus q) = (g \otimes e) \ominus (g \otimes q)
  <2>1. g \otimes (e \oplus Minus(q)) = (g \otimes e) \oplus (g \otimes Minus(q))
    BY <1>1, <1>4, Field
  <2>2. g \otimes Minus(q) = Minus(g \otimes q) /\ e \ominus q = e \oplus Minus(q)
    BY <1>1, Sums, Field
  <2>3. (g \otimes e) \oplus Minus(g \otimes q) = (g \otimes e) \ominus (g \otimes q)
    BY <1>1, <1>4, Field
  <2> QED BY <2>1, <2>2, <2>3
<1> QED BY <1>1, <1>2, <1>3, <1>5, <1>6 DEF e, q

LEMMA ResolvedStreamsFacts ==
  ASSUME deck \in KHDecks, deck.iprob = 5, NEW x \in Xs, NEW y \in Ys
  PROVE  LET w == ResolvedStreams(x, y)
             v == w.m1 \oslash w.d
         IN /\ Zero \prec w.d /\ v \in Fraction /\ Fabs(v) \preceq deck.vflow
            /\ Pressure(w) = R(5, 2) \ominus (gm1 \otimes Quarter \otimes Kinetic(w.d, w.m1, w.m2))
            /\ Fabs(Tanh((Fabs(y) \ominus Quarter) \oslash deck.a)) = One =>
                 IF Fabs(y) \prec Quarter
                 THEN w.d = deck.drat /\ v = Minus(deck.vflow)
                 ELSE w.d = One /\ v = deck.vflow
<1> DEFINE z == Fabs(y) \ominus Quarter
           s == z \oslash deck.a
           t == Tanh(s)
           w == (t \oplus One) \otimes Half
           d == w \oplus ((One \ominus w) \otimes deck.drat)
           m1 == (w \otimes deck.vflow) \ominus ((One \ominus w) \otimes deck.vflow \otimes deck.drat)
<1>1. ResolvedStreams(x, y).d = d /\ ResolvedStreams(x, y).m1 = m1
  BY DEF ResolvedStreams
<1>2. s \in TanhArguments /\ Minus(s) \in TanhArguments /\ y \in Fraction
  BY TanhArgumentsOf
<1>3. /\ deck.vflow \in Fraction /\ Zero \preceq deck.vflow
      /\ deck.drat \in Fraction /\ Zero \prec deck.drat /\ deck.a \in Fraction /\ Zero \prec deck.a
      /\ Zero \in Fraction /\ Quarter \in Fraction /\ Fabs(y) \in Fraction
  BY <1>2, DeckFacts, Numbers, Absolute
<1>6. t \in Fraction /\ Minus(One) \preceq t /\ t \preceq One
  BY <1>2, TanhFacts
<1>7. Fabs(t) = One => t = IF Fabs(y) \prec Quarter THEN Minus(One) ELSE One
  BY <1>2, <1>3, Sides
<1> HIDE DEF t
<1>8. /\ w \in Fraction /\ Zero \preceq w /\ w \preceq One
      /\ (t = One => w = One) /\ (t = Minus(One) => w = Zero)
  BY <1>6, Weight
<1> HIDE DEF w
<1>9. /\ Zero \prec d /\ d \in Fraction /\ m1 \in Fraction /\ Fabs(m1 \oslash d) \preceq deck.vflow
      /\ w = Zero => d = deck.drat /\ m1 \oslash d = Minus(deck.vflow)
      /\ w = One => d = One /\ m1 \oslash d = deck.vflow
  BY <1>3, <1>8, Streams
<1> HIDE DEF d, m1
<1>10. Fabs(t) = One =>
         IF Fabs(y) \prec Quarter THEN d = deck.drat /\ m1 \oslash d = Minus(deck.vflow)
         ELSE d = One /\ m1 \oslash d = deck.vflow
  BY <1>7, <1>8, <1>9
<1>11. LET v == ResolvedStreams(x, y)
       IN Pressure(v) = R(5, 2) \ominus (gm1 \otimes Quarter \otimes Kinetic(v.d, v.m1, v.m2))
  <2> DEFINE m2 == d \otimes deck.amp \otimes Sin(x \oplus x) \otimes Exp(SQR(z) \oslash SQR(deck.sigma))
  <2>1. /\ ResolvedStreams(x, y).m2 = m2
        /\ ResolvedStreams(x, y).e = (R(5, 2) \oslash gm1) \oplus (Quarter \otimes Kinetic(d, m1, m2))
    BY DEF ResolvedStreams, d, m1, w, t
  <2>2. /\ Sin(x \oplus x) \in Fraction /\ Exp(SQR(z) \oslash SQR(deck.sigma)) \in Fraction
        /\ deck.amp \in Fraction
    BY TablesAssumption, DeckFacts DEF z
  <2>3. d \otimes deck.amp \in Fraction
    BY <1>9, <2>2, Closed
  <2>4. d \otimes deck.amp \otimes Sin(x \oplus x) \in Fraction
    BY <2>2, <2>3, Closed
  <2>5. m2 \in Fraction
    BY <2>2, <2>4, Closed
  <2> HIDE DEF m2
  <2> DEFINE K == Kinetic(d, m1, m2)
  <2>6. K \in Fraction
    <3>1. SQR(m1) \in Fraction /\ SQR(m2) \in Fraction
      BY <1>9, <2>5, Closed
    <3>2. SQR(m1) \oplus SQR(m2) \in Fraction
      BY <3>1, Closed
    <3> QED BY <3>2, <1>9, Numbers, Comparisons, Closed DEF Kinetic
  <2> HIDE DEF K
  <2>7. Pressure(ResolvedStreams(x, y))
          = gm1 \otimes (((R(5, 2) \oslash gm1) \oplus (Quarter \otimes K)) \ominus (Half \otimes K))
    BY <1>1, <2>1 DEF Pressure, K
  <2>8. Pressure(ResolvedStreams(x, y)) = R(5, 2) \ominus (gm1 \otimes Quarter \otimes K)
    BY <2>6, <2>7, DeckFacts, Numbers, QuarterLeftOut
  <2> QED BY <1>1, <2>1, <2>8 DEF K
<1>12. m1 \oslash d \in Fraction
  BY <1>9, Shares
<1> QED BY <1>1, <1>9, <1>10, <1>11, <1>12 DEF t, s, z

-----------------------------------------------------------------------------
\* What is written for Kelvin-Helmholtz, by the problem.
LEMMA Flow ==
  ASSUME ProfileInv, WrittenKH
  PROVE  \E x \in Xs, y \in Ys, r \in [1 .. 4 -> Draws] :
           /\ cell = <<x, y>>
           /\ deck.iprob = 1 => u = SlipSurface(y, r)
           /\ deck.iprob = 2 => u = ShearLayer(x, y)
           /\ deck.iprob = 3 => u = BeckwithStone(x, y)
           /\ deck.iprob = 4 => u = Lecoanet(x, y)
           /\ deck.iprob = 5 => u = ResolvedStreams(x, y)
BY DEF ProfileInv, KH

LEMMA FlowPressure == ProfileInv => UniformPressure
<1> SUFFICES ASSUME ProfileInv, WrittenKH PROVE UniformPressure
  BY DEF UniformPressure, iprob
<1>1. deck \in KHDecks /\ deck.iprob \in 1 .. 5
  BY DeckFacts DEF WrittenKH
<1>2. PICK x \in Xs, y \in Ys, r \in [1 .. 4 -> Draws] :
         /\ cell = <<x, y>>
         /\ deck.iprob = 1 => u = SlipSurface(y, r)
         /\ deck.iprob = 2 => u = ShearLayer(x, y)
         /\ deck.iprob = 3 => u = BeckwithStone(x, y)
         /\ deck.iprob = 4 => u = Lecoanet(x, y)
         /\ deck.iprob = 5 => u = ResolvedStreams(x, y)
  BY Flow
<1>3. deck.iprob = 1 => Zero \prec u.d /\ Pressure(u) = R(5, 2)
  BY <1>1, <1>2, SlipSurfaceFacts
<1>4. deck.iprob = 2 => Zero \prec u.d /\ Pressure(u) = One
  BY <1>1, <1>2, ShearLayerFacts
<1>5. deck.iprob = 3 => Zero \prec u.d /\ Pressure(u) = One
  BY <1>1, <1>2, BeckwithStoneFacts
<1>6. deck.iprob = 4 => Zero \prec u.d /\ Pressure(u) = R(10, 1)
  BY <1>1, <1>2, LecoanetFacts
<1>7. deck.iprob = 5 =>
        /\ Zero \prec u.d
        /\ Pressure(u) = R(5, 2) \ominus (gm1 \otimes Quarter \otimes Kinetic(u.d, u.m1, u.m2))
  BY <1>1, <1>2, ResolvedStreamsFacts
<1> QED BY <1>1, <1>3, <1>4, <1>5, <1>6, <1>7 DEF UniformPressure, iprob

LEMMA FlowStreams == ProfileInv => StreamsOppose
<1> SUFFICES ASSUME ProfileInv, WrittenKH PROVE StreamsOppose
  BY DEF StreamsOppose
<1>1. deck \in KHDecks /\ deck.iprob \in 1 .. 5
  BY DeckFacts DEF WrittenKH
<1>2. PICK x \in Xs, y \in Ys, r \in [1 .. 4 -> Draws] :
         /\ cell = <<x, y>>
         /\ deck.iprob = 1 => u = SlipSurface(y, r)
         /\ deck.iprob = 2 => u = ShearLayer(x, y)
         /\ deck.iprob = 3 => u = BeckwithStone(x, y)
         /\ deck.iprob = 4 => u = Lecoanet(x, y)
         /\ deck.iprob = 5 => u = ResolvedStreams(x, y)
  BY Flow
<1>3. cell[2] = y
  BY <1>2
<1>4. deck.vflow \in Fraction /\ Zero \in Fraction /\ Minus(deck.vflow) \in Fraction
  BY <1>1, DeckFacts, Closed
<1>5. /\ deck.vflow \oplus Zero = deck.vflow /\ deck.vflow \ominus Zero = deck.vflow
      /\ deck.vflow \preceq deck.vflow /\ Minus(deck.vflow) \preceq Minus(deck.vflow)
  BY <1>4, Field, Sums, Comparisons
<1> DEFINE v == u.m1 \oslash u.d
<1>6. CASE deck.iprob = 1
  <2>1. LET noise == Half \otimes deck.amp
        IN /\ Fabs(v) \preceq deck.vflow \oplus noise
           /\ v \in Fraction
           /\ IF Fabs(y) \prec Quarter
              THEN u.d = deck.drat /\ v \preceq Minus(deck.vflow \ominus noise)
              ELSE u.d = One /\ deck.vflow \ominus noise \preceq v
    BY <1>1, <1>2, <1>6, SlipSurfaceFacts
  <2>2. v \ominus Zero = v
    BY <2>1, Sums
  <2> QED BY <1>3, <1>6, <2>1, <2>2 DEF StreamsOppose, Inside, InsideDensity
<1>7. CASE deck.iprob = 2
  <2>1. /\ u.d = One /\ Fabs(v) \preceq deck.vflow /\ v \in Fraction
        /\ Fabs(Tanh(y \oslash R(1, 50))) = One =>
             v = IF y \prec Zero THEN Minus(deck.vflow) ELSE deck.vflow
    BY <1>1, <1>2, <1>7, ShearLayerFacts
  <2>2. v \ominus Zero = v
    BY <2>1, Sums
  <2> QED BY <1>3, <1>5, <1>7, <2>1, <2>2 DEF StreamsOppose, Layers, Inside, InsideDensity
<1>8. CASE deck.iprob = 3
  <2>1. /\ Fabs(v) \preceq deck.vflow /\ v \in Fraction
        /\ Fabs(Tanh((Fabs(y) \ominus Half) \oslash R(1, 100))) = One =>
             IF Fabs(y) \prec Half THEN u.d = R(1, 100) /\ v = Minus(deck.vflow)
             ELSE u.d = One /\ v = deck.vflow
    BY <1>1, <1>2, <1>8, BeckwithStoneFacts
  <2>2. v \ominus Zero = v
    BY <2>1, Sums
  <2> QED BY <1>3, <1>5, <1>8, <2>1, <2>2 DEF StreamsOppose, Layers, Inside, InsideDensity
<1>9. CASE deck.iprob = 4
  <2>1. Fabs(v \ominus deck.vboost) \preceq deck.vflow
        /\ (Fabs(Tanh((y \ominus z1) \oslash R(1, 20))) = One
            /\ Fabs(Tanh((y \ominus z2) \oslash R(1, 20))) = One =>
              IF Fabs(y) \prec Half
              THEN u.d = One \oplus deck.drho_rho0 /\ v \ominus deck.vboost = deck.vflow
              ELSE u.d = One /\ v \ominus deck.vboost = Minus(deck.vflow))
    BY <1>1, <1>2, <1>9, LecoanetFacts
  <2> QED BY <1>3, <1>5, <1>9, <2>1 DEF StreamsOppose, Layers, Inside, InsideDensity
<1>10. CASE deck.iprob = 5
  <2>1. /\ Fabs(v) \preceq deck.vflow /\ v \in Fraction
        /\ Fabs(Tanh((Fabs(y) \ominus Quarter) \oslash deck.a)) = One =>
             IF Fabs(y) \prec Quarter THEN u.d = deck.drat /\ v = Minus(deck.vflow)
             ELSE u.d = One /\ v = deck.vflow
    BY <1>1, <1>2, <1>10, ResolvedStreamsFacts
  <2>2. v \ominus Zero = v
    BY <2>1, Sums
  <2> QED BY <1>3, <1>5, <1>10, <2>1, <2>2 DEF StreamsOppose, Layers, Inside, InsideDensity
<1> QED BY <1>1, <1>6, <1>7, <1>8, <1>9, <1>10

\* The Kelvin-Helmholtz data of every cell, for every deck and table: positive
\* densities at one pressure, but for the fifth profile whose energy lacks half of
\* its kinetic part, and in all five two opposed streams.
THEOREM FlowSheared == Spec => []ShearFlow
<1>1. ProfileInv => ShearFlow
  BY FlowPressure, FlowStreams DEF ShearFlow
<1> QED BY <1>1, ProfileInductive, PTL

-----------------------------------------------------------------------------
\* The sine averaged with its sample half a domain away is antisymmetric in the
\* shift, whatever the sine.
LEMMA AveSineShifted ==
  ASSUME NEW x \in Xs, Zero \prec x
  PROVE  AveSine(x) \in Fraction /\ AveSine(x \ominus Half) = Minus(AveSine(x))
<1> DEFINE y == x \ominus Half
           a == Sin(x)
           b == Sin(y)
<1>1. Zero \in Fraction /\ Half \in Fraction /\ x \in Fraction /\ x \preceq Half
  BY Numbers, DomainAssumption, Absolute
<1>2. a \in Fraction /\ b \in Fraction
  BY TablesAssumption
<1>3. ~(Zero \prec y) /\ Half \oplus y = x
  <2>1. Half \ominus Half = Zero /\ y \in Fraction
    BY <1>1, Sums, Closed
  <2>2. y \preceq Zero
    <3>1. y \preceq Half \ominus Half
      BY <1>1, Shifted
    <3> QED BY <3>1, <2>1
  <2>3. Half \oplus y = y \oplus Half
    BY <1>1, <2>1, Commuted
  <2>4. y \oplus Half = x
    BY <1>1, Sums
  <2> QED BY <2>1, <2>2, <2>3, <2>4, <1>1, Comparisons
<1>4. AveSine(x) = Half \otimes (a \ominus b)
  BY DEF AveSine
<1>5. AveSine(y) = Half \otimes (b \ominus a)
  BY <1>3 DEF AveSine
<1> HIDE DEF a, b, y
<1>6. b \ominus a = Minus(a \ominus b) /\ a \ominus b \in Fraction
  BY <1>2, Sums, Closed
<1>7. Half \otimes Minus(a \ominus b) = Minus(Half \otimes (a \ominus b))
  BY <1>1, <1>6, Sums
<1>8. Half \otimes (a \ominus b) \in Fraction
  BY <1>1, <1>6, Closed
<1> QED BY <1>4, <1>5, <1>6, <1>7, <1>8 DEF y

\* Reflected, the two interfaces change places.
LEMMA InterfacesSwap ==
  ASSUME NEW y \in Ys
  PROVE  /\ y \ominus z1 \in Fraction /\ y \ominus z2 \in Fraction
         /\ Minus(y) \ominus z1 = Minus(y \ominus z2) /\ Minus(y) \ominus z2 = Minus(y \ominus z1)
<1>1. y \in Fraction /\ Half \in Fraction /\ z1 \in Fraction /\ z2 \in Fraction
  BY TanhArgumentsOf, Numbers
<1>2. Minus(y) \in Fraction
  BY <1>1, Closed
<1>3. Minus(y) \ominus Minus(Half) = Half \ominus y /\ Minus(y \ominus Half) = Half \ominus y
  BY <1>1, Sums
<1>4. Minus(y) \ominus Half = Minus(y \oplus Half) /\ y \ominus Minus(Half) = y \oplus Half
  BY <1>1, Sums
<1>5. y \ominus z1 \in Fraction /\ y \ominus z2 \in Fraction
  BY <1>1, Closed
<1> QED BY <1>3, <1>4, <1>5 DEF z1, z2

LEMMA LecoanetReflected ==
  ASSUME deck \in KHDecks, NEW x \in Xs, NEW y \in Ys, Zero \prec x
  PROVE  Lecoanet(x \ominus Half, Minus(y)) = [Lecoanet(x, y) EXCEPT !.m2 = Minus(@)]
<1> DEFINE y1 == y \ominus z1
           y2 == y \ominus z2
           a == y1 \oslash R(1, 20)
           b == y2 \oslash R(1, 20)
           E(v) == Exp(SQR(v) \oslash R(1, 25))
           T(v) == Tanh(v \oslash R(1, 20))
           dens(t) == One \oplus (Half \otimes deck.drho_rho0 \otimes t)
           v1(t) == (deck.vflow \otimes (t \ominus One)) \oplus deck.vboost
           C(t, s, e) == Cell(dens(t), v1(t) \otimes dens(t),
                              (Minus(deck.amp) \otimes s \otimes e) \otimes dens(t), R(10, 1))
           y0 == Minus(y)
           w1 == y0 \ominus z1
           w2 == y0 \ominus z2
           x0 == x \ominus Half
<1>1. Lecoanet(x, y) = C(T(y1) \ominus T(y2), AveSine(x), E(y1) \oplus E(y2))
  BY DEF Lecoanet
<1>2. Lecoanet(x0, y0) = C(T(w1) \ominus T(w2), AveSine(x0), E(w1) \oplus E(w2))
  BY DEF Lecoanet
<1>3. w1 = Minus(y2) /\ w2 = Minus(y1) /\ y1 \in Fraction /\ y2 \in Fraction
  BY InterfacesSwap
<1>4. AveSine(x) \in Fraction /\ AveSine(x0) = Minus(AveSine(x))
  BY AveSineShifted
<1>5. T(y1) = Tanh(a) /\ T(y2) = Tanh(b) /\ a \in TanhArguments /\ b \in TanhArguments
  BY TanhArgumentsOf
<1>6. E(y1) \in Fraction /\ E(y2) \in Fraction
  BY TablesAssumption
<1> HIDE DEF C, y1, y2, w1, w2, x0, y0
<1>7. T(w1) \ominus T(w2) = T(y1) \ominus T(y2) /\ T(y1) \ominus T(y2) \in Fraction
  <2>1. w1 \oslash R(1, 20) = Minus(b) /\ w2 \oslash R(1, 20) = Minus(a)
    BY <1>3, Numbers, Quotients, Comparisons
  <2>2. T(w1) = Minus(T(y2)) /\ T(w2) = Minus(T(y1)) /\ T(y1) \in Fraction /\ T(y2) \in Fraction
    BY <2>1, <1>5, TanhFacts
  <2> HIDE DEF T
  <2> QED BY <2>2, Sums, Closed
<1>8. E(w1) \oplus E(w2) = E(y1) \oplus E(y2) /\ E(y1) \oplus E(y2) \in Fraction
  <2>1. E(w1) = E(y2) /\ E(w2) = E(y1)
    BY <1>3, Sums
  <2> HIDE DEF E
  <2> QED BY <2>1, <1>6, Commuted, Closed
<1> DEFINE t == T(y1) \ominus T(y2)
           s == AveSine(x)
           e == E(y1) \oplus E(y2)
<1>9. Lecoanet(x, y) = C(t, s, e) /\ Lecoanet(x0, y0) = C(t, Minus(s), e)
  BY <1>1, <1>2, <1>4, <1>7, <1>8
<1>10. t \in Fraction /\ s \in Fraction /\ e \in Fraction
  BY <1>4, <1>7, <1>8
<1> HIDE DEF t, s, e
<1>11. C(t, Minus(s), e) = [C(t, s, e) EXCEPT !.m2 = Minus(@)]
  <2> DEFINE d == dens(t)
             m1 == v1(t) \otimes d
             m2 == (Minus(deck.amp) \otimes s \otimes e) \otimes d
             n2 == (Minus(deck.amp) \otimes Minus(s) \otimes e) \otimes d
  <2>1. deck.amp \in Fraction /\ deck.drho_rho0 \in Fraction /\ Half \in Fraction /\ One \in Fraction
    BY DeckFacts, Numbers
  <2>2. Half \otimes deck.drho_rho0 \in Fraction
    BY <2>1, Closed
  <2>3. Half \otimes deck.drho_rho0 \otimes t \in Fraction
    BY <2>2, <1>10, Closed
  <2>4. d \in Fraction
    BY <2>1, <2>3, Closed
  <2>5. C(t, s, e) = Cell(d, m1, m2, R(10, 1)) /\ C(t, Minus(s), e) = Cell(d, m1, n2, R(10, 1))
    BY DEF C
  <2> HIDE DEF d, m1
  <2>6. n2 = Minus(m2) /\ m2 \in Fraction
    <3> DEFINE p == Minus(deck.amp) \otimes s
    <3>1. Minus(deck.amp) \in Fraction
      BY <2>1, Closed
    <3>2. p \in Fraction /\ Minus(deck.amp) \otimes Minus(s) = Minus(p)
      BY <3>1, <1>10, Closed, Sums
    <3> HIDE DEF p
    <3>3. p \otimes e \in Fraction /\ Minus(p) \otimes e = Minus(p \otimes e)
      BY <3>2, <1>10, Closed, Sums
    <3>4. (p \otimes e) \otimes d \in Fraction /\ Minus(p \otimes e) \otimes d
              = Minus((p \otimes e) \otimes d)
      BY <3>3, <2>4, Closed, Sums
    <3> QED BY <3>2, <3>3, <3>4 DEF p
  <2> HIDE DEF m2, n2
  <2>7. SQR(Minus(m2)) = SQR(m2)
    BY <2>6, Sums
  <2> QED BY <2>5, <2>6, <2>7 DEF Cell, Kinetic
<1> QED BY <1>9, <1>11 DEF x0, y0

\* iprob=4 shifted by half the domain and reflected is its own mirror image, for
\* every sine and exponential and every odd tanh.
THEOREM FlowReflected == Spec => []ReflectShift
<1>1. ProfileInv => ReflectShift
  <2> SUFFICES ASSUME ProfileInv, iprob(4), Zero \prec cell[1] PROVE ReflectShift
    BY DEF ReflectShift
  <2>1. WrittenKH /\ deck.iprob = 4 /\ deck \in KHDecks
    BY DEF iprob, WrittenKH
  <2>2. PICK x \in Xs, y \in Ys : cell = <<x, y>> /\ u = Lecoanet(x, y)
    BY <2>1, Flow
  <2>3. cell[1] = x /\ cell[2] = y
    BY <2>2
  <2>4. Lecoanet(x \ominus Half, Minus(y)) = [Lecoanet(x, y) EXCEPT !.m2 = Minus(@)]
    BY <2>1, <2>3, LecoanetReflected
  <2> QED BY <2>2, <2>3, <2>4 DEF ReflectShift
<1> QED BY <1>1, ProfileInductive, PTL

-----------------------------------------------------------------------------
RampAt(rad) ==
  IF rad \prec rin THEN Zero
  ELSE IF rad \prec rout THEN (rad \ominus rin) \oslash (rout \ominus rin) ELSE One

\* Between the radii the ramp is the share of the way.
LEMMA RampShare ==
  ASSUME rin \in Fraction, rout \in Fraction,
         NEW r \in Fraction, ~(r \prec rin), r \prec rout
  PROVE  /\ RampAt(r) \in Fraction /\ Zero \preceq RampAt(r) /\ RampAt(r) \preceq One
         /\ \A s \in Fraction : ~(s \prec rin) /\ s \preceq r => RampAt(s) \preceq RampAt(r)
<1> DEFINE w == rout \ominus rin
<1>1. RampAt(r) = (r \ominus rin) \oslash w
  BY DEF RampAt
<1>2. w \in Fraction /\ Zero \prec w /\ r \ominus rin \in Fraction
  <2>1. rin \prec rout
    BY Comparisons
  <2> QED BY <2>1, Ordered, Closed
<1>3. Zero \in Fraction /\ One \in Fraction /\ One \otimes w = w /\ Zero \otimes w = Zero
  BY <1>2, Numbers, Sums
<1>4. Zero \preceq r \ominus rin
  <2>1. rin \preceq r
    BY Comparisons
  <2> QED BY <2>1, Comparisons
<1>5. r \ominus rin \preceq w
  <2>1. r \preceq rout
    BY Comparisons
  <2> QED BY <2>1, Shifted
<1>6. ASSUME NEW s \in Fraction, ~(s \prec rin), s \preceq r PROVE RampAt(s) \preceq RampAt(r)
  <2>1. s \prec rout
    BY <1>6, Comparisons
  <2>2. RampAt(s) = (s \ominus rin) \oslash w
    BY <1>6, <2>1 DEF RampAt
  <2>3. s \ominus rin \preceq r \ominus rin /\ s \ominus rin \in Fraction
    BY <1>6, Shifted, Closed
  <2> HIDE DEF w
  <2> QED BY <1>1, <1>2, <2>2, <2>3, Shares
<1> HIDE DEF w
<1>7. (r \ominus rin) \oslash w \in Fraction /\ Zero \preceq (r \ominus rin) \oslash w
  BY <1>2, <1>3, <1>4, Shares
<1>8. (r \ominus rin) \oslash w \preceq One
  BY <1>2, <1>3, <1>5, Shares
<1> QED BY <1>1, <1>6, <1>7, <1>8

\* The ramp rises from zero to one.
LEMMA RampRises ==
  ASSUME deck \in BlastDecks, NEW r \in Fraction
  PROVE  /\ RampAt(r) \in Fraction /\ Zero \preceq RampAt(r) /\ RampAt(r) \preceq One
         /\ rout \preceq r => RampAt(r) = One
         /\ \A s \in Fraction : s \preceq r => RampAt(s) \preceq RampAt(r)
<1>1. Zero \in Fraction /\ One \in Fraction /\ Zero \preceq One /\ Zero \preceq Zero /\ One \preceq One
  BY Numbers, Comparisons
<1>2. rout \in Fraction
  BY ProfilesAssumption DEF rout
<1>3. rin \in Fraction /\ rin \preceq rout
  <2>1. CASE deck.radius_inner = None
    <3>1. rin = Zero
      BY <2>1, <1>2, Sums DEF rin
    <3>2. Zero \preceq rout
      BY ProfilesAssumption DEF rout
    <3> QED BY <3>1, <3>2, <1>1
  <2>2. CASE deck.radius_inner # None
    <3>1. rin = rout \ominus deck.radius_inner
      BY <2>2 DEF rin
    <3>2. deck.radius_inner \in Fraction /\ Zero \preceq deck.radius_inner
      BY <2>2, ProfilesAssumption
    <3>3. rout \ominus deck.radius_inner \preceq rout \ominus Zero /\ rout \ominus Zero = rout
      BY <1>1, <1>2, <3>2, Shifted, Sums
    <3> QED BY <1>2, <3>1, <3>2, <3>3, Closed
  <2> QED BY <2>1, <2>2
<1>4. ASSUME NEW q \in Fraction, q \prec rin PROVE RampAt(q) = Zero
  BY <1>4 DEF RampAt
<1>5. ASSUME NEW q \in Fraction, rout \preceq q PROVE RampAt(q) = One /\ ~(q \prec rin)
  <2>1. ~(q \prec rin) /\ ~(q \prec rout)
    BY <1>2, <1>3, <1>5, Comparisons
  <2> QED BY <2>1 DEF RampAt
<1>6. CASE r \prec rin
  <2>1. \A s \in Fraction : s \preceq r => s \prec rin
    BY <1>3, <1>6, Comparisons
  <2>2. ~(rout \preceq r)
    BY <1>5, <1>6
  <2> QED BY <1>1, <1>4, <1>6, <2>1, <2>2
<1>7. CASE rout \preceq r
  <2>1. RampAt(r) = One
    BY <1>5, <1>7
  <2>2. ASSUME NEW s \in Fraction PROVE RampAt(s) \preceq One
    <3>1. CASE s \prec rin
      BY <3>1, <1>1, <1>4
    <3>2. CASE rout \preceq s
      BY <3>2, <1>1, <1>5
    <3>3. CASE ~(s \prec rin) /\ s \prec rout
      BY <3>3, <1>2, <1>3, RampShare
    <3>4. rout \preceq s \/ s \prec rout
      BY <1>2, Comparisons
    <3> QED BY <3>1, <3>2, <3>3, <3>4
  <2> QED BY <2>1, <2>2, <1>1
<1>8. CASE ~(r \prec rin) /\ r \prec rout
  <2>1. ~(rout \preceq r)
    BY <1>2, <1>8, Comparisons
  <2>2. RampAt(r) \in Fraction /\ Zero \preceq RampAt(r) /\ RampAt(r) \preceq One
    BY <1>2, <1>3, <1>8, RampShare
  <2>3. ASSUME NEW s \in Fraction, s \preceq r PROVE RampAt(s) \preceq RampAt(r)
    <3>1. CASE s \prec rin
      BY <3>1, <2>2, <1>4
    <3>2. CASE ~(s \prec rin)
      BY <3>2, <2>3, <1>2, <1>3, <1>8, RampShare
    <3> QED BY <3>1, <3>2
  <2> QED BY <2>1, <2>2, <2>3
<1>9. rout \preceq r \/ r \prec rout
  BY <1>2, Comparisons
<1> QED BY <1>6, <1>7, <1>8, <1>9

LEMMA BlastFacts ==
  ASSUME deck \in BlastDecks, NEW o \in Offsets
  PROVE  LET f == RampAt(Radius(o))
             mix(inner, outer) == ((One \ominus f) \otimes Log(inner)) \oplus (f \otimes Log(outer))
         IN /\ Radius(o) \in Fraction
            /\ BlastCell(o).log_den = mix(deck.drat \otimes deck.damb, deck.damb)
            /\ BlastCell(o).log_pres = mix(deck.prat \otimes deck.pamb, deck.pamb)
BY TablesAssumption DEF BlastCell, RampAt, Radius

\* The pressure of the blast never rises outward and ends at the ambient one.
THEOREM BlastFalls == Spec => []RampFalls
<1>1. ProfileInv => RampFalls
  <2> SUFFICES ASSUME ProfileInv, Written, deck \in BlastDecks PROVE RampFalls
    BY DEF RampFalls
  <2> DEFINE hot == Log(deck.prat \otimes deck.pamb)
             low == Log(deck.pamb)
             f == RampAt(Radius(cell))
  <2>1. cell \in Offsets /\ u = BlastCell(cell)
    BY DEF ProfileInv
  <2>2. /\ hot \in Fraction /\ low \in Fraction /\ low \preceq hot /\ One \in Fraction
        /\ Log(deck.damb) \in Fraction /\ Log(deck.drat \otimes deck.damb) \in Fraction
    BY ProfilesAssumption, Numbers
  <2>3. /\ Radius(cell) \in Fraction
        /\ u.log_den = ((One \ominus f) \otimes Log(deck.drat \otimes deck.damb))
               \oplus (f \otimes Log(deck.damb))
        /\ u.log_pres = ((One \ominus f) \otimes hot) \oplus (f \otimes low)
    BY <2>1, BlastFacts
  <2>4. /\ f \in Fraction /\ Zero \preceq f /\ f \preceq One
        /\ rout \preceq Radius(cell) => f = One
        /\ \A s \in Fraction : s \preceq Radius(cell) => RampAt(s) \preceq f
    BY <2>3, RampRises
  <2> HIDE DEF hot, low
  <2>5. low \preceq u.log_pres /\ u.log_pres \preceq hot
    BY <2>2, <2>3, <2>4, Mean
  <2>6. rout \preceq Radius(cell) => u.log_pres = low /\ u.log_den = Log(deck.damb)
    <3> HAVE rout \preceq Radius(cell)
    <3>1. One \ominus One = Zero /\ f = One
      BY <2>2, <2>4, Sums
    <3>2. Zero \otimes hot = Zero /\ One \otimes low = low /\ Zero \oplus low = low
      BY <2>2, Sums
    <3>3. /\ Zero \otimes Log(deck.drat \otimes deck.damb) = Zero
          /\ One \otimes Log(deck.damb) = Log(deck.damb) /\ Zero \oplus Log(deck.damb) = Log(deck.damb)
      BY <2>2, Sums
    <3> QED BY <3>1, <3>2, <3>3, <2>3
  <2>7. ASSUME NEW o \in Offsets, Radius(o) \prec Radius(cell)
        PROVE  u.log_pres \preceq BlastCell(o).log_pres
    <3> DEFINE g == RampAt(Radius(o))
    <3>1. /\ Radius(o) \in Fraction
          /\ BlastCell(o).log_pres = ((One \ominus g) \otimes hot) \oplus (g \otimes low)
      BY BlastFacts DEF hot, low
    <3>2. g \in Fraction /\ g \preceq f
      BY <3>1, <2>3, <2>4, <2>7, RampRises, Comparisons
    <3> HIDE DEF f, g
    <3> QED BY <3>1, <3>2, <2>2, <2>3, <2>4, Mean
  <2> QED BY <2>5, <2>6, <2>7 DEF RampFalls, hot, low
<1> QED BY <1>1, ProfileInductive, PTL

-----------------------------------------------------------------------------
\* What InitUserMeshData makes of the deck.
WaveMade ==
  LET a == Angles(deck)
      es == Eigensystem(deck.vflow, Enthalpy, gm1)
  IN [angles |-> a, lambda |-> Lambda(deck, a), ev |-> es.ev, rem |-> es.rem]

\* The globals of the wave are the deck's from the first callback on, and the data
\* that enters the loop is the generator's.
WaveInv ==
  /\ deck \in KHDecks \cup BlastDecks \cup WaveDecks
  /\ deck \notin WaveDecks => wave = None
  /\ deck \in WaveDecks /\ pc # "InitUserMeshData" => wave = WaveMade
  /\ deck \in WaveDecks /\ pc = "Execute" => u = [c \in Cells |-> Generated(Center(c))]

LEMMA WaveInit == Init => WaveInv
BY DecksAssumption DEF Init, InitProfile, InitWave, WaveInv

LEMMA WaveStep == WaveInv /\ [Next]_vars => WaveInv'
<1> SUFFICES ASSUME WaveInv, [Next]_vars PROVE WaveInv'
  OBVIOUS
<1> USE DEF WaveInv
<1>1. deck' = deck
  BY DEF Next, vars, Generate, GenerateKH, GenerateBlast, NextWave, InitUserMeshData,
         ProblemGenerator, Execute, SumErrors, Reduce, WriteRow
<1>2. WaveMade' = WaveMade /\ Cells' = Cells /\ \A c : Center(c)' = Center(c)
  BY <1>1 DEF WaveMade, Enthalpy, E0, p0, gm1, Cells, Size3, Center
<1>3. CASE deck \notin WaveDecks
  BY <1>1, <1>3 DEF Next, vars, Generate, GenerateKH, GenerateBlast
<1>4. CASE deck \in WaveDecks /\ InitUserMeshData
  BY <1>1, <1>2, <1>4 DEF InitUserMeshData, WaveMade
<1>5. CASE deck \in WaveDecks /\ ProblemGenerator
  <2>1. \A x : Generated(x)' = Generated(x)
    BY <1>1, <1>5 DEF ProblemGenerator, Generated, Turns, E0, p0, gm1
  <2>2. wave' = wave /\ pc' = "Execute" /\ u' = [c \in Cells |-> Generated(Center(c))]
    BY <1>5 DEF ProblemGenerator
  <2>3. [c \in Cells |-> Generated(Center(c))]' = [c \in Cells |-> Generated(Center(c))]
    BY <1>2, <2>1
  <2> QED BY <1>1, <1>2, <1>5, <2>2, <2>3 DEF ProblemGenerator
<1>6. CASE deck \in WaveDecks /\ Execute
  BY <1>1, <1>2, <1>6 DEF Execute
<1>8. CASE /\ deck \in WaveDecks
           /\ \/ \E c \in Cells : SumErrors(c)
              \/ \E r, s \in Ranks : Reduce(r, s)
              \/ \E r \in Ranks : WriteRow(r)
  BY <1>1, <1>2, <1>8 DEF Reduce, SumErrors, WriteRow
<1>7. CASE UNCHANGED vars
  <2>1. \A x : Generated(x)' = Generated(x)
    BY <1>1, <1>7 DEF vars, Generated, Turns, E0, p0, gm1
  <2>2. [c \in Cells |-> Generated(Center(c))]' = [c \in Cells |-> Generated(Center(c))]
    BY <1>2, <2>1
  <2> QED BY <1>1, <1>2, <1>7, <2>2 DEF vars
<1> QED BY <1>3, <1>4, <1>5, <1>6, <1>7, <1>8, DecksAssumption DEF Next, NextWave

THEOREM WaveInductive == Spec => []WaveInv
BY WaveInit, WaveStep, PTL DEF Spec

-----------------------------------------------------------------------------
\* The denominator of a whole number is one.
LEMMA WholeNumber ==
  ASSUME NEW x, NEW n, Over(x, n, 1)
  PROVE  x[2] = 1
<1>1. x \in Fraction /\ n \in Int /\ x[1] = x[2] * n /\ x[2] \in Pos /\ x[2] = x[2] * 1
  <2>1. x \in Fraction /\ n \in Int /\ x[1] * 1
            = n * x[2] /\ x[1] \in Int /\ x[2] \in Int /\ x[2] \in Pos
    BY OverParts
  <2> QED BY <2>1
<1> QED BY <1>1, Coprime

LEMMA Wholes ==
  /\ Zero[2] = 1 /\ One[2] = 1 /\ (One \oplus One)[2] = 1
  /\ One \oplus One \in Fraction /\ One \oplus One # Zero
<1>1. 1 \in Pos
  BY DEF Pos
<1>2. Over(Zero, 0, 1) /\ Over(One, 1, 1)
  BY <1>1, OverConstants
<1>3. Over(One \oplus One, 1 + 1, 1)
  BY <1>2, OverPlus
<1>4. One \oplus One # Zero
  BY <1>2, <1>3, OverEqual
<1> QED BY <1>2, <1>3, <1>4, WholeNumber, OverParts

LEMMA PositiveTimes ==
  ASSUME NEW x \in Fraction, NEW y \in Fraction, Zero \prec x, Zero \prec y
  PROVE  x \otimes y \in Fraction /\ Zero \prec x \otimes y /\ x \otimes y # Zero
BY Ordered, Closed

\* Half of what is positive, and how often it fits.
LEMMA Halved ==
  ASSUME NEW x \in Fraction, Zero \prec x
  PROVE  /\ Half \otimes x \in Fraction /\ Zero \prec Half \otimes x /\ Half \otimes x \prec x
         /\ Half \otimes (x \oplus x) = x /\ x # Zero /\ Half \otimes x # Zero
         /\ x \oslash x = One /\ Zero \oslash x = Zero
         /\ (Half \otimes x) \oslash x = Half /\ x \oslash (Half \otimes x) = One \oplus One
         /\ Zero \oslash (Half \otimes x) = Zero /\ (Half \otimes x) \oslash (Half \otimes x) = One
<1> DEFINE h == Half \otimes x
<1>1. Half \in Fraction /\ Zero \in Fraction /\ One \in Fraction /\ Zero \prec Half /\ Half \prec One
  BY Numbers, Comparisons
<1>2. h \in Fraction /\ x # Zero /\ Zero \prec h
  BY <1>1, Closed, Ordered
<1>3. h \oplus h = x /\ Half \otimes (x \oplus x) = x
  <2>1. x \otimes (Half \oplus Half) = (x \otimes Half) \oplus (x \otimes Half)
    BY <1>1, Field
  <2>2. x \otimes Half = h /\ x \otimes One = x
    BY <1>1, Commuted, Field
  <2>3. Half \otimes (x \oplus x) = (Half \otimes x) \oplus (Half \otimes x)
    BY <1>1, Field
  <2> QED BY <2>1, <2>2, <2>3, Numbers
<1> HIDE DEF h
<1>4. h \prec x
  <2>1. Zero \oplus h \prec h \oplus h
    BY <1>1, <1>2, Ordered
  <2> QED BY <2>1, <1>2, <1>3, Sums
<1>5. h \oslash x = Half
  <2>1. (Half \otimes x) \oslash x = Half
    BY <1>1, <1>2, Quotients
  <2> QED BY <2>1 DEF h
<1>6. h # Zero
  BY <1>1, <1>2, Comparisons
<1>7. x \oslash h = One \oplus One
  <2>1. h \otimes (One \oplus One) = (h \otimes One) \oplus (h \otimes One)
    BY <1>1, <1>2, Field
  <2>2. h \otimes One = h
    BY <1>1, <1>2, Field
  <2>3. h \otimes (One \oplus One) = x
    BY <2>1, <2>2, <1>3
  <2>4. (h \otimes (One \oplus One)) \oslash h = One \oplus One
    BY <1>2, <1>6, Wholes, Quotients
  <2> QED BY <2>3, <2>4
<1>8. x \oslash x = One /\ Zero \oslash x = Zero /\ Zero \oslash h = Zero /\ h \oslash h = One
  BY <1>2, <1>6, Quotients
<1> QED BY <1>2, <1>3, <1>4, <1>5, <1>6, <1>7, <1>8 DEF h

\* How far the wave vector reaches along each side of the mesh.
Reach(d) == [n \in Dirs |-> d.size[n] \otimes Normal(Angles(d))[n]]

\* Along x1 and x2 the wave is tilted to both alike, or along one of them.
LEMMA InPlane ==
  ASSUME NEW d \in WaveDecks, ~OwnAngle(d.ang_3)
  PROVE  LET a == Angle3(d)
             p == d.size[1] \otimes a.cos
             q == d.size[2] \otimes a.sin
         IN /\ a.sin \in Fraction /\ a.cos \in Fraction /\ p \in Fraction /\ q \in Fraction
            /\ \/ d.ang_3_vert /\ p = Zero /\ Zero \prec q /\ a.sin # Zero
               \/ ~d.ang_3_vert /\ d.ang_3 = None /\ p = q /\ Zero \prec p /\ a.sin # Zero
               \/ ~d.ang_3_vert /\ d.ang_3 # None /\ q = Zero /\ Zero \prec p /\ a.sin = Zero
<1> DEFINE a == Angle3(d)
           s1 == d.size[1]
           s2 == d.size[2]
           t == s1 \oslash s2
<1>1. Zero \in Fraction /\ One \in Fraction /\ One # Zero
  BY Numbers
<1>2. s1 \in Fraction /\ s2 \in Fraction /\ Zero \prec s1 /\ Zero \prec s2 /\ s2 # Zero
  BY <1>1, WaveAssumption, Comparisons DEF Dirs
<1>3. CASE d.ang_3_vert
  <2>1. a.sin = One /\ a.cos = Zero
    BY <1>3 DEF Angle3, Vertical
  <2>2. s1 \otimes Zero = Zero /\ s2 \otimes One = s2
    BY <1>1, <1>2, Sums, Field
  <2> QED BY <1>1, <1>2, <1>3, <2>1, <2>2
<1>4. CASE ~d.ang_3_vert /\ d.ang_3 = None
  <2>1. a.sin \in Fraction /\ a.cos \in Fraction /\ Zero \prec a.cos /\ a.sin = t \otimes a.cos
    BY <1>4, AtanAssumption DEF Angle3, Slope3, IsAtan, IsAngle
  <2>2. t \in Fraction /\ s2 \otimes t = s1
    BY <1>2, Quotients
  <2> HIDE DEF t, a
  <2>3. s2 \otimes a.sin = s1 \otimes a.cos
    BY <1>2, <2>1, <2>2, Field
  <2>4. Zero \prec s1 \otimes a.cos /\ s1 \otimes a.cos \in Fraction
    BY <1>2, <2>1, PositiveTimes
  <2>5. a.sin # Zero
    <3>1. s2 \otimes Zero = Zero
      BY <1>2, Sums
    <3> QED BY <3>1, <2>3, <2>4, <1>1, Comparisons
  <2> QED BY <1>4, <2>1, <2>3, <2>4, <2>5 DEF a
<1>5. CASE ~d.ang_3_vert /\ d.ang_3 # None
  <2>1. a = d.ang_3
    BY <1>5 DEF Angle3
  <2>2. a.sin = Zero /\ a.cos \in Fraction /\ Zero \prec a.cos
    BY <1>5, <2>1, WaveAssumption DEF OwnAngle, IsAngle
  <2>3. s2 \otimes Zero = Zero /\ Zero \prec s1 \otimes a.cos /\ s1 \otimes a.cos \in Fraction
    BY <1>1, <1>2, <2>2, Sums, PositiveTimes
  <2> QED BY <1>1, <1>5, <2>2, <2>3
<1> QED BY <1>3, <1>4, <1>5

\* Out of the plane: vertical, flat, or tilted to half the sum of the others.
LEMMA OutOfPlane ==
  ASSUME NEW d \in WaveDecks, ~OwnAngle(d.ang_2), ~OwnAngle(d.ang_3)
  PROVE  LET a == Angle2(d)
             p == d.size[1] \otimes Angle3(d).cos
             q == d.size[2] \otimes Angle3(d).sin
             x == Reach(d)
         IN /\ a.sin \in Fraction /\ a.cos \in Fraction
            /\ x[1] = p \otimes a.cos /\ x[2] = q \otimes a.cos
            /\ \/ d.ang_2_vert /\ a.cos = Zero /\ x[3] = d.size[3]
               \/ ~d.ang_2_vert /\ d.ang_2 # None /\ Zero \prec a.cos /\ a.sin = Zero /\ x[3] = Zero
               \/ ~d.ang_2_vert /\ d.ang_2 = None /\ Zero \prec a.cos /\ a.sin # Zero
                    /\ x[3] = (Half \otimes (p \oplus q)) \otimes a.cos
<1> DEFINE a == Angle2(d)
           b == Angle3(d)
           s1 == d.size[1]
           s2 == d.size[2]
           s3 == d.size[3]
           p == s1 \otimes b.cos
           q == s2 \otimes b.sin
           h == Half \otimes (p \oplus q)
           t == h \oslash s3
<1>1. Zero \in Fraction /\ One \in Fraction /\ Half \in Fraction /\ One # Zero
  BY Numbers
<1>2. /\ s1 \in Fraction /\ s2 \in Fraction /\ s3 \in Fraction
      /\ Zero \prec s1 /\ Zero \prec s2 /\ Zero \prec s3 /\ s3 # Zero
  BY <1>1, WaveAssumption, Comparisons DEF Dirs
<1>3. /\ b.sin \in Fraction /\ b.cos \in Fraction /\ p \in Fraction /\ q \in Fraction
      /\ \/ p = Zero /\ Zero \prec q
         \/ q = Zero /\ Zero \prec p
         \/ p = q /\ Zero \prec p
  BY InPlane
<1>4. p \oplus q \in Fraction /\ Zero \prec p \oplus q
  <2>1. p \oplus q \in Fraction /\ p \oplus Zero = p /\ Zero \oplus q = q /\ q \oplus p = p \oplus q
    BY <1>1, <1>3, Closed, Field, Sums
  <2>2. CASE p = Zero /\ Zero \prec q
    BY <2>1, <2>2
  <2>3. CASE q = Zero /\ Zero \prec p
    BY <2>1, <2>3
  <2>4. CASE p = q /\ Zero \prec p
    <3>1. p \oplus Zero \preceq p \oplus q
      BY <1>1, <1>3, <2>4, Shifted, Comparisons
    <3> QED BY <3>1, <2>1, <2>4, <1>1, <1>3, Comparisons
  <2> QED BY <2>2, <2>3, <2>4, <1>3
<1>5. h \in Fraction /\ Zero \prec h
  BY <1>4, Halved
<1>6. Reach(d)[1] = s1 \otimes (a.cos \otimes b.cos) /\ Reach(d)[2] = s2 \otimes (a.cos \otimes b.sin)
      /\ Reach(d)[3] = s3 \otimes a.sin
  BY DEF Reach, Normal, Angles, Dirs
<1> HIDE DEF b, p, q, h
<1>7. ASSUME a.cos \in Fraction
      PROVE  Reach(d)[1] = p \otimes a.cos /\ Reach(d)[2] = q \otimes a.cos
  <2>1. a.cos \otimes b.cos = b.cos \otimes a.cos /\ a.cos \otimes b.sin = b.sin \otimes a.cos
    BY <1>3, <1>7, Commuted
  <2>2. s1 \otimes (b.cos \otimes a.cos) = p \otimes a.cos
    BY <1>2, <1>3, <1>7, Field DEF p
  <2>3. s2 \otimes (b.sin \otimes a.cos) = q \otimes a.cos
    BY <1>2, <1>3, <1>7, Field DEF q
  <2> QED BY <1>6, <2>1, <2>2, <2>3
<1>8. CASE d.ang_2_vert
  <2>1. a.sin = One /\ a.cos = Zero
    BY <1>8 DEF Angle2, Vertical
  <2>2. s3 \otimes One = s3
    BY <1>1, <1>2, Field
  <2> QED BY <1>1, <1>6, <1>7, <1>8, <2>1, <2>2 DEF p, q, b
<1>9. CASE ~d.ang_2_vert /\ d.ang_2 # None
  <2>1. a = d.ang_2
    BY <1>9 DEF Angle2
  <2>2. a.sin = Zero /\ a.cos \in Fraction /\ Zero \prec a.cos
    BY <1>9, <2>1, WaveAssumption DEF OwnAngle, IsAngle
  <2>3. s3 \otimes Zero = Zero
    BY <1>2, Sums
  <2> QED BY <1>1, <1>6, <1>7, <1>9, <2>2, <2>3 DEF p, q, b
<1>10. CASE ~d.ang_2_vert /\ d.ang_2 = None
  <2>1. t = Slope2(d)
    BY DEF t, h, p, q, b, Slope2
  <2>2. a.sin \in Fraction /\ a.cos \in Fraction /\ Zero \prec a.cos /\ a.sin = t \otimes a.cos
    BY <1>10, <2>1, AtanAssumption DEF Angle2, IsAtan, IsAngle
  <2>3. t \in Fraction /\ s3 \otimes t = h
    BY <1>2, <1>5, Quotients
  <2> HIDE DEF t, a
  <2>4. s3 \otimes a.sin = h \otimes a.cos
    BY <1>2, <2>2, <2>3, Field
  <2>5. Zero \prec h \otimes a.cos /\ h \otimes a.cos \in Fraction
    BY <1>5, <2>2, PositiveTimes
  <2>6. a.sin # Zero
    <3>1. s3 \otimes Zero = Zero
      BY <1>2, Sums
    <3> QED BY <3>1, <2>4, <2>5, <1>1, Comparisons
  <2>7. Reach(d)[1] = p \otimes a.cos /\ Reach(d)[2] = q \otimes a.cos
    BY <1>7, <2>2 DEF a
  <2> QED BY <1>6, <1>10, <2>2, <2>4, <2>6, <2>7 DEF a, p, q, b, h
<1> QED BY <1>8, <1>9, <1>10

\* The wavelength is one a resolved direction asks for, and a whole wave fits each.
LEMMA WavesFit ==
  ASSUME NEW d \in WaveDecks, ~OwnAngle(d.ang_2), ~OwnAngle(d.ang_3)
  PROVE  LET x == Reach(d)
             l == Lambda(d, Angles(d))
             tilted == d.ang_3_vert /\ ~d.ang_2_vert /\ d.ang_2 = None
         IN /\ Zero \prec l
            /\ \A n \in Dirs : d.nx[n] > 1 =>
                 /\ IF tilted /\ n = 3 THEN x[n] \oslash l = Half ELSE (x[n] \oslash l)[2] = 1
                 /\ d.ang_2 = None /\ d.ang_3 = None /\ ~d.ang_2_vert /\ ~d.ang_3_vert
                      => x[n] \oslash l = One
<1> DEFINE a == Angle2(d)
           b == Angle3(d)
           p == d.size[1] \otimes b.cos
           q == d.size[2] \otimes b.sin
           x == Reach(d)
           l == Lambda(d, Angles(d))
           y == IF d.nx[2] > 1 /\ b.sin # Zero THEN Min2(x[1], x[2]) ELSE x[1]
           z == IF d.nx[3] > 1 /\ a.sin # Zero THEN Min2(y, x[3]) ELSE y
           h == Half \otimes (p \oplus q)
<1>1. l = IF d.ang_2_vert THEN x[3] ELSE IF d.ang_3_vert THEN x[2] ELSE z
  BY DEF Lambda, Reach, Angles
<1>2. /\ b.sin \in Fraction /\ b.cos \in Fraction /\ p \in Fraction /\ q \in Fraction
      /\ \/ d.ang_3_vert /\ p = Zero /\ Zero \prec q /\ b.sin # Zero
         \/ ~d.ang_3_vert /\ d.ang_3 = None /\ p = q /\ Zero \prec p /\ b.sin # Zero
         \/ ~d.ang_3_vert /\ d.ang_3 # None /\ q = Zero /\ Zero \prec p /\ b.sin = Zero
  BY InPlane
<1>3. /\ a.sin \in Fraction /\ a.cos \in Fraction
      /\ x[1] = p \otimes a.cos /\ x[2] = q \otimes a.cos
      /\ \/ d.ang_2_vert /\ a.cos = Zero /\ x[3] = d.size[3]
         \/ ~d.ang_2_vert /\ d.ang_2 # None /\ Zero \prec a.cos /\ a.sin = Zero /\ x[3] = Zero
         \/ ~d.ang_2_vert /\ d.ang_2 = None /\ Zero \prec a.cos /\ a.sin # Zero /\ x[3]
             = h \otimes a.cos
  BY OutOfPlane
<1>4. /\ Zero \in Fraction /\ One \in Fraction /\ Half \in Fraction /\ Zero # One
      /\ d.size[3] \in Fraction /\ Zero \prec d.size[3]
      /\ d.nx[1] \in Int /\ d.nx[2] \in Int /\ d.nx[3] \in Int
  BY Numbers, WaveAssumption DEF Dirs
<1> HIDE DEF a, b, p, q, x, l, h
<1> DEFINE X == p \otimes a.cos
           Y == q \otimes a.cos
<1>5. CASE d.ang_2_vert
  <2>1. x[1] = Zero /\ x[2] = Zero /\ l = d.size[3] /\ x[3] = l
    BY <1>1, <1>2, <1>3, <1>5, Sums
  <2>2. Zero \oslash l = Zero /\ l \oslash l = One
    BY <2>1, <1>4, Halved
  <2> QED BY <1>4, <1>5, <2>1, <2>2, Wholes DEF x, l, Dirs
<1>6. CASE ~d.ang_2_vert /\ d.ang_2 # None
  <2>1. x[3] = Zero /\ a.sin = Zero /\ Zero \prec a.cos
    BY <1>3, <1>6
  <2>2. CASE d.ang_3_vert
    <3>1. x[1] = Zero /\ l = Y /\ x[2] = Y /\ Y \in Fraction /\ Zero \prec Y
      <4>1. p = Zero /\ Zero \prec q /\ l = x[2]
        BY <1>1, <1>2, <1>6, <2>2
      <4>2. Zero \otimes a.cos = Zero
        BY <1>3, Sums
      <4>3. Y \in Fraction /\ Zero \prec Y
        BY <1>2, <1>3, <2>1, <4>1, PositiveTimes
      <4> QED BY <1>3, <4>1, <4>2, <4>3
    <3>2. Zero \oslash Y = Zero /\ Y \oslash Y = One
      BY <3>1, Halved
    <3> QED BY <1>4, <1>6, <2>1, <3>1, <3>2, Wholes DEF x, l, Dirs
  <2>3. CASE ~d.ang_3_vert /\ d.ang_3 = None
    <3>1. x[1] = X /\ x[2] = X /\ X \in Fraction /\ Zero \prec X
      BY <1>2, <1>3, <2>1, <2>3, PositiveTimes
    <3>2. l = X
      BY <1>1, <1>6, <2>1, <2>3, <3>1 DEF Min2
    <3>3. Zero \oslash X = Zero /\ X \oslash X = One
      BY <3>1, Halved
    <3> QED BY <1>4, <1>6, <2>1, <2>3, <3>1, <3>2, <3>3, Wholes DEF x, l, Dirs
  <2>4. CASE ~d.ang_3_vert /\ d.ang_3 # None
    <3>1. x[1] = X /\ x[2] = Zero /\ X \in Fraction /\ Zero \prec X /\ b.sin = Zero
      <4>1. q = Zero /\ Zero \prec p /\ b.sin = Zero
        BY <1>2, <2>4
      <4>2. Zero \otimes a.cos = Zero
        BY <1>3, Sums
      <4>3. X \in Fraction /\ Zero \prec X
        BY <1>2, <1>3, <2>1, <4>1, PositiveTimes
      <4> QED BY <1>3, <4>1, <4>2, <4>3
    <3>2. l = X
      BY <1>1, <1>6, <2>1, <2>4, <3>1
    <3>3. Zero \oslash X = Zero /\ X \oslash X = One
      BY <3>1, Halved
    <3> QED BY <1>4, <1>6, <2>1, <2>4, <3>1, <3>2, <3>3, Wholes DEF x, l, Dirs
  <2> QED BY <2>2, <2>3, <2>4
<1>7. CASE ~d.ang_2_vert /\ d.ang_2 = None
  <2>1. x[3] = h \otimes a.cos /\ a.sin # Zero /\ Zero \prec a.cos
    BY <1>3, <1>7
  <2>2. CASE d.ang_3_vert
    <3>1. x[1] = Zero /\ l = Y /\ x[2] = Y /\ Y \in Fraction /\ Zero \prec Y
      <4>1. p = Zero /\ Zero \prec q /\ l = x[2]
        BY <1>1, <1>2, <1>7, <2>2
      <4>2. Zero \otimes a.cos = Zero
        BY <1>3, Sums
      <4>3. Y \in Fraction /\ Zero \prec Y
        BY <1>2, <1>3, <2>1, <4>1, PositiveTimes
      <4> QED BY <1>3, <4>1, <4>2, <4>3
    <3>2. x[3] = Half \otimes Y
      <4>1. h = Half \otimes q
        BY <1>2, <2>2, Sums DEF h
      <4> QED BY <2>1, <4>1, <1>2, <1>3, <1>4, Field
    <3>3. Zero \oslash Y = Zero /\ Y \oslash Y = One /\ (Half \otimes Y) \oslash Y = Half
      BY <3>1, Halved
    <3> QED BY <1>4, <1>7, <2>1, <2>2, <3>1, <3>2, <3>3, Wholes DEF x, l, Dirs
  <2>3. CASE ~d.ang_3_vert /\ d.ang_3 = None
    <3>1. x[1] = X /\ x[2] = X /\ X \in Fraction /\ Zero \prec X
      BY <1>2, <1>3, <2>1, <2>3, PositiveTimes
    <3>2. x[3] = X
      <4>1. h = p
        BY <1>2, <2>3, Halved DEF h
      <4> QED BY <2>1, <4>1
    <3>3. l = X
      BY <1>1, <1>7, <2>1, <2>3, <3>1, <3>2 DEF Min2
    <3>4. X \oslash X = One
      BY <3>1, Halved
    <3> QED BY <1>4, <1>7, <2>1, <2>3, <3>1, <3>2, <3>3, <3>4, Wholes DEF x, l, Dirs
  <2>4. CASE ~d.ang_3_vert /\ d.ang_3 # None
    <3>1. x[1] = X /\ x[2] = Zero /\ X \in Fraction /\ Zero \prec X /\ b.sin = Zero
      <4>1. q = Zero /\ Zero \prec p /\ b.sin = Zero
        BY <1>2, <2>4
      <4>2. Zero \otimes a.cos = Zero
        BY <1>3, Sums
      <4>3. X \in Fraction /\ Zero \prec X
        BY <1>2, <1>3, <2>1, <4>1, PositiveTimes
      <4> QED BY <1>3, <4>1, <4>2, <4>3
    <3>2. x[3] = Half \otimes X
      <4>1. h = Half \otimes p
        <5>1. p \oplus Zero = p
          BY <1>2, <1>4, Field
        <5> QED BY <1>2, <2>4, <5>1 DEF h
      <4> QED BY <2>1, <4>1, <1>2, <1>3, <1>4, Field
    <3>3. l = IF d.nx[3] > 1 THEN Min2(X, Half \otimes X) ELSE X
      BY <1>1, <1>7, <2>1, <2>4, <3>1, <3>2
    <3>4. Min2(X, Half \otimes X) = Half \otimes X
      BY <3>1, Halved DEF Min2
    <3>5. /\ Zero \oslash X = Zero /\ X \oslash X = One /\ X \oslash (Half \otimes X) = One \oplus One
          /\ Zero \oslash (Half \otimes X) = Zero /\ (Half \otimes X) \oslash (Half \otimes X) = One
          /\ Zero \prec Half \otimes X
      BY <3>1, Halved
    <3> QED BY <1>4, <1>7, <2>1, <2>4, <3>1, <3>2, <3>3, <3>4, <3>5, Wholes DEF x, l, Dirs
  <2> QED BY <2>2, <2>3, <2>4
<1> QED BY <1>5, <1>6, <1>7

\* Whole waves fit the mesh, for every size, resolution, angle setting and switch.
THEOREM WavesPeriodic == Spec => []WholeWaves
<1>1. WaveInv => WholeWaves
  <2> SUFFICES ASSUME WaveInv, Ready, ~OwnAngle(deck.ang_2), ~OwnAngle(deck.ang_3) PROVE WholeWaves
    BY DEF WholeWaves
  <2>1. deck \in WaveDecks /\ wave = WaveMade
    BY DEF WaveInv, Ready
  <2>2. wave.lambda = Lambda(deck, Angles(deck)) /\ wave.angles = Angles(deck)
    BY <2>1 DEF WaveMade
  <2>3. \A n \in Dirs : deck.size[n] \otimes Normals[n] = Reach(deck)[n]
    BY <2>2 DEF Reach, Normals
  <2> QED BY <2>1, <2>2, <2>3, WavesFit DEF WholeWaves, Active, HalfTilted
<1> QED BY <1>1, WaveInductive, PTL
-----------------------------------------------------------------------------
LEMMA Distributed ==
  ASSUME NEW x \in Fraction, NEW y \in Fraction, NEW z \in Fraction
  PROVE  /\ x \otimes (y \oplus z) = (x \otimes y) \oplus (x \otimes z)
         /\ (y \oplus z) \otimes x = (y \otimes x) \oplus (z \otimes x)
         /\ x \otimes (y \ominus z) = (x \otimes y) \ominus (x \otimes z)
         /\ (y \ominus z) \otimes x = (y \otimes x) \ominus (z \otimes x)
<1>1. Minus(z) \in Fraction /\ x \otimes y \in Fraction /\ x \otimes z \in Fraction
      /\ y \oplus z \in Fraction /\ y \ominus z \in Fraction
  BY Closed
<1>2. x \otimes (y \oplus z) = (x \otimes y) \oplus (x \otimes z)
  BY Field
<1>3. x \otimes (y \ominus z) = (x \otimes y) \ominus (x \otimes z)
  <2>1. y \ominus z = y \oplus Minus(z)
    BY Commuted
  <2>2. x \otimes (y \oplus Minus(z)) = (x \otimes y) \oplus (x \otimes Minus(z))
    BY <1>1, Field
  <2>3. x \otimes Minus(z) = Minus(x \otimes z)
    BY Sums
  <2>4. (x \otimes y) \oplus Minus(x \otimes z) = (x \otimes y) \ominus (x \otimes z)
    BY <1>1, Commuted
  <2> QED BY <2>1, <2>2, <2>3, <2>4
<1> QED BY <1>1, <1>2, <1>3, Commuted

LEMMA Associated ==
  ASSUME NEW x \in Fraction, NEW y \in Fraction, NEW z \in Fraction
  PROVE  /\ (x \otimes y) \otimes z = x \otimes (y \otimes z)
         /\ (x \otimes y) \otimes z = (x \otimes z) \otimes y
         /\ x \otimes (y \otimes z) = y \otimes (x \otimes z)
<1>1. (x \otimes y) \otimes z = x \otimes (y \otimes z) /\ (x \otimes z) \otimes y
          = x \otimes (z \otimes y)
      /\ (y \otimes x) \otimes z = y \otimes (x \otimes z)
  BY Field
<1> QED BY <1>1, Commuted

LEMMA Foil ==
  ASSUME NEW x \in Fraction, NEW y \in Fraction, NEW z \in Fraction, NEW t \in Fraction
  PROVE  (x \oplus y) \otimes (z \oplus t)
           = ((x \otimes z) \oplus (x \otimes t)) \oplus ((y \otimes z) \oplus (y \otimes t))
<1>1. z \oplus t \in Fraction
  BY Closed
<1>2. (x \oplus y) \otimes (z \oplus t) = (x \otimes (z \oplus t)) \oplus (y \otimes (z \oplus t))
  BY <1>1, Distributed
<1> QED BY <1>2, Distributed

\* The background's speed of sound is one: what gamma - 1 makes of its thermal
\* enthalpy.
LEMMA Background ==
  ASSUME deck \in WaveDecks
  PROVE  LET v == deck.vflow
             K == Half \otimes SQR(v)
             H == Enthalpy
         IN /\ v \in Fraction /\ gm1 \in Fraction /\ gm1 # Zero /\ K \in Fraction /\ H \in Fraction
            /\ E0 \in Fraction /\ SQR(v) = K \oplus K /\ H \ominus K \in Fraction
            /\ gm1 \otimes (H \ominus K) = One /\ gm1 \otimes H = (gm1 \otimes K) \oplus One
<1> DEFINE v == deck.vflow
           K == Half \otimes SQR(v)
           H == Enthalpy
           g == gm1
           c == (p0 \oslash g) \oplus p0
<1>1. /\ v \in Fraction /\ deck.gamma \in Fraction /\ One \prec deck.gamma
      /\ One \in Fraction /\ Zero \in Fraction /\ Half \in Fraction /\ Zero \prec One
  BY WaveAssumption, Numbers
<1>2. g \in Fraction /\ Zero \prec g /\ One \oplus g = deck.gamma
  <2>1. g = deck.gamma \ominus One
    BY DEF gm1
  <2>2. g \in Fraction
    BY <2>1, <1>1, Closed
  <2>3. Zero \prec g
    BY <2>1, <1>1, Ordered
  <2>4. g \oplus One = deck.gamma
    BY <2>1, <1>1, Sums
  <2> QED BY <2>2, <2>3, <2>4, <1>1, Commuted
<1>3. deck.gamma # Zero /\ g # Zero
  BY <1>1, <1>2, Comparisons
<1>4. p0 \in Fraction /\ p0 \otimes deck.gamma = One
  BY <1>1, <1>3, Quotients DEF p0
<1>5. SQR(v) \in Fraction /\ K \in Fraction
  <2>1. SQR(v) \in Fraction
    BY <1>1, Closed
  <2> QED BY <1>1, <2>1, Closed
<1>6. SQR(v) = K \oplus K
  <2>1. (Half \oplus Half) \otimes SQR(v) = K \oplus K
    BY <1>1, <1>5, Distributed
  <2> QED BY <2>1, <1>5, Numbers, Sums
<1>7. p0 \oslash g \in Fraction /\ g \otimes (p0 \oslash g) = p0
  BY <1>2, <1>3, <1>4, Quotients
<1> DEFINE q == p0 \oslash g
<1>8. c \in Fraction /\ q \in Fraction
  BY <1>4, <1>7, Closed
<1>9. g \otimes c = One
  <2>1. g \otimes c = (g \otimes q) \oplus (g \otimes p0)
    BY <1>2, <1>4, <1>8, Distributed
  <2>2. p0 \otimes (One \oplus g) = (p0 \otimes One) \oplus (p0 \otimes g)
    BY <1>1, <1>2, <1>4, Distributed
  <2>3. p0 \otimes One = p0 /\ p0 \otimes g = g \otimes p0
    BY <1>1, <1>2, <1>4, Field, Commuted
  <2> QED BY <1>2, <1>4, <1>7, <2>1, <2>2, <2>3
<1>10. H = (q \oplus K) \oplus p0 /\ E0 = q \oplus K
  BY DEF Enthalpy, E0
<1> HIDE DEF H, K, q, g
<1>11. H = c \oplus K /\ H \in Fraction /\ E0 \in Fraction
  <2>1. (q \oplus K) \oplus p0 = q \oplus (K \oplus p0) /\ (q \oplus p0) \oplus K
            = q \oplus (p0 \oplus K)
    BY <1>4, <1>5, <1>8, Field
  <2>2. K \oplus p0 = p0 \oplus K
    BY <1>4, <1>5, Commuted
  <2> QED BY <2>1, <2>2, <1>4, <1>5, <1>8, <1>10, Closed DEF q
<1> HIDE DEF c
<1>12. H \ominus K = c
  BY <1>5, <1>8, <1>11, Sums
<1>13. g \otimes H = (g \otimes K) \oplus One
  <2>1. g \otimes (c \oplus K) = (g \otimes c) \oplus (g \otimes K)
    BY <1>2, <1>5, <1>8, Distributed
  <2>2. g \otimes K \in Fraction
    BY <1>2, <1>5, Closed
  <2> QED BY <2>1, <2>2, <1>1, <1>9, <1>11, Commuted
<1> QED BY <1>1, <1>2, <1>3, <1>5, <1>6, <1>8, <1>9, <1>11, <1>12, <1>13 DEF H, K, g

\* So the eigenvectors are those of waves of speed v - 1, v and v + 1.
LEMMA Eigenvectors ==
  ASSUME deck \in WaveDecks
  PROVE  LET v == deck.vflow
             H == Enthalpy
             es == Eigensystem(v, H, gm1)
         IN /\ es.ev = <<v \ominus One, v, v, v, v \oplus One>>
            /\ es.rem = << <<One, v \ominus One, Zero, Zero, H \ominus v>>,
                           <<Zero, Zero, One, Zero, Zero>>, <<Zero, Zero, Zero, One, Zero>>,
                           <<One, v, Zero, Zero, Half \otimes SQR(v)>>,
                           <<One, v \oplus One, Zero, Zero, H \oplus v>> >>
            /\ LeftEigenvectors(v, H, gm1) =
                 LET w == Half \otimes gm1 \otimes SQR(v)
                     y == gm1 \otimes v
                 IN << <<Half \otimes (w \oplus v), Minus(Half \otimes (y \oplus One)), Zero, Zero,
                     Half \otimes gm1>>,
                       <<Zero, Zero, One, Zero, Zero>>, <<Zero, Zero, Zero, One, Zero>>,
                       <<One \ominus w, y, Zero, Zero, Minus(gm1)>>,
                       <<Half \otimes (w \ominus v), Minus(Half \otimes (y \ominus One)), Zero,
                           Zero, Half \otimes gm1>> >>
<1> DEFINE v == deck.vflow
           H == Enthalpy
           asq == gm1 \otimes (H \ominus (Half \otimes SQR(v)))
<1>1. asq = One /\ Sqrt(asq) = One
  BY Background, RootAssumption
<1>2. v \in Fraction /\ gm1 \in Fraction /\ Half \in Fraction /\ One \in Fraction /\ One # Zero
  BY Background, Numbers
<1>3. v \otimes One = v /\ Half \oslash One = Half /\ gm1 \oslash One = gm1
  BY <1>2, Field, Quotients
<1>4. Eigensystem(v, H, gm1) =
        [ev |-> <<v \ominus One, v, v, v, v \oplus One>>,
         rem |-> << <<One, v \ominus One, Zero, Zero, H \ominus v>>,
                    <<Zero, Zero, One, Zero, Zero>>, <<Zero, Zero, Zero, One, Zero>>,
                    <<One, v, Zero, Zero, Half \otimes SQR(v)>>,
                    <<One, v \oplus One, Zero, Zero, H \oplus v>> >>]
  BY <1>1, <1>3 DEF Eigensystem
<1> QED BY <1>1, <1>3, <1>4 DEF LeftEigenvectors

\* The sums the products of the eigenvectors come to.
LEMMA AcousticSums ==
  ASSUME NEW w \in Fraction, NEW v \in Fraction, NEW y \in Fraction
  PROVE  /\ ((w \oplus v) \ominus (((w \oplus w) \ominus y) \oplus (v \ominus One)))
              \oplus ((w \oplus One) \ominus y) = One \oplus One
         /\ ((w \oplus v) \ominus (((w \oplus w) \oplus y) \oplus (v \oplus One)))
              \oplus ((w \oplus One) \oplus y) = Zero
<1>1. PICK d \in Pos, i \in Int, j \in Int, k \in Int : Over(w, i, d) /\ Over(v, j, d) /\ Over(y, k, d)
  BY DenominatorOf3
<1>2. Over(One, d, d) /\ Over(Zero, 0, d)
  BY OverConstants
<1>4. /\ Over(w \oplus v, i + j, d) /\ Over(w \oplus w, i + i, d) /\ Over(v \ominus One, j - d, d)
      /\ Over(w \oplus One, i + d, d) /\ Over(v \oplus One, j + d, d) /\ Over(One \oplus One, d + d, d)
  BY <1>1, <1>2, OverPlus, OverMinus
<1>5. /\ Over((w \oplus w) \ominus y, (i + i) - k, d) /\ Over((w \oplus w) \oplus y, (i + i) + k, d)
      /\ Over((w \oplus One) \ominus y, (i + d) - k, d) /\ Over((w \oplus One) \oplus y, (i + d) + k, d)
  BY <1>1, <1>4, OverPlus, OverMinus
<1>6. /\ Over(((w \oplus w) \ominus y) \oplus (v \ominus One), ((i + i) - k) + (j - d), d)
      /\ Over(((w \oplus w) \oplus y) \oplus (v \oplus One), ((i + i) + k) + (j + d), d)
  BY <1>4, <1>5, OverPlus
<1>7. /\ Over((w \oplus v) \ominus (((w \oplus w) \ominus y) \oplus (v \ominus One)),
              (i + j) - (((i + i) - k) + (j - d)), d)
      /\ Over((w \oplus v) \ominus (((w \oplus w) \oplus y) \oplus (v \oplus One)),
              (i + j) - (((i + i) + k) + (j + d)), d)
  BY <1>4, <1>6, OverMinus
<1>8. /\ Over(((w \oplus v) \ominus (((w \oplus w) \ominus y) \oplus (v \ominus One)))
                \oplus ((w \oplus One) \ominus y),
              ((i + j) - (((i + i) - k) + (j - d))) + ((i + d) - k), d)
      /\ Over(((w \oplus v) \ominus (((w \oplus w) \oplus y) \oplus (v \oplus One)))
                \oplus ((w \oplus One) \oplus y),
              ((i + j) - (((i + i) + k) + (j + d))) + ((i + d) + k), d)
  BY <1>5, <1>7, OverPlus
<1> QED BY <1>2, <1>4, <1>8, OverEqual DEF Pos

LEMMA EntropySums ==
  ASSUME NEW w \in Fraction, NEW v \in Fraction, NEW y \in Fraction
  PROVE  /\ ((w \oplus v) \ominus ((w \oplus w) \oplus v)) \oplus w = Zero
         /\ ((One \ominus w) \oplus ((w \oplus w) \ominus y)) \ominus ((w \oplus One) \ominus y) = Zero
         /\ ((One \ominus w) \oplus ((w \oplus w) \oplus y)) \ominus ((w \oplus One) \oplus y) = Zero
         /\ ((One \ominus w) \oplus (w \oplus w)) \ominus w = One
<1>1. PICK d \in Pos, i \in Int, j \in Int, k \in Int : Over(w, i, d) /\ Over(v, j, d) /\ Over(y, k, d)
  BY DenominatorOf3
<1>2. Over(One, d, d) /\ Over(Zero, 0, d)
  BY OverConstants
<1>3. /\ Over(w \oplus v, i + j, d) /\ Over(w \oplus w, i + i, d) /\ Over(One \ominus w, d - i, d)
      /\ Over(w \oplus One, i + d, d)
  BY <1>1, <1>2, OverPlus, OverMinus
<1>4. /\ Over((w \oplus w) \oplus v, (i + i) + j, d) /\ Over((w \oplus w) \ominus y, (i + i) - k, d)
      /\ Over((w \oplus w) \oplus y, (i + i) + k, d) /\ Over((w \oplus One) \ominus y, (i + d) - k, d)
      /\ Over((w \oplus One) \oplus y, (i + d) + k, d)
      /\ Over((One \ominus w) \oplus (w \oplus w), (d - i) + (i + i), d)
  BY <1>1, <1>3, OverPlus, OverMinus
<1>5. /\ Over((w \oplus v) \ominus ((w \oplus w) \oplus v), (i + j) - ((i + i) + j), d)
      /\ Over((One \ominus w) \oplus ((w \oplus w) \ominus y), (d - i) + ((i + i) - k), d)
      /\ Over((One \ominus w) \oplus ((w \oplus w) \oplus y), (d - i) + ((i + i) + k), d)
      /\ Over(((One \ominus w) \oplus (w \oplus w)) \ominus w, ((d - i) + (i + i)) - i, d)
  BY <1>1, <1>3, <1>4, OverPlus, OverMinus
<1>6. /\ Over(((w \oplus v) \ominus ((w \oplus w) \oplus v)) \oplus w, ((i + j) - ((i + i) + j)) + i, d)
      /\ Over(((One \ominus w) \oplus ((w \oplus w) \ominus y)) \ominus ((w \oplus One) \ominus y),
              ((d - i) + ((i + i) - k)) - ((i + d) - k), d)
      /\ Over(((One \ominus w) \oplus ((w \oplus w) \oplus y)) \ominus ((w \oplus One) \oplus y),
              ((d - i) + ((i + i) + k)) - ((i + d) + k), d)
  BY <1>1, <1>4, <1>5, OverPlus, OverMinus
<1> QED BY <1>2, <1>5, <1>6, OverEqual DEF Pos

\* For x the velocity or its opposite, with the factors of Background.
LEMMA AcousticProducts ==
  ASSUME NEW g \in Fraction, NEW x \in Fraction, NEW K \in Fraction, NEW H \in Fraction,
         SQR(x) = K \oplus K, g \otimes H = (g \otimes K) \oplus One
  PROVE  LET w == g \otimes K
             y == g \otimes x
             Row(q, r) == ((w \oplus x) \ominus ((y \oplus One) \otimes q)) \oplus (g \otimes r)
             Middle(q, r) == ((One \ominus w) \oplus (y \otimes q)) \ominus (g \otimes r)
         IN /\ Row(x \ominus One, H \ominus x) = One \oplus One
            /\ Row(x \oplus One, H \oplus x) = Zero /\ Row(x, K) = Zero
            /\ Middle(x \ominus One, H \ominus x) = Zero
            /\ Middle(x \oplus One, H \oplus x) = Zero /\ Middle(x, K) = One
<1> DEFINE w == g \otimes K
           y == g \otimes x
<1>1. w \in Fraction /\ y \in Fraction /\ One \in Fraction /\ y \oplus One \in Fraction
  BY Closed
<1>2. y \otimes x = w \oplus w
  <2>1. y \otimes x = g \otimes (x \otimes x)
    BY Associated
  <2> QED BY <2>1, Distributed DEF SQR
<1>3. y \otimes One = y /\ One \otimes (x \ominus One) = x \ominus One
      /\ One \otimes (x \oplus One) = x \oplus One /\ One \otimes x = x
  BY <1>1, Field, Closed, Sums
<1>4. y \otimes (x \ominus One) = (w \oplus w) \ominus y /\ y \otimes (x \oplus One)
          = (w \oplus w) \oplus y
  BY <1>1, <1>2, <1>3, Distributed
<1>5. /\ (y \oplus One) \otimes (x \ominus One) = ((w \oplus w) \ominus y) \oplus (x \ominus One)
      /\ (y \oplus One) \otimes (x \oplus One) = ((w \oplus w) \oplus y) \oplus (x \oplus One)
      /\ (y \oplus One) \otimes x = (w \oplus w) \oplus x
  <2>1. x \ominus One \in Fraction /\ x \oplus One \in Fraction
    BY <1>1, Closed
  <2> QED BY <2>1, <1>1, <1>2, <1>3, <1>4, Distributed
<1>6. /\ g \otimes (H \ominus x) = (w \oplus One) \ominus y
      /\ g \otimes (H \oplus x) = (w \oplus One) \oplus y
  BY Distributed
<1> HIDE DEF w, y
<1>7. /\ ((w \oplus x) \ominus (((w \oplus w) \ominus y) \oplus (x \ominus One)))
           \oplus ((w \oplus One) \ominus y) = One \oplus One
      /\ ((w \oplus x) \ominus (((w \oplus w) \oplus y) \oplus (x \oplus One)))
           \oplus ((w \oplus One) \oplus y) = Zero
  BY <1>1, AcousticSums
<1>8. /\ ((w \oplus x) \ominus ((w \oplus w) \oplus x)) \oplus w = Zero
      /\ ((One \ominus w) \oplus ((w \oplus w) \ominus y)) \ominus ((w \oplus One) \ominus y) = Zero
      /\ ((One \ominus w) \oplus ((w \oplus w) \oplus y)) \ominus ((w \oplus One) \oplus y) = Zero
      /\ ((One \ominus w) \oplus (w \oplus w)) \ominus w = One
  BY <1>1, EntropySums
<1> QED BY <1>2, <1>4, <1>5, <1>6, <1>7, <1>8 DEF w, y

LEMMA DotOf ==
  ASSUME NEW a \in Fraction, NEW b \in Fraction, NEW c \in Fraction, NEW q \in Fraction,
         NEW r \in Fraction
  PROVE  Dot(<<a, b, Zero, Zero, c>>, <<One, q, Zero, Zero, r>>)
      = (a \oplus (b \otimes q)) \oplus (c \otimes r)
<1>1. a \otimes One = a /\ Zero \otimes Zero = Zero /\ b \otimes q \in Fraction /\ Zero \in Fraction
  BY Field, Sums, Closed
<1>2. a \oplus (b \otimes q) \in Fraction
  BY <1>1, Closed
<1>3. (a \oplus (b \otimes q)) \oplus Zero = a \oplus (b \otimes q)
  BY <1>1, <1>2, Field
<1> QED BY <1>1, <1>3 DEF Dot

\* A row and a column that share no place but the zeros.
LEMMA DotApart ==
  ASSUME NEW a \in Fraction, NEW b \in Fraction, NEW c \in Fraction
  PROVE  /\ Dot(<<a, b, Zero, Zero, c>>, <<Zero, Zero, One, Zero, Zero>>) = Zero
         /\ Dot(<<a, b, Zero, Zero, c>>, <<Zero, Zero, Zero, One, Zero>>) = Zero
         /\ Dot(<<Zero, Zero, One, Zero, Zero>>, <<a, b, Zero, Zero, c>>) = Zero
         /\ Dot(<<Zero, Zero, Zero, One, Zero>>, <<a, b, Zero, Zero, c>>) = Zero
<1>1. /\ Zero \in Fraction /\ One \in Fraction /\ Zero \otimes One = Zero /\ One \otimes Zero = Zero
      /\ Zero \oplus Zero = Zero /\ Zero \otimes Zero = Zero
  BY Closed, Sums, Numbers
<1>2. /\ a \otimes Zero = Zero /\ b \otimes Zero = Zero /\ c \otimes Zero = Zero
      /\ Zero \otimes a = Zero /\ Zero \otimes b = Zero /\ Zero \otimes c = Zero
  BY Sums
<1> QED BY <1>1, <1>2 DEF Dot

LEMMA HalfRow ==
  ASSUME NEW A \in Fraction, NEW B \in Fraction, NEW g \in Fraction, NEW q \in Fraction,
         NEW r \in Fraction
  PROVE  Dot(<<Half \otimes A, Minus(Half \otimes B), Zero, Zero, Half \otimes g>>,
             <<One, q, Zero, Zero, r>>) = Half \otimes ((A \ominus (B \otimes q)) \oplus (g \otimes r))
<1>1. /\ Half \in Fraction /\ Half \otimes A \in Fraction /\ Half \otimes B \in Fraction
      /\ Half \otimes g \in Fraction /\ B \otimes q \in Fraction /\ g \otimes r \in Fraction
  BY Numbers, Closed
<1>2. Minus(Half \otimes B) \in Fraction /\ A \ominus (B \otimes q) \in Fraction
      /\ Half \otimes (B \otimes q) \in Fraction
  BY <1>1, Closed
<1>3. Minus(Half \otimes B) \otimes q = Minus(Half \otimes (B \otimes q))
  <2>1. Minus(Half \otimes B) \otimes q = Minus((Half \otimes B) \otimes q)
    BY <1>1, Sums
  <2> QED BY <2>1, <1>1, Associated
<1>4. (Half \otimes A) \oplus Minus(Half \otimes (B \otimes q)) = Half \otimes (A \ominus (B \otimes q))
  <2>1. (Half \otimes A) \oplus Minus(Half \otimes (B \otimes q))
          = (Half \otimes A) \ominus (Half \otimes (B \otimes q))
    BY <1>1, <1>2, Sums
  <2> QED BY <2>1, <1>1, Distributed
<1>5. (Half \otimes g) \otimes r = Half \otimes (g \otimes r)
  BY <1>1, Associated
<1>6. Half \otimes ((A \ominus (B \otimes q)) \oplus (g \otimes r))
        = (Half \otimes (A \ominus (B \otimes q))) \oplus (Half \otimes (g \otimes r))
  BY <1>1, <1>2, Distributed
<1> QED BY <1>1, <1>2, <1>3, <1>4, <1>5, <1>6, DotOf

\* The rows of the two sound waves against the three columns that are not shear.
LEMMA SoundRows ==
  ASSUME deck \in WaveDecks
  PROVE  LET v == deck.vflow
             K == Half \otimes SQR(v)
             H == Enthalpy
             w == gm1 \otimes K
             y == gm1 \otimes v
             First(q, r) == Dot(<<Half \otimes (w \oplus v), Minus(Half \otimes (y \oplus One)),
                 Zero, Zero,
                                  Half \otimes gm1>>, <<One, q, Zero, Zero, r>>)
             Last(q, r) == Dot(<<Half \otimes (w \ominus v), Minus(Half \otimes (y \ominus One)),
                 Zero, Zero,
                                 Half \otimes gm1>>, <<One, q, Zero, Zero, r>>)
             Middle(q, r) == Dot(<<One \ominus w, y, Zero, Zero, Minus(gm1)>>, <<One, q, Zero,
                 Zero, r>>)
         IN /\ First(v \ominus One, H \ominus v) = One /\ First(v \oplus One, H \oplus v) = Zero
            /\ First(v, K) = Zero
            /\ Last(v \oplus One, H \oplus v) = One /\ Last(v \ominus One, H \ominus v) = Zero
            /\ Last(v, K) = Zero
            /\ Middle(v \ominus One, H \ominus v) = Zero /\ Middle(v \oplus One, H \oplus v) = Zero
            /\ Middle(v, K) = One
<1> DEFINE v == deck.vflow
           K == Half \otimes SQR(v)
           H == Enthalpy
           g == gm1
           w == g \otimes K
           y == g \otimes v
           x == Minus(v)
<1>1. /\ v \in Fraction /\ K \in Fraction /\ H \in Fraction /\ g \in Fraction
      /\ SQR(v) = K \oplus K /\ g \otimes H = (g \otimes K) \oplus One
  BY Background
<1>2. One \in Fraction /\ Zero \in Fraction /\ Half \in Fraction /\ Half \oplus Half = One
  BY Numbers
<1> HIDE DEF v, K, H, g
<1>3. /\ w \in Fraction /\ y \in Fraction /\ x \in Fraction /\ w \oplus v \in Fraction
      /\ w \ominus v \in Fraction /\ v \oplus One \in Fraction /\ v \ominus One \in Fraction
      /\ H \oplus v \in Fraction /\ H \ominus v \in Fraction
  BY <1>1, <1>2, Closed
<1>4. /\ y \oplus One \in Fraction /\ y \ominus One \in Fraction /\ One \ominus w \in Fraction
      /\ Minus(g) \in Fraction
  BY <1>1, <1>2, <1>3, Closed
<1>5. Half \otimes (One \oplus One) = One /\ Half \otimes Zero = Zero
  <2>1. Half \otimes (One \oplus One) = (Half \otimes One) \oplus (Half \otimes One)
    BY <1>2, Distributed
  <2> QED BY <2>1, <1>2, Field, Sums
\* The velocity turned about.
<1>6. SQR(x) = K \oplus K /\ g \otimes x = Minus(y)
  BY <1>1, Sums
<1>7. w \oplus x = w \ominus v /\ H \ominus x = H \oplus v /\ H \oplus x = H \ominus v
  BY <1>1, <1>3, Sums
<1>8. x \ominus One = Minus(v \oplus One) /\ x \oplus One = Minus(v \ominus One)
      /\ Minus(y) \oplus One = Minus(y \ominus One)
  <2>1. x \ominus One = Minus(v \oplus One)
    BY <1>1, <1>2, Sums
  <2>2. \A z \in Fraction : Minus(z) \oplus One = Minus(z \ominus One)
    <3> TAKE z \in Fraction
    <3>1. Minus(z) \oplus One = One \ominus z
      BY <1>2, Commuted
    <3> QED BY <3>1, <1>2, Sums
  <2> QED BY <2>1, <2>2, <1>1, <1>3
<1>9. \A p, q \in Fraction : Minus(p) \otimes Minus(q) = p \otimes q
  <2> TAKE p, q \in Fraction
  <2>1. Minus(q) \in Fraction /\ p \otimes q \in Fraction
    BY Closed
  <2>2. Minus(p) \otimes Minus(q) = Minus(p \otimes Minus(q)) /\ p \otimes Minus(q) = Minus(p \otimes q)
    BY <2>1, Sums
  <2> QED BY <2>1, <2>2, Sums
<1>10. /\ ((w \oplus v) \ominus ((y \oplus One) \otimes (v \ominus One)))
              \oplus (g \otimes (H \ominus v)) = One \oplus One
       /\ ((w \oplus v) \ominus ((y \oplus One) \otimes (v \oplus One)))
              \oplus (g \otimes (H \oplus v)) = Zero
       /\ ((w \oplus v) \ominus ((y \oplus One) \otimes v)) \oplus (g \otimes K) = Zero
       /\ ((One \ominus w) \oplus (y \otimes (v \ominus One))) \ominus (g \otimes (H \ominus v)) = Zero
       /\ ((One \ominus w) \oplus (y \otimes (v \oplus One))) \ominus (g \otimes (H \oplus v)) = Zero
       /\ ((One \ominus w) \oplus (y \otimes v)) \ominus (g \otimes K) = One
  BY <1>1, AcousticProducts
<1>11. /\ ((w \oplus x) \ominus ((Minus(y) \oplus One) \otimes (x \ominus One)))
              \oplus (g \otimes (H \ominus x)) = One \oplus One
       /\ ((w \oplus x) \ominus ((Minus(y) \oplus One) \otimes (x \oplus One)))
              \oplus (g \otimes (H \oplus x)) = Zero
       /\ ((w \oplus x) \ominus ((Minus(y) \oplus One) \otimes x)) \oplus (g \otimes K) = Zero
  <2> HIDE DEF x
  <2> QED BY <1>1, <1>3, <1>6, AcousticProducts
<1>12. /\ ((w \ominus v) \ominus ((y \ominus One) \otimes (v \oplus One)))
              \oplus (g \otimes (H \oplus v)) = One \oplus One
       /\ ((w \ominus v) \ominus ((y \ominus One) \otimes (v \ominus One)))
              \oplus (g \otimes (H \ominus v)) = Zero
       /\ ((w \ominus v) \ominus ((y \ominus One) \otimes v)) \oplus (g \otimes K) = Zero
  BY <1>1, <1>3, <1>4, <1>7, <1>8, <1>9, <1>11
<1> HIDE DEF w, y, x
<1> DEFINE first == <<Half \otimes (w \oplus v), Minus(Half \otimes (y \oplus One)), Zero, Zero,
    Half \otimes g>>
           last == <<Half \otimes (w \ominus v), Minus(Half \otimes (y \ominus One)), Zero, Zero,
               Half \otimes g>>
           middle == <<One \ominus w, y, Zero, Zero, Minus(g)>>
<1>13. \A q, r \in Fraction :
         /\ Dot(first, <<One, q, Zero, Zero, r>>)
              = Half \otimes (((w \oplus v) \ominus ((y \oplus One) \otimes q)) \oplus (g \otimes r))
         /\ Dot(last, <<One, q, Zero, Zero, r>>)
              = Half \otimes (((w \ominus v) \ominus ((y \ominus One) \otimes q)) \oplus (g \otimes r))
  BY <1>1, <1>3, <1>4, HalfRow
<1>14. \A q, r \in Fraction :
         Dot(middle, <<One, q, Zero, Zero, r>>)
           = ((One \ominus w) \oplus (y \otimes q)) \ominus (g \otimes r)
  <2> TAKE q, r \in Fraction
  <2>1. Dot(middle, <<One, q, Zero, Zero, r>>)
           = ((One \ominus w) \oplus (y \otimes q)) \oplus (Minus(g) \otimes r)
    BY <1>3, <1>4, DotOf
  <2>2. Minus(g) \otimes r = Minus(g \otimes r) /\ g \otimes r \in Fraction /\ y \otimes q \in Fraction
    BY <1>1, <1>3, Sums, Closed
  <2>3. (One \ominus w) \oplus (y \otimes q) \in Fraction
    BY <1>4, <2>2, Closed
  <2>4. ((One \ominus w) \oplus (y \otimes q)) \oplus Minus(g \otimes r)
          = ((One \ominus w) \oplus (y \otimes q)) \ominus (g \otimes r)
    BY <2>2, <2>3, Sums
  <2> QED BY <2>1, <2>2, <2>4
<1>15. /\ Dot(first, <<One, v \ominus One, Zero, Zero, H \ominus v>>) = One
       /\ Dot(first, <<One, v \oplus One, Zero, Zero, H \oplus v>>) = Zero
       /\ Dot(first, <<One, v, Zero, Zero, K>>) = Zero
  BY <1>1, <1>3, <1>5, <1>10, <1>13
<1>16. /\ Dot(last, <<One, v \oplus One, Zero, Zero, H \oplus v>>) = One
       /\ Dot(last, <<One, v \ominus One, Zero, Zero, H \ominus v>>) = Zero
       /\ Dot(last, <<One, v, Zero, Zero, K>>) = Zero
  BY <1>1, <1>3, <1>5, <1>12, <1>13
<1>17. /\ Dot(middle, <<One, v \ominus One, Zero, Zero, H \ominus v>>) = Zero
       /\ Dot(middle, <<One, v \oplus One, Zero, Zero, H \oplus v>>) = Zero
       /\ Dot(middle, <<One, v, Zero, Zero, K>>) = One
  BY <1>1, <1>3, <1>10, <1>14
<1> QED BY <1>15, <1>16, <1>17 DEF v, K, H, g, w, y, first, last, middle

LEMMA InverseMatrices ==
  ASSUME deck \in WaveDecks
  PROVE  \A m, n \in Vars :
           Dot(LeftEigenvectors(deck.vflow, Enthalpy, gm1)[m], Eigensystem(deck.vflow, Enthalpy,
               gm1).rem[n])
             = IF m = n THEN One ELSE Zero
<1> DEFINE v == deck.vflow
           K == Half \otimes SQR(v)
           H == Enthalpy
           g == gm1
           w == g \otimes K
           y == g \otimes v
           l1 == <<Half \otimes (w \oplus v), Minus(Half \otimes (y \oplus One)), Zero, Zero,
               Half \otimes g>>
           l4 == <<One \ominus w, y, Zero, Zero, Minus(g)>>
           l5 == <<Half \otimes (w \ominus v), Minus(Half \otimes (y \ominus One)), Zero, Zero,
               Half \otimes g>>
           r1 == <<One, v \ominus One, Zero, Zero, H \ominus v>>
           r4 == <<One, v, Zero, Zero, K>>
           r5 == <<One, v \oplus One, Zero, Zero, H \oplus v>>
           e2 == <<Zero, Zero, One, Zero, Zero>>
           e3 == <<Zero, Zero, Zero, One, Zero>>
           lem == LeftEigenvectors(v, H, g)
           rem == Eigensystem(v, H, g).rem
<1>1. /\ v \in Fraction /\ K \in Fraction /\ H \in Fraction /\ g \in Fraction /\ SQR(v) \in Fraction
      /\ One \in Fraction /\ Zero \in Fraction /\ Half \in Fraction
  BY Background, Numbers, Closed
<1>2. Half \otimes g \otimes SQR(v) = w
  BY <1>1, Associated, Commuted
<1>3. lem = <<l1, e2, e3, l4, l5>> /\ rem = <<r1, e2, e3, r4, r5>>
  BY <1>2, Eigenvectors
<1>4. /\ Dot(l1, r1) = One /\ Dot(l1, r5) = Zero /\ Dot(l1, r4) = Zero
      /\ Dot(l5, r5) = One /\ Dot(l5, r1) = Zero /\ Dot(l5, r4) = Zero
      /\ Dot(l4, r1) = Zero /\ Dot(l4, r5) = Zero /\ Dot(l4, r4) = One
  BY SoundRows
<1>5. w \in Fraction /\ y \in Fraction /\ Half \otimes g \in Fraction /\ Minus(g) \in Fraction
      /\ v \ominus One \in Fraction /\ v \oplus One \in Fraction /\ H \ominus v \in Fraction
      /\ H \oplus v \in Fraction
  BY <1>1, Closed
<1> HIDE DEF v, K, H, g
<1>6. w \oplus v \in Fraction /\ w \ominus v \in Fraction /\ y \oplus One \in Fraction
      /\ y \ominus One \in Fraction /\ One \ominus w \in Fraction
  BY <1>1, <1>5, Closed
<1>7. Half \otimes (w \oplus v) \in Fraction /\ Half \otimes (w \ominus v) \in Fraction
      /\ Half \otimes (y \oplus One) \in Fraction /\ Half \otimes (y \ominus One) \in Fraction
  BY <1>1, <1>6, Closed
<1>8. Minus(Half \otimes (y \oplus One)) \in Fraction /\ Minus(Half \otimes (y \ominus One)) \in Fraction
  BY <1>7, Closed
<1> HIDE DEF w, y
<1>9. /\ Dot(l1, e2) = Zero /\ Dot(l4, e2) = Zero /\ Dot(l5, e2) = Zero
      /\ Dot(l1, e3) = Zero /\ Dot(l4, e3) = Zero /\ Dot(l5, e3) = Zero
  BY <1>5, <1>6, <1>7, <1>8, DotApart
<1>10. /\ Dot(e2, r1) = Zero /\ Dot(e2, r4) = Zero /\ Dot(e2, r5) = Zero
       /\ Dot(e3, r1) = Zero /\ Dot(e3, r4) = Zero /\ Dot(e3, r5) = Zero
  BY <1>1, <1>5, DotApart
<1>11. Dot(e2, e2) = One /\ Dot(e3, e3) = One /\ Dot(e2, e3) = Zero /\ Dot(e3, e2) = Zero
  BY Numbers, Field, Sums DEF Dot
<1> HIDE DEF l1, l4, l5, r1, r4, r5, e2, e3, lem, rem
<1>12. /\ lem[1] = l1 /\ lem[2] = e2 /\ lem[3] = e3 /\ lem[4] = l4 /\ lem[5] = l5
       /\ rem[1] = r1 /\ rem[2] = e2 /\ rem[3] = e3 /\ rem[4] = r4 /\ rem[5] = r5
  BY <1>3
<1>13. ASSUME NEW m \in Vars, NEW n \in Vars PROVE Dot(lem[m], rem[n]) = IF m = n THEN One ELSE Zero
  <2>1. (m = 1 \/ m = 2 \/ m = 3 \/ m = 4 \/ m = 5) /\ (n = 1 \/ n = 2 \/ n = 3 \/ n = 4 \/ n = 5)
    BY DEF Vars
  <2> QED BY <2>1, <1>4, <1>9, <1>10, <1>11, <1>12
<1> TAKE m, n \in Vars
<1> QED BY <1>13 DEF lem, rem, v, H, g

LEMMA WaveBiorthogonal == WaveInv /\ deck \in WaveDecks => Biorthogonal
<1> SUFFICES ASSUME WaveInv, deck \in WaveDecks, Ready
    PROVE  \A m, n \in Vars : Dot(LeftEigenvectors(deck.vflow, Enthalpy, gm1)[m], wave.rem[n])
                                 = IF m = n THEN One ELSE Zero
  BY DEF Biorthogonal
<1>1. wave.rem = Eigensystem(deck.vflow, Enthalpy, gm1).rem
  BY DEF WaveInv, Ready, WaveMade
<1> TAKE m, n \in Vars
<1> QED BY <1>1, InverseMatrices

-----------------------------------------------------------------------------
\* What travels along the wave: a density, a momentum in its direction and an
\* energy that three sums bind to the speed are carried at that speed, and so is
\* any momentum across the wave, at the speed of the background.
LEMMA Longitudinal ==
  ASSUME NEW v \in Fraction, NEW s \in Fraction, NEW b \in Fraction,
         NEW q \in Fraction, NEW l \in Fraction, NEW n \in Fraction,
         (((v \otimes b) \oplus (v \otimes b)) \oplus q) \ominus (SQR(v) \otimes s) = l \otimes b
  PROVE  LET m == b \otimes n
             a == v \otimes n
         IN (a \otimes b) \oplus (v \otimes m) \oplus (q \otimes n) \oplus Minus(a \otimes v \otimes s)
              = l \otimes m
<1> DEFINE m == b \otimes n
           a == v \otimes n
           z == v \otimes b
           y == SQR(v) \otimes s
<1>1. z \in Fraction /\ SQR(v) \in Fraction /\ m \in Fraction /\ a \in Fraction
  BY Closed
<1>2. y \in Fraction /\ z \oplus z \in Fraction
  BY <1>1, Closed
<1>3. (z \oplus z) \oplus q \in Fraction
  BY <1>2, Closed
<1>4. a \otimes b = z \otimes n /\ v \otimes m = z \otimes n
  BY Associated
<1>5. a \otimes v \otimes s = y \otimes n
  <2>1. a \otimes v = (v \otimes v) \otimes n
    BY Associated
  <2>2. (SQR(v) \otimes n) \otimes s = (SQR(v) \otimes s) \otimes n
    BY <1>1, Associated
  <2> QED BY <2>1, <2>2 DEF SQR
<1> HIDE DEF z, y
<1>6. (z \otimes n) \oplus (z \otimes n) \oplus (q \otimes n) = ((z \oplus z) \oplus q) \otimes n
  BY <1>1, <1>2, Distributed
<1>7. (((z \oplus z) \oplus q) \otimes n) \oplus Minus(y \otimes n)
          = (((z \oplus z) \oplus q) \ominus y) \otimes n
  <2>1. ((z \oplus z) \oplus q) \otimes n \in Fraction /\ y \otimes n \in Fraction
    BY <1>2, <1>3, Closed
  <2> QED BY <2>1, <1>2, <1>3, Distributed, Sums
<1>8. (l \otimes b) \otimes n = l \otimes m
  BY Associated
<1> QED BY <1>4, <1>5, <1>6, <1>7, <1>8 DEF z, y

LEMMA WaveSums ==
  ASSUME NEW h \in Fraction, NEW j \in Fraction, NEW k \in Fraction, NEW s \in Fraction
  PROVE  /\ ((h \oplus j) \ominus ((k \oplus k) \oplus j)) \oplus k = h \ominus k
         /\ ((((k \oplus k) \oplus j) \oplus ((k \oplus k) \oplus j)) \oplus s) \ominus (k \oplus k)
              = ((k \oplus k) \oplus j) \oplus (j \oplus s)
         /\ ((h \oplus j) \oplus s) \ominus h = j \oplus s
         /\ (h \oplus j) \oplus (k \oplus s) = (h \oplus k) \oplus (j \oplus s)
         /\ (k \ominus (k \oplus k)) \oplus k = Zero
<1>1. PICK d : Denominator(d, {h, j, k, s, s, s, s, s})
  BY DenominatorOf
<1>2. d \in Pos /\ \A x \in {h, j, k, s} : \E n \in Int : Over(x, n, d)
  BY <1>1 DEF Denominator
<1>3. PICK a, b, c, e \in Int : Over(h, a, d) /\ Over(j, b, d) /\ Over(k, c, d) /\ Over(s, e, d)
  BY <1>2
<1>4. /\ Over(h \oplus j, a + b, d) /\ Over(k \oplus k, c + c, d) /\ Over(h \ominus k, a - c, d)
      /\ Over(j \oplus s, b + e, d) /\ Over(k \oplus s, c + e, d) /\ Over(h \oplus k, a + c, d)
      /\ Over(Zero, 0, d)
  BY <1>2, <1>3, OverPlus, OverMinus, OverConstants
<1>5. /\ Over((k \oplus k) \oplus j, (c + c) + b, d)
      /\ Over((h \oplus j) \oplus s, (a + b) + e, d)
      /\ Over((h \oplus j) \oplus (k \oplus s), (a + b) + (c + e), d)
      /\ Over((h \oplus k) \oplus (j \oplus s), (a + c) + (b + e), d)
      /\ Over(k \ominus (k \oplus k), c - (c + c), d)
  BY <1>3, <1>4, OverPlus, OverMinus
<1> DEFINE x == (k \oplus k) \oplus j
<1>6. /\ Over((h \oplus j) \ominus x, (a + b) - ((c + c) + b), d)
      /\ Over(x \oplus x, ((c + c) + b) + ((c + c) + b), d)
      /\ Over(x \oplus (j \oplus s), ((c + c) + b) + (b + e), d)
      /\ Over(((h \oplus j) \oplus s) \ominus h, ((a + b) + e) - a, d)
      /\ Over((k \ominus (k \oplus k)) \oplus k, (c - (c + c)) + c, d)
  BY <1>3, <1>4, <1>5, OverPlus, OverMinus
<1>7. /\ Over(((h \oplus j) \ominus x) \oplus k, ((a + b) - ((c + c) + b)) + c, d)
      /\ Over((x \oplus x) \oplus s, (((c + c) + b) + ((c + c) + b)) + e, d)
  BY <1>3, <1>6, OverPlus
<1>8. Over(((x \oplus x) \oplus s) \ominus (k \oplus k),
          ((((c + c) + b) + ((c + c) + b)) + e) - (c + c), d)
  BY <1>4, <1>7, OverMinus
<1> QED BY <1>4, <1>5, <1>6, <1>7, <1>8, OverEqual

\* The three sums that carry a wave of strength s, speed l, energy h and pressure
\* q along itself, with the factors of Background.
CarriedBy(v, K, H, g, s, l, h, q) ==
  LET b == s \otimes l
      e == s \otimes h
  IN /\ g \otimes ((e \ominus (v \otimes b)) \oplus (K \otimes s)) = q
     /\ (((v \otimes b) \oplus (v \otimes b)) \oplus q) \ominus ((K \oplus K) \otimes s) = l \otimes b
     /\ (H \otimes b) \oplus (v \otimes ((e \oplus q) \ominus (H \otimes s))) = l \otimes e

\* A sound wave: e is one with the sign of its direction.
LEMMA SoundCarried ==
  ASSUME NEW s \in Fraction, NEW v \in Fraction, NEW K \in Fraction, NEW H \in Fraction,
         NEW g \in Fraction, NEW e \in Fraction,
         SQR(v) = K \oplus K, g \otimes (H \ominus K) = One, SQR(e) = One
  PROVE  CarriedBy(v, K, H, g, s, v \oplus e, H \oplus (v \otimes e), s)
<1> DEFINE l == v \oplus e
           b == s \otimes l
           p == s \otimes (H \oplus (v \otimes e))
           m == s \otimes v
           f == s \otimes e
           k == s \otimes K
           h == s \otimes H
           j == m \otimes e
           X == H \otimes m
           i == h \otimes e
           t == (k \oplus k) \otimes e
<1>1. m \in Fraction /\ f \in Fraction /\ k \in Fraction /\ h \in Fraction /\ v \otimes e \in Fraction
  BY Closed
<1>2. j \in Fraction /\ X \in Fraction /\ i \in Fraction /\ k \oplus k \in Fraction
  BY <1>1, Closed
<1>3. t \in Fraction /\ l \in Fraction /\ j \oplus s \in Fraction
  BY <1>2, Closed
<1>4. b = m \oplus f /\ p = h \oplus j /\ K \otimes s = k /\ H \otimes s
          = h /\ (K \oplus K) \otimes s = k \oplus k
  BY <1>1, Distributed, Associated, Commuted
<1>5. s \otimes (K \oplus K) = k \oplus k /\ s \otimes One = s /\ m \otimes One = m
  BY <1>1, Distributed, Field
<1>6. v \otimes m = k \oplus k /\ v \otimes f = j /\ e \otimes m = j /\ e \otimes f = s
  <2>1. v \otimes m = s \otimes (v \otimes v) /\ e \otimes f = s \otimes (e \otimes e)
    BY Associated
  <2>2. v \otimes f = s \otimes (v \otimes e) /\ (s \otimes v) \otimes e = s \otimes (v \otimes e)
    BY Associated
  <2> QED BY <2>1, <2>2, <1>1, <1>5, Commuted DEF SQR
<1>7. H \otimes f = i /\ v \otimes s = m /\ v \otimes h = X /\ e \otimes h = i
  <2>1. (s \otimes H) \otimes e = H \otimes (s \otimes e)
    BY Associated, Commuted
  <2>2. v \otimes (s \otimes H) = H \otimes (s \otimes v)
    BY Associated, Commuted
  <2> QED BY <2>1, <2>2, <1>1, Commuted
<1>8. v \otimes j = t /\ e \otimes j = m
  <2>1. v \otimes (m \otimes e) = (v \otimes m) \otimes e /\ e \otimes (m \otimes e)
            = m \otimes (e \otimes e)
    BY <1>1, Associated
  <2> QED BY <2>1, <1>5, <1>6 DEF SQR
<1>9. v \otimes b = (k \oplus k) \oplus j
  BY <1>1, <1>4, <1>6, Distributed
<1>10. l \otimes b = ((k \oplus k) \oplus j) \oplus (j \oplus s)
  BY <1>1, <1>4, <1>6, Foil
<1>11. l \otimes p = (X \oplus t) \oplus (i \oplus m)
  BY <1>1, <1>2, <1>4, <1>7, <1>8, Foil
<1>12. H \otimes b = X \oplus i
  BY <1>1, <1>4, <1>7, Distributed
<1>13. g \otimes (h \ominus k) = s
  <2>1. h \ominus k = s \otimes (H \ominus K)
    BY Distributed
  <2>2. H \ominus K \in Fraction
    BY Closed
  <2>3. g \otimes (s \otimes (H \ominus K)) = s \otimes (g \otimes (H \ominus K))
    BY <2>2, Associated
  <2> QED BY <2>1, <2>3, <1>5
<1> HIDE DEF l, b, p, m, f, k, h, j, X, i, t
<1>14. /\ ((h \oplus j) \ominus ((k \oplus k) \oplus j)) \oplus k = h \ominus k
       /\ ((((k \oplus k) \oplus j) \oplus ((k \oplus k) \oplus j)) \oplus s) \ominus (k \oplus k)
            = ((k \oplus k) \oplus j) \oplus (j \oplus s)
       /\ ((h \oplus j) \oplus s) \ominus h = j \oplus s
       /\ (X \oplus i) \oplus (t \oplus m) = (X \oplus t) \oplus (i \oplus m)
  BY <1>1, <1>2, <1>3, WaveSums
<1>15. v \otimes (j \oplus s) = t \oplus m
  BY <1>2, <1>7, <1>8, Distributed
<1>16. g \otimes ((p \ominus (v \otimes b)) \oplus (K \otimes s)) = s
  BY <1>4, <1>9, <1>13, <1>14
<1>17. (((v \otimes b) \oplus (v \otimes b)) \oplus s) \ominus ((K \oplus K) \otimes s) = l \otimes b
  BY <1>4, <1>9, <1>10, <1>14
<1>18. (H \otimes b) \oplus (v \otimes ((p \oplus s) \ominus (H \otimes s))) = l \otimes p
  BY <1>4, <1>11, <1>12, <1>14, <1>15
<1> QED BY <1>16, <1>17, <1>18 DEF CarriedBy, l, b, p

\* The entropy wave, which leaves the pressure alone.
LEMMA EntropyCarried ==
  ASSUME NEW s \in Fraction, NEW v \in Fraction, NEW K \in Fraction, NEW H \in Fraction,
         NEW g \in Fraction, SQR(v) = K \oplus K
  PROVE  CarriedBy(v, K, H, g, s, v, K, Zero)
<1> DEFINE b == s \otimes v
           k == s \otimes K
<1>1. /\ b \in Fraction /\ k \in Fraction /\ Zero \in Fraction /\ H \otimes s \in Fraction
  BY Closed
<1>2. k \oplus k \in Fraction /\ H \otimes b \in Fraction /\ v \otimes k \in Fraction
  BY <1>1, Closed
<1>3. K \otimes s = k /\ (K \oplus K) \otimes s = k \oplus k /\ s \otimes (K \oplus K) = k \oplus k
  BY Distributed, Commuted
<1>4. v \otimes b = k \oplus k
  <2>1. v \otimes b = s \otimes (v \otimes v)
    BY Associated
  <2> QED BY <2>1, <1>3 DEF SQR
<1>5. v \otimes (H \otimes s) = H \otimes b
  <2>1. v \otimes (H \otimes s) = H \otimes (v \otimes s)
    BY Associated
  <2> QED BY <2>1, Commuted
<1> HIDE DEF b, k
<1>6. (k \ominus (k \oplus k)) \oplus k = Zero
  BY <1>1, WaveSums
<1>7. g \otimes Zero = Zero /\ k \oplus Zero = k
  BY <1>1, Sums, Field
<1>8. (((k \oplus k) \oplus (k \oplus k)) \oplus Zero) \ominus (k \oplus k) = k \oplus k
  <2>1. (k \oplus k) \oplus (k \oplus k) \in Fraction
    BY <1>2, Closed
  <2>2. ((k \oplus k) \oplus (k \oplus k)) \oplus Zero = (k \oplus k) \oplus (k \oplus k)
    BY <2>1, <1>1, Field
  <2> QED BY <2>2, <1>2, Sums
<1>9. v \otimes (k \ominus (H \otimes s)) = (v \otimes k) \ominus (H \otimes b)
  BY <1>1, <1>5, Distributed
<1>10. (H \otimes b) \oplus ((v \otimes k) \ominus (H \otimes b)) = v \otimes k
  <2>1. (v \otimes k) \ominus (H \otimes b) \in Fraction
    BY <1>2, Closed
  <2> QED BY <2>1, <1>2, Sums, Commuted
<1> QED BY <1>3, <1>4, <1>6, <1>7, <1>8, <1>9, <1>10 DEF CarriedBy, b, k

\* The wave's direction and the vectors across it, in the frame of the mesh.
LEMMA AnglesAre ==
  ASSUME NEW d \in WaveDecks
  PROVE  IsAngle(Angle3(d)) /\ IsAngle(Angle2(d))
<1>1. IsAngle(Vertical)
  BY Numbers, Field, Sums DEF IsAngle, Vertical, SQR
<1>2. d.ang_3 # None => IsAngle(d.ang_3)
  BY WaveAssumption
<1>3. d.ang_2 # None => IsAngle(d.ang_2)
  BY WaveAssumption
<1>4. d.ang_3 = None => IsAngle(Atan(Slope3(d)))
  BY AtanAssumption DEF IsAtan
<1>5. d.ang_2 = None => IsAngle(Atan(Slope2(d)))
  BY AtanAssumption DEF IsAtan
<1> QED BY <1>1, <1>2, <1>3, <1>4, <1>5 DEF Angle3, Angle2

LEMMA NonzeroTimes ==
  ASSUME NEW x \in Fraction, NEW y \in Fraction, x # Zero, y # Zero
  PROVE  x \otimes y \in Fraction /\ x \otimes y # Zero
<1>1. Zero \in Fraction /\ Zero \otimes y = Zero
  BY Numbers, Sums
<1> QED BY <1>1, Closed, CancelTimes

\* No deck asks for a wave of no length.
LEMMA LambdaApart == \A d \in WaveDecks : Lambda(d, Angles(d)) # Zero
<1> SUFFICES ASSUME NEW d \in WaveDecks PROVE Lambda(d, Angles(d)) # Zero
  OBVIOUS
<1> DEFINE a == Angle2(d)
           b == Angle3(d)
           x == [n \in Dirs |-> d.size[n] \otimes Normal(Angles(d))[n]]
           y == IF d.nx[2] > 1 /\ b.sin # Zero THEN Min2(x[1], x[2]) ELSE x[1]
           z == IF d.nx[3] > 1 /\ a.sin # Zero THEN Min2(y, x[3]) ELSE y
<1>1. Lambda(d, Angles(d)) = IF d.ang_2_vert THEN x[3] ELSE IF d.ang_3_vert THEN x[2] ELSE z
  BY DEF Lambda, Angles
<1>2. /\ x[1] = d.size[1] \otimes (a.cos \otimes b.cos)
      /\ x[2] = d.size[2] \otimes (a.cos \otimes b.sin)
      /\ x[3] = d.size[3] \otimes a.sin
  BY DEF Normal, Angles, Dirs
<1>3. /\ d.size[1] \in Fraction /\ d.size[2] \in Fraction /\ d.size[3] \in Fraction
      /\ d.size[1] # Zero /\ d.size[2] # Zero /\ d.size[3] # Zero
  BY Numbers, WaveAssumption, Comparisons DEF Dirs
<1>4. a.sin \in Fraction /\ a.cos \in Fraction /\ b.sin \in Fraction /\ b.cos \in Fraction
  BY AnglesAre DEF IsAngle
<1>5. Vertical.sin = One /\ One # Zero
  BY Numbers DEF Vertical
<1>6. ~d.ang_2_vert => a.cos # Zero
  BY Numbers, WaveAssumption, AtanAssumption, Comparisons DEF Angle2, IsAtan, IsAngle
<1>7. ~d.ang_3_vert => b.cos # Zero
  BY Numbers, WaveAssumption, AtanAssumption, Comparisons DEF Angle3, IsAtan, IsAngle
<1>8. /\ d.ang_2_vert => a.sin # Zero
      /\ d.ang_3_vert => b.sin # Zero
  BY <1>5 DEF Angle2, Angle3
<1>9. /\ a.cos # Zero /\ b.cos # Zero => x[1] # Zero
      /\ a.cos # Zero /\ b.sin # Zero => x[2] # Zero
      /\ a.sin # Zero => x[3] # Zero
  BY <1>2, <1>3, <1>4, NonzeroTimes
<1> HIDE DEF a, b, x
<1> QED BY <1>1, <1>6, <1>7, <1>8, <1>9 DEF Min2

\* a is a pair of angles.
Tilted(a) == IsAngle(a[1]) /\ IsAngle(a[2])

LEMMA NormalFacts ==
  ASSUME NEW a, Tilted(a)
  PROVE  LET n == Normal(a)
         IN /\ n[1] \in Fraction /\ n[2] \in Fraction /\ n[3] \in Fraction
            /\ ((n[1] \otimes n[1]) \oplus (n[2] \otimes n[2])) \oplus (n[3] \otimes n[3]) = One
<1> DEFINE S2 == a[1].sin
           C2 == a[1].cos
           S3 == a[2].sin
           C3 == a[2].cos
           r == C2 \otimes C2
<1>1. /\ S2 \in Fraction /\ C2 \in Fraction /\ S3 \in Fraction /\ C3 \in Fraction
      /\ (S2 \otimes S2) \oplus (C2 \otimes C2) = One /\ (S3 \otimes S3) \oplus (C3 \otimes C3) = One
  BY DEF Tilted, IsAngle, SQR
<1>2. Normal(a) = <<C2 \otimes C3, C2 \otimes S3, S2>>
  BY DEF Normal
<1> HIDE DEF S2, C2, S3, C3
<1>3. /\ C2 \otimes C3 \in Fraction /\ C2 \otimes S3 \in Fraction /\ r \in Fraction
      /\ C3 \otimes C3 \in Fraction /\ S3 \otimes S3 \in Fraction /\ S2 \otimes S2 \in Fraction
  BY <1>1, Closed
<1>4. \A x, y \in Fraction : (x \otimes y) \otimes (x \otimes y) = (x \otimes x) \otimes (y \otimes y)
  <2> TAKE x, y \in Fraction
  <2>1. x \otimes y \in Fraction /\ y \otimes y \in Fraction
    BY Closed
  <2>2. (x \otimes y) \otimes (x \otimes y) = x \otimes (y \otimes (x \otimes y))
    BY <2>1, Associated
  <2>3. y \otimes (x \otimes y) = x \otimes (y \otimes y)
    BY Associated
  <2>4. x \otimes (x \otimes (y \otimes y)) = (x \otimes x) \otimes (y \otimes y)
    BY <2>1, Associated
  <2> QED BY <2>2, <2>3, <2>4
<1>5. (r \otimes (C3 \otimes C3)) \oplus (r \otimes (S3 \otimes S3)) = r
  <2>1. (r \otimes (C3 \otimes C3)) \oplus (r \otimes (S3 \otimes S3))
          = r \otimes ((C3 \otimes C3) \oplus (S3 \otimes S3))
    BY <1>3, Distributed
  <2>2. (C3 \otimes C3) \oplus (S3 \otimes S3) = One
    BY <1>1, <1>3, Commuted
  <2> QED BY <2>1, <2>2, <1>3, Field
<1>6. r \oplus (S2 \otimes S2) = One
  BY <1>1, <1>3, Commuted
<1> QED BY <1>1, <1>2, <1>3, <1>4, <1>5, <1>6

LEMMA AcrossSums ==
  ASSUME NEW x \in Fraction, NEW y \in Fraction, NEW z \in Fraction
  PROVE  /\ (Minus(x \oplus y) \oplus (x \ominus z)) \oplus (y \oplus z) = Zero
         /\ ((x \ominus y) \ominus z) \ominus x = Minus(y \oplus z)
         /\ ((x \oplus y) \ominus z) \ominus x = y \ominus z
         /\ (x \oplus y) \ominus x = y
<1>1. PICK d \in Pos, i \in Int, j \in Int, k \in Int : Over(x, i, d) /\ Over(y, j, d) /\ Over(z, k, d)
  BY DenominatorOf3
<1>2. /\ Over(x \oplus y, i + j, d) /\ Over(x \ominus z, i - k, d) /\ Over(y \oplus z, j + k, d)
      /\ Over(x \ominus y, i - j, d) /\ Over(y \ominus z, j - k, d) /\ Over(Zero, 0, d)
  BY <1>1, OverPlus, OverMinus, OverConstants
<1>3. /\ Over(Zero \ominus (x \oplus y), 0 - (i + j), d) /\ Over(Zero \ominus (y \oplus z),
             0 - (j + k), d)
      /\ Over((x \ominus y) \ominus z, (i - j) - k, d) /\ Over((x \oplus y) \ominus z, (i + j) - k, d)
      /\ Over((x \oplus y) \ominus x, (i + j) - i, d)
  BY <1>1, <1>2, OverMinus
<1>4. /\ Over((Zero \ominus (x \oplus y)) \oplus (x \ominus z), (0 - (i + j)) + (i - k), d)
      /\ Over(((x \ominus y) \ominus z) \ominus x, ((i - j) - k) - i, d)
      /\ Over(((x \oplus y) \ominus z) \ominus x, ((i + j) - k) - i, d)
  BY <1>1, <1>2, <1>3, OverPlus, OverMinus
<1>5. Over(((Zero \ominus (x \oplus y)) \oplus (x \ominus z)) \oplus (y \oplus z),
           ((0 - (i + j)) + (i - k)) + (j + k), d)
  BY <1>2, <1>4, OverPlus
<1> QED BY <1>1, <1>2, <1>3, <1>4, <1>5, OverEqual DEF Minus

\* A vector across the wave, as the rotation adds it to one along it.
Across(a, m2, m3) ==
  <<Minus((m2 \otimes a[2].sin) \oplus ((m3 \otimes a[1].sin) \otimes a[2].cos)),
    (m2 \otimes a[2].cos) \ominus ((m3 \otimes a[1].sin) \otimes a[2].sin),
    m3 \otimes a[1].cos>>

LEMMA AcrossFacts ==
  ASSUME NEW a, Tilted(a), NEW m2 \in Fraction, NEW m3 \in Fraction
  PROVE  LET t == Across(a, m2, m3)
             n == Normal(a)
         IN /\ t[1] \in Fraction /\ t[2] \in Fraction /\ t[3] \in Fraction
            /\ ((t[1] \otimes n[1]) \oplus (t[2] \otimes n[2])) \oplus (t[3] \otimes n[3]) = Zero
<1> DEFINE S2 == a[1].sin
           C2 == a[1].cos
           S3 == a[2].sin
           C3 == a[2].cos
           z == m3 \otimes S2
           x == (m2 \otimes C2) \otimes (S3 \otimes C3)
           y == z \otimes C2
<1>1. /\ S2 \in Fraction /\ C2 \in Fraction /\ S3 \in Fraction /\ C3 \in Fraction
      /\ (S3 \otimes S3) \oplus (C3 \otimes C3) = One
  BY DEF Tilted, IsAngle, SQR
<1>2. Normal(a) = <<C2 \otimes C3, C2 \otimes S3, S2>>
  BY DEF Normal
<1>3. Across(a, m2, m3)
          = <<Minus((m2 \otimes S3) \oplus (z \otimes C3)), (m2 \otimes C3) \ominus (z \otimes S3),
                            m3 \otimes C2>>
  BY DEF Across
<1> HIDE DEF S2, C2, S3, C3
<1>4. /\ z \in Fraction /\ m2 \otimes S3 \in Fraction /\ m2 \otimes C3 \in Fraction /\ m3 \otimes C2 \in Fraction
      /\ S3 \otimes C3 \in Fraction /\ C3 \otimes C3 \in Fraction /\ S3 \otimes S3 \in Fraction
      /\ m2 \otimes C2 \in Fraction /\ C2 \otimes C3 \in Fraction /\ C2 \otimes S3 \in Fraction
  BY <1>1, Closed
<1>5. z \otimes C3 \in Fraction /\ z \otimes S3 \in Fraction /\ x \in Fraction /\ y \in Fraction
  BY <1>1, <1>4, Closed
<1>6. /\ (m2 \otimes S3) \oplus (z \otimes C3) \in Fraction
      /\ (m2 \otimes C3) \ominus (z \otimes S3) \in Fraction
      /\ Minus((m2 \otimes S3) \oplus (z \otimes C3)) \in Fraction
      /\ y \otimes (C3 \otimes C3) \in Fraction /\ y \otimes (S3 \otimes S3) \in Fraction
  BY <1>4, <1>5, Closed
<1>7. \A p, q, b, c \in Fraction : (p \otimes b) \otimes (q \otimes c)
          = (p \otimes q) \otimes (b \otimes c)
  <2> TAKE p, q, b, c \in Fraction
  <2>1. q \otimes c \in Fraction /\ b \otimes c \in Fraction
    BY Closed
  <2>2. (p \otimes b) \otimes (q \otimes c) = p \otimes (b \otimes (q \otimes c))
    BY <2>1, Associated
  <2>3. b \otimes (q \otimes c) = q \otimes (b \otimes c)
    BY Associated
  <2>4. p \otimes (q \otimes (b \otimes c)) = (p \otimes q) \otimes (b \otimes c)
    BY <2>1, Associated
  <2> QED BY <2>2, <2>3, <2>4
<1>8. Minus((m2 \otimes S3) \oplus (z \otimes C3)) \otimes (C2 \otimes C3)
        = Minus(x \oplus (y \otimes (C3 \otimes C3)))
  <2>1. Minus((m2 \otimes S3) \oplus (z \otimes C3)) \otimes (C2 \otimes C3)
          = Minus(((m2 \otimes S3) \oplus (z \otimes C3)) \otimes (C2 \otimes C3))
    BY <1>4, <1>6, Sums
  <2>2. ((m2 \otimes S3) \oplus (z \otimes C3)) \otimes (C2 \otimes C3)
          = ((m2 \otimes S3) \otimes (C2 \otimes C3)) \oplus ((z \otimes C3) \otimes (C2 \otimes C3))
    BY <1>4, <1>5, Distributed
  <2> QED BY <2>1, <2>2, <1>1, <1>4, <1>7
<1>9. ((m2 \otimes C3) \ominus (z \otimes S3)) \otimes (C2 \otimes S3)
          = x \ominus (y \otimes (S3 \otimes S3))
  <2>1. ((m2 \otimes C3) \ominus (z \otimes S3)) \otimes (C2 \otimes S3)
          = ((m2 \otimes C3) \otimes (C2 \otimes S3)) \ominus ((z \otimes S3) \otimes (C2 \otimes S3))
    BY <1>4, <1>5, Distributed
  <2>2. C3 \otimes S3 = S3 \otimes C3
    BY <1>1, Commuted
  <2> QED BY <2>1, <2>2, <1>1, <1>4, <1>7
<1>10. (m3 \otimes C2) \otimes S2 = (y \otimes (C3 \otimes C3)) \oplus (y \otimes (S3 \otimes S3))
  <2>1. (m3 \otimes C2) \otimes S2 = y
    BY <1>1, Associated
  <2>2. (y \otimes (C3 \otimes C3)) \oplus (y \otimes (S3 \otimes S3))
          = y \otimes ((C3 \otimes C3) \oplus (S3 \otimes S3))
    BY <1>4, <1>5, Distributed
  <2>3. (C3 \otimes C3) \oplus (S3 \otimes S3) = One
    BY <1>1, <1>4, Commuted
  <2> QED BY <2>1, <2>2, <2>3, <1>5, Field
<1> HIDE DEF x, y
<1>11. (Minus(x \oplus (y \otimes (C3 \otimes C3))) \oplus (x \ominus (y \otimes (S3 \otimes S3))))
         \oplus ((y \otimes (C3 \otimes C3)) \oplus (y \otimes (S3 \otimes S3))) = Zero
  BY <1>5, <1>6, AcrossSums
<1> QED BY <1>2, <1>3, <1>4, <1>6, <1>8, <1>9, <1>10, <1>11

LEMMA RotatedSums ==
  ASSUME NEW x \in Fraction, NEW y \in Fraction, NEW z \in Fraction, NEW t \in Fraction
  PROVE  /\ (((x \oplus y) \ominus z) \ominus t) \ominus x = y \oplus Minus(z \oplus t)
         /\ ((x \oplus y) \oplus z) \ominus x = y \oplus z
<1>1. PICK d : Denominator(d, {x, y, z, t, t, t, t, t})
  BY DenominatorOf
<1>2. d \in Pos /\ \A c \in {x, y, z, t} : \E n \in Int : Over(c, n, d)
  BY <1>1 DEF Denominator
<1>3. PICK i, j, k, l \in Int : Over(x, i, d) /\ Over(y, j, d) /\ Over(z, k, d) /\ Over(t, l, d)
  BY <1>2
<1>4. /\ Over(x \oplus y, i + j, d) /\ Over(z \oplus t, k + l, d)
      /\ Over(y \oplus z, j + k, d) /\ Over(Zero, 0, d)
  BY <1>2, <1>3, OverPlus, OverMinus, OverConstants
<1>5. /\ Over((x \oplus y) \ominus z, (i + j) - k, d) /\ Over((x \oplus y) \oplus z, (i + j) + k, d)
      /\ Over(Zero \ominus (z \oplus t), 0 - (k + l), d)
  BY <1>3, <1>4, OverPlus, OverMinus
<1>6. /\ Over(((x \oplus y) \ominus z) \ominus t, ((i + j) - k) - l, d)
      /\ Over(y \oplus (Zero \ominus (z \oplus t)), j + (0 - (k + l)), d)
      /\ Over(((x \oplus y) \oplus z) \ominus x, ((i + j) + k) - i, d)
  BY <1>3, <1>5, OverPlus, OverMinus
<1>7. Over((((x \oplus y) \ominus z) \ominus t) \ominus x, (((i + j) - k) - l) - i, d)
  BY <1>3, <1>6, OverMinus
<1> QED BY <1>4, <1>5, <1>6, <1>7, OverEqual DEF Minus

\* The rotation moves what is added to the background: along the wave with it,
\* and across it.
LEMMA RotatedApart ==
  ASSUME NEW a, Tilted(a), NEW v \in Fraction, NEW b \in Fraction, NEW m2 \in Fraction,
         NEW m3 \in Fraction
  PROVE  LET n == Normal(a)
             t == Across(a, m2, m3)
             m == Rotated(a, <<v \oplus b, m2, m3>>)
         IN /\ m[1] \ominus (v \otimes n[1]) = (b \otimes n[1]) \oplus t[1]
            /\ m[2] \ominus (v \otimes n[2]) = (b \otimes n[2]) \oplus t[2]
            /\ m[3] \ominus (v \otimes n[3]) = (b \otimes n[3]) \oplus t[3]
<1> DEFINE S2 == a[1].sin
           C2 == a[1].cos
           S3 == a[2].sin
           C3 == a[2].cos
           w == v \oplus b
           z == m3 \otimes S2
<1>1. S2 \in Fraction /\ C2 \in Fraction /\ S3 \in Fraction /\ C3 \in Fraction
  BY DEF Tilted, IsAngle
<1>2. Normal(a) = <<C2 \otimes C3, C2 \otimes S3, S2>>
  BY DEF Normal
<1>3. Across(a, m2, m3)
          = <<Minus((m2 \otimes S3) \oplus (z \otimes C3)), (m2 \otimes C3) \ominus (z \otimes S3),
                            m3 \otimes C2>>
  BY DEF Across
<1>4. Rotated(a, <<w, m2, m3>>)
        = <<(((w \otimes C2) \otimes C3) \ominus (m2 \otimes S3)) \ominus (z \otimes C3),
            ((w \otimes C2) \otimes S3) \oplus ((m2 \otimes C3) \ominus (z \otimes S3)),
            (w \otimes S2) \oplus (m3 \otimes C2)>>
  <2> DEFINE m == <<w, m2, m3>>
  <2>1. m[1] = w /\ m[2] = m2 /\ m[3] = m3
    OBVIOUS
  <2> HIDE DEF m, w
  <2>2. Rotated(a, m)
          = <<(((m[1] \otimes C2) \otimes C3) \ominus (m[2] \otimes S3))
              \ominus ((m[3] \otimes S2) \otimes C3),
              ((m[1] \otimes C2) \otimes S3) \oplus ((m[2] \otimes C3)
                  \ominus ((m[3] \otimes S2) \otimes S3)),
              (m[1] \otimes S2) \oplus (m[3] \otimes C2)>>
    BY DEF Rotated
  <2> QED BY <2>1, <2>2 DEF m
<1> HIDE DEF S2, C2, S3, C3
<1>5. /\ C2 \otimes C3 \in Fraction /\ C2 \otimes S3 \in Fraction /\ w \in Fraction /\ z \in Fraction
      /\ m2 \otimes S3 \in Fraction /\ m2 \otimes C3 \in Fraction /\ m3 \otimes C2 \in Fraction
      /\ v \otimes S2 \in Fraction /\ b \otimes S2 \in Fraction
  BY <1>1, Closed
<1>6. /\ v \otimes (C2 \otimes C3) \in Fraction /\ b \otimes (C2 \otimes C3) \in Fraction
      /\ v \otimes (C2 \otimes S3) \in Fraction /\ b \otimes (C2 \otimes S3) \in Fraction
      /\ z \otimes C3 \in Fraction /\ z \otimes S3 \in Fraction
  BY <1>1, <1>5, Closed
<1>7. /\ (w \otimes C2) \otimes C3 = w \otimes (C2 \otimes C3)
      /\ (w \otimes C2) \otimes S3 = w \otimes (C2 \otimes S3)
  BY <1>1, <1>5, Associated
<1>8. /\ w \otimes (C2 \otimes C3) = (v \otimes (C2 \otimes C3)) \oplus (b \otimes (C2 \otimes C3))
      /\ w \otimes (C2 \otimes S3) = (v \otimes (C2 \otimes S3)) \oplus (b \otimes (C2 \otimes S3))
      /\ w \otimes S2 = (v \otimes S2) \oplus (b \otimes S2)
  BY <1>1, <1>5, Distributed
<1> HIDE DEF w, z
<1>9. ((((v \otimes (C2 \otimes C3)) \oplus (b \otimes (C2 \otimes C3))) \ominus (m2 \otimes S3))
          \ominus (z \otimes C3))
        \ominus (v \otimes (C2 \otimes C3))
        = (b \otimes (C2 \otimes C3)) \oplus Minus((m2 \otimes S3) \oplus (z \otimes C3))
  BY <1>5, <1>6, RotatedSums
<1>10. (((v \otimes (C2 \otimes S3)) \oplus (b \otimes (C2 \otimes S3))) \oplus ((m2 \otimes C3)
           \ominus (z \otimes S3)))
         \ominus (v \otimes (C2 \otimes S3))
         = (b \otimes (C2 \otimes S3)) \oplus ((m2 \otimes C3) \ominus (z \otimes S3))
  <2>1. (m2 \otimes C3) \ominus (z \otimes S3) \in Fraction
    BY <1>5, <1>6, Closed
  <2> QED BY <2>1, <1>6, RotatedSums
<1>11. (((v \otimes S2) \oplus (b \otimes S2)) \oplus (m3 \otimes C2)) \ominus (v \otimes S2)
         = (b \otimes S2) \oplus (m3 \otimes C2)
  BY <1>5, <1>6, RotatedSums
<1> QED BY <1>2, <1>3, <1>4, <1>7, <1>8, <1>9, <1>10, <1>11 DEF w

\* A wave of strength s along itself, and the conclusion of CarriedAtOneSpeed.
Longwise(p, s, l, h) ==
  p[1] = s /\ p[5] = s \otimes h /\ \A k \in Dirs : p[k + 1] = (s \otimes l) \otimes Normals[k]
Carries(s, l, h, q) ==
  CarriedBy(deck.vflow, Half \otimes SQR(deck.vflow), Enthalpy, gm1, s, l, h, q)
CarriedAt(p, l) ==
  LinearFlux(p) = <<l \otimes p[1], l \otimes p[2], l \otimes p[3], l \otimes p[4], l \otimes p[5]>>

LEMMA FluxAlong ==
  ASSUME deck \in WaveDecks, Tilted(wave.angles), NEW p,
         NEW s \in Fraction, NEW l \in Fraction, NEW h \in Fraction, NEW q \in Fraction,
         Longwise(p, s, l, h), Carries(s, l, h, q)
  PROVE  CarriedAt(p, l)
<1> DEFINE v == deck.vflow
           K == Half \otimes SQR(v)
           H == Enthalpy
           b == s \otimes l
           e == s \otimes h
           n1 == Normals[1]
           n2 == Normals[2]
           n3 == Normals[3]
           pn == ((p[2] \otimes n1) \oplus (p[3] \otimes n2)) \oplus (p[4] \otimes n3)
           dp == gm1 \otimes ((p[5] \ominus (v \otimes pn)) \oplus (K \otimes p[1]))
           momentum(k) == ((((v \otimes Normals[k]) \otimes pn) \oplus (v \otimes p[k + 1]))
                             \oplus (dp \otimes Normals[k])) \oplus Minus(((v \otimes Normals[k]) \otimes v) \otimes p[1])
<1>1. /\ v \in Fraction /\ K \in Fraction /\ H \in Fraction /\ SQR(v) = K \oplus K
      /\ n1 \in Fraction /\ n2 \in Fraction /\ n3 \in Fraction
      /\ ((n1 \otimes n1) \oplus (n2 \otimes n2)) \oplus (n3 \otimes n3) = One
  BY Background, NormalFacts DEF Normals
<1>2. /\ p[1] = s /\ p[5] = e /\ p[2] = b \otimes n1 /\ p[3] = b \otimes n2 /\ p[4] = b \otimes n3
      /\ b \in Fraction /\ e \in Fraction /\ b = l \otimes s
  BY Closed, Commuted DEF Dirs, Longwise
<1>3. /\ gm1 \otimes ((e \ominus (v \otimes b)) \oplus (K \otimes s)) = q
      /\ (((v \otimes b) \oplus (v \otimes b)) \oplus q) \ominus ((K \oplus K) \otimes s) = l \otimes b
      /\ (H \otimes b) \oplus (v \otimes ((e \oplus q) \ominus (H \otimes s))) = l \otimes e
  BY DEF Carries, CarriedBy
<1> HIDE DEF n1, n2, n3, b, e
<1>4. pn = b
  <2>1. n1 \otimes n1 \in Fraction /\ n2 \otimes n2 \in Fraction /\ n3 \otimes n3 \in Fraction
    BY <1>1, Closed
  <2>2. (n1 \otimes n1) \oplus (n2 \otimes n2) \in Fraction
    BY <2>1, Closed
  <2>3. /\ (b \otimes n1) \otimes n1 = b \otimes (n1 \otimes n1)
        /\ (b \otimes n2) \otimes n2 = b \otimes (n2 \otimes n2)
        /\ (b \otimes n3) \otimes n3 = b \otimes (n3 \otimes n3)
    BY <1>1, <1>2, Associated
  <2>4. (b \otimes (n1 \otimes n1)) \oplus (b \otimes (n2 \otimes n2))
            = b \otimes ((n1 \otimes n1) \oplus (n2 \otimes n2))
    BY <1>2, <2>1, Distributed
  <2>5. (b \otimes ((n1 \otimes n1) \oplus (n2 \otimes n2))) \oplus (b \otimes (n3 \otimes n3))
            = b \otimes One
    BY <1>1, <1>2, <2>1, <2>2, Distributed
  <2>6. b \otimes One = b
    BY <1>2, Field
  <2> QED BY <1>2, <2>3, <2>4, <2>5, <2>6
<1>5. dp = q
  BY <1>2, <1>3, <1>4
<1>6. LinearFlux(p) = <<pn, momentum(1), momentum(2), momentum(3),
                        (H \otimes pn) \oplus (v \otimes ((p[5] \oplus dp) \ominus (H \otimes p[1])))>>
  BY DEF LinearFlux, Dirs, n1, n2, n3
<1> HIDE DEF pn, dp, v, K, H
<1>7. ASSUME NEW n \in Fraction
      PROVE  ((((v \otimes n) \otimes b) \oplus (v \otimes (b \otimes n))) \oplus (q \otimes n))
               \oplus Minus(((v \otimes n) \otimes v) \otimes s) = l \otimes (b \otimes n)
  <2>1. (((v \otimes b) \oplus (v \otimes b)) \oplus q) \ominus (SQR(v) \otimes s) = l \otimes b
    BY <1>1, <1>3
  <2>2. v \in Fraction /\ b \in Fraction
    BY <1>1, <1>2
  <2> QED BY <2>1, <2>2, Longitudinal
<1>8. /\ momentum(1) = l \otimes p[2] /\ momentum(2) = l \otimes p[3] /\ momentum(3) = l \otimes p[4]
  BY <1>1, <1>2, <1>4, <1>5, <1>7 DEF n1, n2, n3
<1> QED BY <1>2, <1>3, <1>4, <1>5, <1>6, <1>8 DEF CarriedAt

\* A shear wave is carried by the background alone.
LEMMA FluxAcross ==
  ASSUME deck \in WaveDecks, Tilted(wave.angles), NEW m2 \in Fraction, NEW m3 \in Fraction, NEW p,
         p[1] = Zero, p[5] = Zero,
         \A k \in Dirs : p[k + 1] = Across(wave.angles, m2, m3)[k]
  PROVE  CarriedAt(p, deck.vflow)
<1> DEFINE v == deck.vflow
           K == Half \otimes SQR(v)
           H == Enthalpy
           g == gm1
           n1 == Normals[1]
           n2 == Normals[2]
           n3 == Normals[3]
           pn == ((p[2] \otimes n1) \oplus (p[3] \otimes n2)) \oplus (p[4] \otimes n3)
           dp == g \otimes ((p[5] \ominus (v \otimes pn)) \oplus (K \otimes p[1]))
           momentum(k) == ((((v \otimes Normals[k]) \otimes pn) \oplus (v \otimes p[k + 1]))
                             \oplus (dp \otimes Normals[k])) \oplus Minus(((v \otimes Normals[k]) \otimes v) \otimes p[1])
<1>1. /\ v \in Fraction /\ K \in Fraction /\ H \in Fraction /\ g \in Fraction /\ Zero \in Fraction
      /\ n1 \in Fraction /\ n2 \in Fraction /\ n3 \in Fraction
  BY Background, NormalFacts, Numbers DEF Normals
<1>2. pn = Zero /\ p[2] \in Fraction /\ p[3] \in Fraction /\ p[4] \in Fraction
  BY AcrossFacts DEF Dirs, Normals
<1>3. LinearFlux(p) = <<pn, momentum(1), momentum(2), momentum(3),
                        (H \otimes pn) \oplus (v \otimes ((p[5] \oplus dp) \ominus (H \otimes p[1])))>>
  BY DEF LinearFlux, Dirs
<1>4. /\ v \otimes Zero = Zero /\ K \otimes Zero = Zero /\ g \otimes Zero = Zero /\ H \otimes Zero
             = Zero
      /\ Zero \ominus Zero = Zero /\ Zero \oplus Zero = Zero /\ Minus(Zero) = Zero
  BY <1>1, Sums
<1>5. dp = Zero
  BY <1>2, <1>4
<1> HIDE DEF pn, dp, v, K, H, g, n1, n2, n3
<1>6. ASSUME NEW n \in Fraction, NEW x \in Fraction
      PROVE  ((((v \otimes n) \otimes Zero) \oplus (v \otimes x)) \oplus (Zero \otimes n))
               \oplus Minus(((v \otimes n) \otimes v) \otimes Zero) = v \otimes x
  <2>1. v \otimes n \in Fraction /\ v \otimes x \in Fraction
    BY <1>1, Closed
  <2>2. (v \otimes n) \otimes v \in Fraction
    BY <1>1, <2>1, Closed
  <2>3. (v \otimes n) \otimes Zero = Zero /\ Zero \otimes n
            = Zero /\ ((v \otimes n) \otimes v) \otimes Zero = Zero
    BY <1>1, <2>1, <2>2, Sums
  <2>4. Zero \oplus (v \otimes x) = v \otimes x /\ (v \otimes x) \oplus Zero = v \otimes x
    BY <1>1, <2>1, Sums, Field
  <2> QED BY <1>4, <2>3, <2>4
<1>7. /\ momentum(1) = v \otimes p[2] /\ momentum(2) = v \otimes p[3] /\ momentum(3) = v \otimes p[4]
  BY <1>1, <1>2, <1>5, <1>6 DEF n1, n2, n3
<1>8. (H \otimes Zero) \oplus (v \otimes ((Zero \oplus Zero) \ominus (H \otimes Zero))) = v \otimes Zero
  BY <1>4
<1> QED BY <1>2, <1>3, <1>4, <1>5, <1>7, <1>8 DEF CarriedAt, v

LEMMA AcrossNone ==
  ASSUME NEW a, Tilted(a)
  PROVE  Across(a, Zero, Zero) = <<Zero, Zero, Zero>>
<1>1. /\ a[1].sin \in Fraction /\ a[1].cos \in Fraction /\ a[2].sin \in Fraction /\ a[2].cos \in Fraction
      /\ Zero \in Fraction
  BY Numbers DEF Tilted, IsAngle
<1>2. /\ Zero \otimes a[1].sin = Zero /\ Zero \otimes a[1].cos = Zero
      /\ Zero \otimes a[2].sin = Zero /\ Zero \otimes a[2].cos = Zero
      /\ Zero \oplus Zero = Zero /\ Zero \ominus Zero = Zero /\ Minus(Zero) = Zero
  BY <1>1, Sums
<1> QED BY <1>2 DEF Across

\* What a cell holds beyond the background, for a wave of strength s in it.
LEMMA Perturbation ==
  ASSUME deck \in WaveDecks, wave = WaveMade, NEW c \in Cells,
         u = [i \in Cells |-> Generated(Center(i))],
         NEW p, p = [k \in Vars |-> u[c][k] \ominus
                      (CASE k = 1 -> One [] k = 5 -> E0 [] OTHER -> deck.vflow \otimes Normals[k - 1])]
  PROVE  LET s == deck.amp \otimes Sine(Turns(Center(c)))
             r == wave.rem[deck.wave_flag + 1]
             m == Rotated(wave.angles, <<deck.vflow \oplus (s \otimes r[2]), s \otimes r[3],
                 s \otimes r[4]>>)
         IN /\ Tilted(wave.angles) /\ s \in Fraction
            /\ r[1] \in Fraction => p[1] = s \otimes r[1]
            /\ r[5] \in Fraction => p[5] = s \otimes r[5]
            /\ p[2] = m[1] \ominus (deck.vflow \otimes Normals[1])
            /\ p[3] = m[2] \ominus (deck.vflow \otimes Normals[2])
            /\ p[4] = m[3] \ominus (deck.vflow \otimes Normals[3])
<1> DEFINE s == deck.amp \otimes Sine(Turns(Center(c)))
           r == wave.rem[deck.wave_flag + 1]
           m == Rotated(wave.angles, <<deck.vflow \oplus (s \otimes r[2]), s \otimes r[3],
               s \otimes r[4]>>)
<1>1. wave.angles = Angles(deck) /\ wave.lambda = Lambda(deck, Angles(deck))
  BY DEF WaveMade
<1>2. Tilted(wave.angles)
  <2>1. Angles(deck)[1] = Angle2(deck) /\ Angles(deck)[2] = Angle3(deck)
    BY DEF Angles
  <2> QED BY <1>1, <2>1, AnglesAre DEF Tilted
<1>3. s \in Fraction
  <2>1. Turns(Center(c)) = Phase(Normal(Angles(deck)), Lambda(deck, Angles(deck)), CenterOf(deck, c))
    BY <1>1 DEF Turns, Center
  <2>2. c \in 0 .. CellCount(deck) - 1
    BY DEF Cells, Size3
  <2>3. Sine(Turns(Center(c))) \in Fraction
    BY <2>1, <2>2, LambdaApart, SineAssumption
  <2>4. deck.amp \in Fraction
    BY WaveAssumption
  <2> QED BY <2>3, <2>4, Closed
<1>4. Generated(Center(c))
          = <<One \oplus (s \otimes r[1]), m[1], m[2], m[3], E0 \oplus (s \otimes r[5])>>
  BY DEF Generated
<1> HIDE DEF s, r, m
<1>5. /\ p[1] = (One \oplus (s \otimes r[1])) \ominus One /\ p[5]
             = (E0 \oplus (s \otimes r[5])) \ominus E0
      /\ p[2] = m[1] \ominus (deck.vflow \otimes Normals[1])
      /\ p[3] = m[2] \ominus (deck.vflow \otimes Normals[2])
      /\ p[4] = m[3] \ominus (deck.vflow \otimes Normals[3])
  <2>1. u[c] = <<One \oplus (s \otimes r[1]), m[1], m[2], m[3], E0 \oplus (s \otimes r[5])>>
    BY <1>4
  <2> QED BY <2>1 DEF Vars
<1>6. ASSUME NEW x \in Fraction, NEW y \in Fraction PROVE (x \oplus y) \ominus x = y
  BY <1>6, AcrossSums
<1>7. One \in Fraction /\ E0 \in Fraction
  BY Background, Numbers
<1>8. \A x \in Fraction : s \otimes x \in Fraction
  BY <1>3, Closed
<1>9. /\ r[1] \in Fraction => p[1] = s \otimes r[1]
      /\ r[5] \in Fraction => p[5] = s \otimes r[5]
  BY <1>5, <1>6, <1>7, <1>8
<1> QED BY <1>2, <1>3, <1>5, <1>9 DEF s, r, m

\* What Perturbation says of a cell, for an eigenvector r.
Holds(p, s, r) ==
  LET v == deck.vflow
      m == Rotated(wave.angles, <<v \oplus (s \otimes r[2]), s \otimes r[3], s \otimes r[4]>>)
  IN /\ p[1] = s \otimes r[1] /\ p[5] = s \otimes r[5]
     /\ p[2] = m[1] \ominus (v \otimes Normals[1])
     /\ p[3] = m[2] \ominus (v \otimes Normals[2])
     /\ p[4] = m[3] \ominus (v \otimes Normals[3])

LEMMA HoldsAlong ==
  ASSUME deck \in WaveDecks, Tilted(wave.angles), NEW p,
         NEW s \in Fraction, NEW l \in Fraction, NEW h \in Fraction,
         Holds(p, s, <<One, l, Zero, Zero, h>>)
  PROVE  Longwise(p, s, l, h)
<1> DEFINE v == deck.vflow
           b == s \otimes l
           n == Normals
           m == Rotated(wave.angles, <<v \oplus b, s \otimes Zero, s \otimes Zero>>)
<1>1. v \in Fraction /\ n[1] \in Fraction /\ n[2] \in Fraction /\ n[3] \in Fraction
  BY Background, NormalFacts DEF Normals
<1>2. Zero \in Fraction /\ b \in Fraction /\ s \otimes One = s /\ s \otimes Zero = Zero
  BY Closed, Field, Sums
<1>3. /\ p[1] = s \otimes One /\ p[5] = s \otimes h
      /\ p[2] = m[1] \ominus (v \otimes n[1])
      /\ p[3] = m[2] \ominus (v \otimes n[2])
      /\ p[4] = m[3] \ominus (v \otimes n[3])
  BY DEF Holds
<1>4. p[2] = b \otimes n[1] /\ p[3] = b \otimes n[2] /\ p[4] = b \otimes n[3]
  <2>1. /\ p[2] = (b \otimes n[1]) \oplus Zero /\ p[3] = (b \otimes n[2]) \oplus Zero
        /\ p[4] = (b \otimes n[3]) \oplus Zero
    BY <1>1, <1>2, <1>3, RotatedApart, AcrossNone DEF Normals
  <2>2. b \otimes n[1] \in Fraction /\ b \otimes n[2] \in Fraction /\ b \otimes n[3] \in Fraction
    BY <1>1, <1>2, Closed
  <2> QED BY <2>1, <2>2, Field
<1> QED BY <1>2, <1>3, <1>4 DEF Longwise, Dirs

LEMMA HoldsAcross ==
  ASSUME deck \in WaveDecks, Tilted(wave.angles), NEW s \in Fraction, NEW p,
         NEW r3 \in Fraction, NEW r4 \in Fraction, Holds(p, s, <<Zero, Zero, r3, r4, Zero>>)
  PROVE  CarriedAt(p, deck.vflow)
<1> DEFINE v == deck.vflow
           n == Normals
           m2 == s \otimes r3
           m3 == s \otimes r4
           t == Across(wave.angles, m2, m3)
           m == Rotated(wave.angles, <<v \oplus Zero, m2, m3>>)
<1>1. m2 \in Fraction /\ m3 \in Fraction
  BY Closed
<1> HIDE DEF m2, m3
<1>2. /\ v \in Fraction /\ n[1] \in Fraction /\ n[2] \in Fraction /\ n[3] \in Fraction /\ Zero \in Fraction
      /\ s \otimes Zero = Zero /\ t[1] \in Fraction /\ t[2] \in Fraction /\ t[3] \in Fraction
  BY <1>1, Background, NormalFacts, Numbers, Sums, AcrossFacts DEF Normals
<1>3. /\ p[1] = Zero /\ p[5] = Zero
      /\ p[2] = m[1] \ominus (v \otimes n[1])
      /\ p[3] = m[2] \ominus (v \otimes n[2])
      /\ p[4] = m[3] \ominus (v \otimes n[3])
  BY <1>2 DEF Holds, m2, m3
<1>4. p[2] = t[1] /\ p[3] = t[2] /\ p[4] = t[3]
  <2>1. /\ p[2] = (Zero \otimes n[1]) \oplus t[1] /\ p[3] = (Zero \otimes n[2]) \oplus t[2]
        /\ p[4] = (Zero \otimes n[3]) \oplus t[3]
    BY <1>1, <1>2, <1>3, RotatedApart DEF Normals
  <2> HIDE DEF t, n
  <2>2. /\ Zero \otimes n[1] = Zero /\ Zero \otimes n[2] = Zero /\ Zero \otimes n[3] = Zero
        /\ Zero \oplus t[1] = t[1] /\ Zero \oplus t[2] = t[2] /\ Zero \oplus t[3] = t[3]
    BY <1>2, Sums
  <2> QED BY <2>1, <2>2
<1>5. \A k \in Dirs : p[k + 1] = Across(wave.angles, m2, m3)[k]
  BY <1>4 DEF Dirs
<1> QED BY <1>1, <1>3, <1>5, FluxAcross

\* A sound wave of direction e in a cell.
LEMMA HoldsSound ==
  ASSUME deck \in WaveDecks, Tilted(wave.angles), NEW p, NEW s \in Fraction,
         NEW e \in Fraction, SQR(e) = One,
         Holds(p, s, <<One, deck.vflow \oplus e, Zero, Zero, Enthalpy \oplus (deck.vflow \otimes e)>>)
  PROVE  CarriedAt(p, deck.vflow \oplus e)
<1> DEFINE v == deck.vflow
           l == v \oplus e
           h == Enthalpy \oplus (v \otimes e)
           K == Half \otimes SQR(v)
<1>1. v \otimes e \in Fraction /\ l \in Fraction
  BY Background, Closed
<1>2. h \in Fraction
  BY <1>1, Background, Closed
<1>3. Longwise(p, s, l, h)
  BY <1>1, <1>2, HoldsAlong
<1>4. CarriedBy(v, K, Enthalpy, gm1, s, l, h, s)
  <2>1. /\ v \in Fraction /\ K \in Fraction /\ Enthalpy \in Fraction /\ gm1 \in Fraction
        /\ SQR(v) = K \oplus K /\ gm1 \otimes (Enthalpy \ominus K) = One
    BY Background
  <2> HIDE DEF v, K
  <2> QED BY <2>1, SoundCarried
<1>5. Carries(s, l, h, s)
  BY <1>4 DEF Carries
<1> QED BY <1>1, <1>2, <1>3, <1>5, FluxAlong

LEMMA HoldsEntropy ==
  ASSUME deck \in WaveDecks, Tilted(wave.angles), NEW p, NEW s \in Fraction,
         Holds(p, s, <<One, deck.vflow, Zero, Zero, Half \otimes SQR(deck.vflow)>>)
  PROVE  CarriedAt(p, deck.vflow)
<1> DEFINE v == deck.vflow
           K == Half \otimes SQR(v)
<1>1. /\ v \in Fraction /\ K \in Fraction /\ Enthalpy \in Fraction /\ gm1 \in Fraction
      /\ SQR(v) = K \oplus K /\ Zero \in Fraction
  BY Background, Numbers
<1>2. Longwise(p, s, v, K)
  BY <1>1, HoldsAlong
<1>3. CarriedBy(v, K, Enthalpy, gm1, s, v, K, Zero)
  <2> HIDE DEF v, K
  <2> QED BY <1>1, EntropyCarried
<1>4. Carries(s, v, K, Zero)
  BY <1>3 DEF Carries
<1> QED BY <1>1, <1>2, <1>4, FluxAlong

LEMMA WaveCarried == WaveInv /\ deck \in WaveDecks => CarriedAtOneSpeed
<1> SUFFICES ASSUME WaveInv, deck \in WaveDecks, pc = "Execute", NEW c \in Cells
    PROVE  LET p == [k \in Vars |-> u[c][k] \ominus
                       (CASE k = 1 -> One [] k = 5 -> E0 [] OTHER -> deck.vflow \otimes Normals[k - 1])]
           IN  LinearFlux(p) = [k \in Vars |-> wave.ev[deck.wave_flag + 1] \otimes p[k]]
  BY DEF CarriedAtOneSpeed
<1> DEFINE p == [k \in Vars |-> u[c][k] \ominus
                   (CASE k = 1 -> One [] k = 5 -> E0 [] OTHER -> deck.vflow \otimes Normals[k - 1])]
           v == deck.vflow
           H == Enthalpy
           K == Half \otimes SQR(v)
           s == deck.amp \otimes Sine(Turns(Center(c)))
           f == deck.wave_flag + 1
           r == wave.rem[f]
           l == wave.ev[f]
<1>1. wave = WaveMade /\ u = [i \in Cells |-> Generated(Center(i))]
  BY DEF WaveInv
<1>2. /\ v \in Fraction /\ H \in Fraction /\ K \in Fraction /\ gm1 \in Fraction
      /\ SQR(v) = K \oplus K /\ gm1 \otimes (H \ominus K) = One
      /\ One \in Fraction /\ Zero \in Fraction
  BY Background, Numbers
<1>3. /\ wave.ev = <<v \ominus One, v, v, v, v \oplus One>>
      /\ wave.rem = << <<One, v \ominus One, Zero, Zero, H \ominus v>>,
                       <<Zero, Zero, One, Zero, Zero>>, <<Zero, Zero, Zero, One, Zero>>,
                       <<One, v, Zero, Zero, K>>,
                       <<One, v \oplus One, Zero, Zero, H \oplus v>> >>
  BY <1>1, Eigenvectors DEF WaveMade
<1>4. Tilted(wave.angles) /\ s \in Fraction /\ (r[1] \in Fraction /\ r[5] \in Fraction => Holds(p,
          s, r))
  BY <1>1, Perturbation DEF Holds
<1>5. f \in {1, 2, 3, 4, 5}
  BY WaveAssumption
<1> HIDE DEF p, v, H, K, s, f
<1>6. /\ v \oplus One \in Fraction /\ v \ominus One \in Fraction
      /\ H \oplus v \in Fraction /\ H \ominus v \in Fraction
  BY <1>2, Closed
<1>7. ASSUME f = 5 PROVE CarriedAt(p, l)
  <2>1. SQR(One) = One /\ v \otimes One = v
    BY <1>2, Field DEF SQR
  <2>2. Holds(p, s, <<One, v \oplus One, Zero, Zero, H \oplus (v \otimes One)>>) /\ l = v \oplus One
    BY <1>2, <1>3, <1>4, <1>6, <1>7, <2>1
  <2> QED BY <1>2, <1>4, <2>1, <2>2, HoldsSound DEF v, H
<1>8. ASSUME f = 1 PROVE CarriedAt(p, l)
  <2>1. Minus(One) \in Fraction /\ SQR(Minus(One)) = One /\ v \otimes Minus(One) = Minus(v)
    <3>1. SQR(One) = One /\ v \otimes One = v /\ Minus(One) \in Fraction
      BY <1>2, Field, Closed DEF SQR
    <3> QED BY <3>1, <1>2, Sums
  <2>2. v \ominus One = v \oplus Minus(One) /\ H \ominus v = H \oplus Minus(v)
    BY <1>2, Commuted
  <2>3. Holds(p, s, <<One, v \oplus Minus(One), Zero, Zero, H \oplus (v \otimes Minus(One))>>)
        /\ l = v \oplus Minus(One)
    BY <1>2, <1>3, <1>4, <1>6, <1>8, <2>1, <2>2
  <2> QED BY <1>4, <2>1, <2>3, HoldsSound DEF v, H
<1>9. ASSUME f = 4 PROVE CarriedAt(p, l)
  <2>1. Holds(p, s, <<One, v, Zero, Zero, K>>) /\ l = v
    BY <1>2, <1>3, <1>4, <1>9
  <2> QED BY <1>4, <2>1, HoldsEntropy DEF v, K
<1>10. ASSUME f = 2 PROVE CarriedAt(p, l)
  <2>1. Holds(p, s, <<Zero, Zero, One, Zero, Zero>>) /\ l = v
    BY <1>2, <1>3, <1>4, <1>10
  <2> QED BY <1>2, <1>4, <2>1, HoldsAcross DEF v
<1>11. ASSUME f = 3 PROVE CarriedAt(p, l)
  <2>1. Holds(p, s, <<Zero, Zero, Zero, One, Zero>>) /\ l = v
    BY <1>2, <1>3, <1>4, <1>11
  <2> QED BY <1>2, <1>4, <2>1, HoldsAcross DEF v
<1>12. CarriedAt(p, l)
  BY <1>5, <1>7, <1>8, <1>9, <1>10, <1>11
<1>13. <<l \otimes p[1], l \otimes p[2], l \otimes p[3], l \otimes p[4], l \otimes p[5]>>
         = [k \in Vars |-> l \otimes p[k]]
  BY DEF Vars
<1> QED BY <1>12, <1>13 DEF CarriedAt, p, v, f

\* The eigenvectors of every deck fit its background and its data, however the
\* wave is tilted: the runs check a few decks, this is all of them.
THEOREM WavesFitTheFluxes == Spec => []EigenvectorsFit
<1>1. WaveInv => EigenvectorsFit
  BY WaveBiorthogonal, WaveCarried DEF EigenvectorsFit
<1> QED BY <1>1, WaveInductive, PTL

-----------------------------------------------------------------------------
\* Numbers that may be a NaN.
LEMMA NumberFacts ==
  ASSUME NEW x \in Number, NEW y \in Number
  PROVE  /\ Plus(x, y) \in Number /\ Times(x, y) \in Number /\ Distance(x, y) \in Number
         /\ Divided(x, y) \in Number /\ StdMax(x, y) \in Number /\ NaN \notin Fraction
         /\ x = NaN \/ y = NaN => Plus(x, y) = NaN /\ Times(x, y) = NaN /\ Distance(x, y) = NaN
         /\ x # NaN <=> x \in Fraction
<1>1. NaN \notin Fraction
  BY DriftsAssumption
<1>2. x \in Fraction /\ y \in Fraction =>
        /\ x \oplus y \in Fraction /\ x \otimes y \in Fraction /\ Fabs(x \ominus y) \in Fraction
        /\ y # Zero => x \oslash y \in Fraction
  BY Closed
<1> QED BY <1>1, <1>2 DEF Number, Plus, Times, Distance, Divided, StdMax

LEMMA FractionFacts ==
  ASSUME NEW x \in Fraction, NEW y \in Fraction
  PROVE  /\ x \in Number /\ Plus(x, y) = x \oplus y /\ Times(x, y) = x \otimes y
         /\ Distance(x, y) = Fabs(x \ominus y)
         /\ y # Zero => Divided(x, y) = x \oslash y
         /\ StdMax(x, y) \in Fraction /\ x \preceq StdMax(x, y) /\ y \preceq StdMax(x, y)
<1>1. NaN \notin Fraction
  BY DriftsAssumption
<1>2. (x \preceq y \/ y \preceq x) /\ x \preceq x /\ y \preceq y /\ (x \prec y => x \preceq y)
      /\ (x \preceq y <=> ~(y \prec x)) /\ (y \preceq x <=> ~(x \prec y))
  BY Comparisons
<1> QED BY <1>1, <1>2 DEF Number, Plus, Times, Distance, Divided, StdMax

\* The maximum keeps a number against a NaN that comes second.
LEMMA Kept ==
  ASSUME NEW x \in Fraction, NEW y \in Number
  PROVE  /\ StdMax(x, y) \in Fraction /\ x \preceq StdMax(x, y)
         /\ y \in Fraction => y \preceq StdMax(x, y)
<1>1. NaN \notin Fraction /\ x \preceq x
  BY DriftsAssumption, Comparisons
<1>2. CASE y \in Fraction
  BY <1>2, FractionFacts
<1>3. CASE y = NaN
  BY <1>1, <1>3 DEF StdMax
<1> QED BY <1>2, <1>3 DEF Number

LEMMA Apart ==
  ASSUME NEW x \in Fraction, NEW y \in Fraction
  PROVE  Fabs(x \ominus y) = Zero <=> x = y
<1> DEFINE z == x \ominus y
<1>1. z \in Fraction /\ Zero \in Fraction
  BY Closed
<1>2. z \oplus y = x /\ Zero \oplus y = y /\ (x = y => z = Zero)
  BY Sums
<1>3. Minus(Minus(z)) = z /\ Minus(Zero) = Zero
  BY <1>1, Sums
<1>4. Fabs(z) \in {z, Minus(z)}
  BY <1>1, Absolute
<1> QED BY <1>2, <1>3, <1>4

\* Two errors that are not negative.
LEMMA ZeroSum ==
  ASSUME NEW x \in Fraction, NEW y \in Fraction, Zero \preceq x, Zero \preceq y
  PROVE  /\ x \oplus y \in Fraction /\ Zero \preceq x \oplus y
         /\ x \oplus y = Zero <=> x = Zero /\ y = Zero
<1>1. x \oplus y \in Fraction /\ Zero \in Fraction
  BY Closed
<1>2. Zero \oplus y \preceq x \oplus y /\ Zero \oplus y = y /\ x \oplus Zero = x
  BY <1>1, Comparisons, Sums, Field
<1>3. y \preceq x \oplus y
  BY <1>2
<1>4. Zero \preceq x \oplus y
  BY <1>1, <1>3, Comparisons
<1>5. ASSUME x \oplus y = Zero PROVE x = Zero /\ y = Zero
  <2>1. y = Zero
    BY <1>1, <1>3, <1>5, Comparisons
  <2> QED BY <2>1, <1>2, <1>5
<1>6. Zero \oplus Zero = Zero
  BY <1>1, Sums
<1> QED BY <1>1, <1>4, <1>5, <1>6

\* A square, and a multiple of what is positive.
LEMMA ZeroProduct ==
  ASSUME NEW x \in Fraction, NEW y \in Fraction, Zero \preceq x
  PROVE  /\ x \otimes x \in Fraction /\ Zero \preceq x \otimes x /\ (x \otimes x = Zero <=> x = Zero)
         /\ Zero \prec y => /\ x \otimes y \in Fraction /\ Zero \preceq x \otimes y
                            /\ x \otimes y = Zero <=> x = Zero
<1>1. /\ x \otimes x \in Fraction /\ x \otimes y \in Fraction /\ Zero \in Fraction
      /\ Zero \otimes x = Zero /\ Zero \otimes y = Zero /\ Zero \preceq Zero
  BY Closed, Sums, Comparisons
<1>2. CASE x = Zero
  BY <1>1, <1>2
<1>3. CASE x # Zero
  <2>1. Zero \prec x
    BY <1>1, <1>3, Ordered
  <2>2. Zero \prec x \otimes x /\ (Zero \prec y => Zero \prec x \otimes y)
    BY <2>1, Ordered
  <2> QED BY <1>1, <1>3, <2>2, Comparisons
<1> QED BY <1>2, <1>3

-----------------------------------------------------------------------------
\* The cells fill the mesh.
LEMMA MeshVolume ==
  ASSUME deck \in WaveDecks
  PROVE  /\ Size3 \in Nat \ {0} /\ R(Size3, 1) \in Fraction
         /\ Volume \in Fraction /\ Zero \prec Volume
         /\ CellVolume \in Fraction /\ Zero \prec CellVolume
         /\ R(Size3, 1) \otimes CellVolume = Volume
<1>1. /\ deck.nx[1] \in Pos /\ deck.nx[2] \in Pos /\ deck.nx[3] \in Pos
      /\ deck.size[1] \in Fraction /\ deck.size[2] \in Fraction /\ deck.size[3] \in Fraction
      /\ Zero \prec deck.size[1] /\ Zero \prec deck.size[2] /\ Zero \prec deck.size[3]
  BY WaveAssumption DEF Dirs, Pos
<1>2. Size3 \in Pos
  BY <1>1, PosTimes DEF Size3, CellCount
<1>3. Volume \in Fraction /\ Zero \prec Volume
  <2>1. deck.size[1] \otimes deck.size[2] \in Fraction
        /\ Zero \prec deck.size[1] \otimes deck.size[2]
    BY <1>1, PositiveTimes
  <2> QED BY <1>1, <2>1, PositiveTimes DEF Volume
<1>4. R(Size3, 1) \in Fraction /\ Zero \prec R(Size3, 1) /\ Zero \in Fraction
  <2>1. 1 \in Pos /\ Size3 \in Int /\ 0 < Size3
    BY <1>2 DEF Pos
  <2>2. Over(R(Size3, 1), Size3, 1) /\ Over(Zero, 0, 1)
    BY <2>1, OverR, OverConstants
  <2> QED BY <2>1, <2>2, OverLess, OverParts
<1>5. CellVolume \in Fraction /\ R(Size3, 1) \otimes CellVolume = Volume
  BY <1>3, <1>4, Shares, Quotients DEF CellVolume
<1>6. Zero \prec CellVolume
  <2>1. Zero \oslash R(Size3, 1) = Zero
    BY <1>4, Shares, Quotients
  <2>2. Zero \preceq CellVolume
    BY <1>3, <1>4, <2>1, Shares, Comparisons DEF CellVolume
  <2>3. CellVolume # Zero
    BY <1>3, <1>4, <1>5, Sums, Comparisons
  <2> QED BY <1>4, <1>5, <2>2, <2>3, Ordered
<1> QED BY <1>2, <1>3, <1>4, <1>5, <1>6 DEF Pos

\* The solution a cell is compared with is a number in every variable.
LEMMA Solution ==
  ASSUME deck \in WaveDecks, wave = WaveMade, NEW c \in Cells
  PROVE  /\ Analytic(Center(c)) = Generated(Center(c))
         /\ Generated(Center(c)) \in [Vars -> Fraction]
<1> DEFINE s == deck.amp \otimes Sine(Turns(Center(c)))
           r == wave.rem[deck.wave_flag + 1]
           v == deck.vflow
           H == Enthalpy
           w == <<v \oplus (s \otimes r[2]), s \otimes r[3], s \otimes r[4]>>
           m == Rotated(wave.angles, w)
<1>1. Generated(Center(c)) = <<One \oplus (s \otimes r[1]), m[1], m[2], m[3], E0 \oplus (s \otimes r[5])>>
  BY DEF Generated
<1>2. Analytic(Center(c)) = Generated(Center(c))
  BY DEF Generated, Analytic
<1>3. wave.angles = Angles(deck) /\ wave.lambda = Lambda(deck, Angles(deck))
  BY DEF WaveMade
<1>4. Tilted(wave.angles)
  <2>1. Angles(deck)[1] = Angle2(deck) /\ Angles(deck)[2] = Angle3(deck)
    BY DEF Angles
  <2> QED BY <1>3, <2>1, AnglesAre DEF Tilted
<1>5. s \in Fraction
  <2>1. Turns(Center(c)) = Phase(Normal(Angles(deck)), Lambda(deck, Angles(deck)), CenterOf(deck, c))
    BY <1>3 DEF Turns, Center
  <2>2. c \in 0 .. CellCount(deck) - 1
    BY DEF Cells, Size3
  <2>3. Sine(Turns(Center(c))) \in Fraction
    BY <2>1, <2>2, LambdaApart, SineAssumption
  <2>4. deck.amp \in Fraction
    BY WaveAssumption
  <2> QED BY <2>3, <2>4, Closed
<1>6. /\ v \in Fraction /\ H \in Fraction /\ Half \otimes SQR(v) \in Fraction /\ E0 \in Fraction
      /\ One \in Fraction /\ Zero \in Fraction
  BY Background, Numbers
<1>7. r[1] \in Fraction /\ r[2] \in Fraction /\ r[3] \in Fraction /\ r[4] \in Fraction /\ r[5] \in Fraction
  <2>1. wave.rem = << <<One, v \ominus One, Zero, Zero, H \ominus v>>,
                       <<Zero, Zero, One, Zero, Zero>>, <<Zero, Zero, Zero, One, Zero>>,
                       <<One, v, Zero, Zero, Half \otimes SQR(v)>>,
                       <<One, v \oplus One, Zero, Zero, H \oplus v>> >>
    BY Eigenvectors DEF WaveMade
  <2>2. deck.wave_flag + 1 \in {1, 2, 3, 4, 5}
    BY WaveAssumption
  <2>3. /\ v \oplus One \in Fraction /\ v \ominus One \in Fraction
        /\ H \oplus v \in Fraction /\ H \ominus v \in Fraction
    BY <1>6, Closed
  <2> HIDE DEF v, H
  <2> QED BY <1>6, <2>1, <2>2, <2>3
<1> HIDE DEF s, r, v, H
<1>8. w[1] \in Fraction /\ w[2] \in Fraction /\ w[3] \in Fraction
  <2>1. s \otimes r[2] \in Fraction /\ s \otimes r[3] \in Fraction /\ s \otimes r[4] \in Fraction
    BY <1>5, <1>7, Closed
  <2> QED BY <1>6, <2>1, Closed
<1>9. m[1] \in Fraction /\ m[2] \in Fraction /\ m[3] \in Fraction
  <2> HIDE DEF w
  <2> DEFINE C2 == wave.angles[1].cos
             S2 == wave.angles[1].sin
             C3 == wave.angles[2].cos
             S3 == wave.angles[2].sin
  <2>1. C2 \in Fraction /\ S2 \in Fraction /\ C3 \in Fraction /\ S3 \in Fraction
    BY <1>4 DEF Tilted, IsAngle
  <2>2. m = << ((((w[1] \otimes C2) \otimes C3) \ominus (w[2] \otimes S3)) \ominus ((w[3] \otimes S2) \otimes C3)),
               ((((w[1] \otimes C2) \otimes S3) \oplus ((w[2] \otimes C3) \ominus ((w[3] \otimes S2) \otimes S3)))),
               (w[1] \otimes S2) \oplus (w[3] \otimes C2) >>
    BY DEF Rotated
  <2> HIDE DEF C2, S2, C3, S3, m
  <2>3. /\ w[1] \otimes C2 \in Fraction /\ w[2] \otimes S3 \in Fraction /\ w[3] \otimes S2 \in Fraction
        /\ w[2] \otimes C3 \in Fraction /\ w[1] \otimes S2 \in Fraction /\ w[3] \otimes C2 \in Fraction
    BY <1>8, <2>1, Closed
  <2>4. /\ (w[1] \otimes C2) \otimes C3 \in Fraction /\ (w[1] \otimes C2) \otimes S3 \in Fraction
        /\ (w[3] \otimes S2) \otimes C3 \in Fraction /\ (w[3] \otimes S2) \otimes S3 \in Fraction
        /\ (w[1] \otimes S2) \oplus (w[3] \otimes C2) \in Fraction
    BY <2>1, <2>3, Closed
  <2>5. /\ ((w[1] \otimes C2) \otimes C3) \ominus (w[2] \otimes S3) \in Fraction
        /\ (w[2] \otimes C3) \ominus ((w[3] \otimes S2) \otimes S3) \in Fraction
    BY <2>3, <2>4, Closed
  <2>6. /\ (((w[1] \otimes C2) \otimes C3) \ominus (w[2] \otimes S3)) \ominus ((w[3] \otimes S2) \otimes C3) \in Fraction
        /\ ((w[1] \otimes C2) \otimes S3) \oplus ((w[2] \otimes C3) \ominus ((w[3] \otimes S2) \otimes S3)) \in Fraction
    BY <2>4, <2>5, Closed
  <2> QED BY <2>2, <2>4, <2>6
<1> HIDE DEF m
<1>10. One \oplus (s \otimes r[1]) \in Fraction /\ E0 \oplus (s \otimes r[5]) \in Fraction
  <2>1. s \otimes r[1] \in Fraction /\ s \otimes r[5] \in Fraction
    BY <1>5, <1>7, Closed
  <2> QED BY <1>6, <2>1, Closed
<1>11. ASSUME NEW a1 \in Fraction, NEW a2 \in Fraction, NEW a3 \in Fraction, NEW a4 \in Fraction, NEW a5 \in Fraction
       PROVE  <<a1, a2, a3, a4, a5>> \in [Vars -> Fraction]
  BY DEF Vars
<1> QED BY <1>1, <1>2, <1>9, <1>10, <1>11

-----------------------------------------------------------------------------
\* A number of cells has so much volume; what it is by the greatest error m.
Share(S, m) == (R(Cardinality(S), 1) \otimes CellVolume) \otimes m

\* What the sum l and the greatest m of the errors of a variable tell of the cells S.
Tells(S, n, l, m) ==
  /\ (\E c \in S : u[c][n] = NaN) => l = NaN
  /\ (\A c \in S : u[c][n] # NaN) =>
       /\ l \in Fraction /\ m \in Fraction /\ Zero \preceq l /\ Zero \preceq m
       /\ l = Zero <=> \A c \in S : u[c][n] = Analytic(Center(c))[n]
       /\ l \preceq Share(S, m)

LEMMA NoCells == ASSUME deck \in WaveDecks, NEW n \in Vars PROVE Tells({}, n, Zero, Zero)
<1>1. Zero \in Fraction /\ Zero \preceq Zero /\ Cardinality({}) = 0
  BY Numbers, Comparisons, FS_EmptySet
<1>2. Share({}, Zero) = Zero
  <2>1. R(0, 1) = Zero
    BY DEF Zero
  <2>2. Zero \otimes CellVolume = Zero /\ Zero \otimes Zero = Zero
    BY <1>1, MeshVolume, Sums
  <2> QED BY <1>1, <2>1, <2>2 DEF Share
<1> QED BY <1>1, <1>2 DEF Tells

\* The error of one cell, by its volume.
LEMMA OneCell ==
  ASSUME deck \in WaveDecks, wave = WaveMade, u \in [Cells -> [Vars -> Number]],
         NEW c \in Cells, NEW n \in Vars
  PROVE  LET d == Distance(Analytic(Center(c))[n], u[c][n])
         IN  d \in Number /\ Times(d, CellVolume) \in Number /\ Tells({c}, n, Times(d, CellVolume), d)
<1> DEFINE x == Analytic(Center(c))[n]
           y == u[c][n]
           d == Distance(x, y)
           l == Times(d, CellVolume)
<1>1. x \in Fraction /\ x \in Number /\ y \in Number
  BY Solution DEF Number
<1>2. CellVolume \in Fraction /\ CellVolume \in Number /\ Zero \prec CellVolume
  BY MeshVolume DEF Number
<1> HIDE DEF x, y
<1>3. d \in Number /\ l \in Number
  BY <1>1, <1>2, NumberFacts
<1>4. y = NaN => l = NaN
  BY <1>1, <1>2, <1>3, NumberFacts
<1>5. ASSUME y # NaN
      PROVE  /\ l \in Fraction /\ d \in Fraction /\ Zero \preceq l /\ Zero \preceq d
             /\ l = Zero <=> y = x
             /\ l \preceq Share({c}, d)
  <2>1. y \in Fraction
    BY <1>1, <1>5 DEF Number
  <2>2. d = Fabs(x \ominus y) /\ x \ominus y \in Fraction
    BY <1>1, <2>1, FractionFacts, Closed
  <2>3. d \in Fraction /\ Zero \preceq d /\ (d = Zero <=> x = y)
    BY <1>1, <2>1, <2>2, Absolute, Apart
  <2> HIDE DEF d
  <2>4. l = d \otimes CellVolume
    BY <1>2, <2>3, FractionFacts
  <2>5. l \in Fraction /\ Zero \preceq l /\ (l = Zero <=> d = Zero)
    BY <1>2, <2>3, <2>4, ZeroProduct
  <2>6. Share({c}, d) = l
    <3>1. Cardinality({c}) = 1 /\ R(1, 1) = One
      BY FS_Singleton DEF One
    <3>2. One \otimes CellVolume = CellVolume /\ CellVolume \otimes d = d \otimes CellVolume
      BY <1>2, <2>3, Sums, Commuted
    <3> QED BY <2>4, <3>1, <3>2 DEF Share
  <2>7. l \preceq l
    BY <2>5, Comparisons
  <2> QED BY <2>3, <2>5, <2>6, <2>7
<1>6. Tells({c}, n, l, d)
  <2>1. (\E i \in {c} : u[i][n] = NaN) <=> y = NaN
    BY DEF y
  <2>2. (\A i \in {c} : u[i][n] # NaN) <=> y # NaN
    BY DEF y
  <2>3. (\A i \in {c} : u[i][n] = Analytic(Center(i))[n]) <=> y = x
    BY DEF x, y
  <2> HIDE DEF l, d
  <2> QED BY <1>4, <1>5, <2>1, <2>2, <2>3 DEF Tells
<1> QED BY <1>3, <1>6 DEF x, y

\* What two disjoint sets of cells tell, put together.
LEMMA Joined ==
  ASSUME deck \in WaveDecks, u \in [Cells -> [Vars -> Number]],
         NEW S \in SUBSET Cells, NEW T \in SUBSET Cells, S \cap T = {}, NEW n \in Vars,
         NEW l \in Number, NEW k \in Number, NEW a, NEW b, NEW m,
         Tells(S, n, l, a), Tells(T, n, k, b),
         a \in Fraction /\ b \in Fraction => m \in Fraction /\ a \preceq m /\ b \preceq m
  PROVE  Tells(S \cup T, n, Plus(l, k), m)
<1>1. (\E c \in S \cup T : u[c][n] = NaN) => Plus(l, k) = NaN
  BY NumberFacts DEF Tells
<1>2. ASSUME \A c \in S \cup T : u[c][n] # NaN
      PROVE  /\ Plus(l, k) \in Fraction /\ m \in Fraction /\ Zero \preceq Plus(l, k) /\ Zero \preceq m
             /\ Plus(l, k) = Zero <=> \A c \in S \cup T : u[c][n] = Analytic(Center(c))[n]
             /\ Plus(l, k) \preceq Share(S \cup T, m)
  <2>1. /\ l \in Fraction /\ a \in Fraction /\ Zero \preceq l /\ Zero \preceq a
        /\ l = Zero <=> \A c \in S : u[c][n] = Analytic(Center(c))[n]
        /\ l \preceq Share(S, a)
    BY <1>2 DEF Tells
  <2>2. /\ k \in Fraction /\ b \in Fraction /\ Zero \preceq k /\ Zero \preceq b
        /\ k = Zero <=> \A c \in T : u[c][n] = Analytic(Center(c))[n]
        /\ k \preceq Share(T, b)
    BY <1>2 DEF Tells
  <2>3. /\ Plus(l, k) = l \oplus k /\ l \oplus k \in Fraction /\ Zero \preceq l \oplus k
        /\ l \oplus k = Zero <=> l = Zero /\ k = Zero
    BY <2>1, <2>2, FractionFacts, ZeroSum
  <2>4. m \in Fraction /\ a \preceq m /\ b \preceq m /\ Zero \preceq m
    <3>1. Zero \in Fraction /\ m \in Fraction /\ a \preceq m /\ b \preceq m
      BY <2>1, <2>2, Numbers
    <3> QED BY <2>1, <3>1, Comparisons
  <2>5. l \oplus k \preceq Share(S \cup T, m)
    <3> DEFINE s == Cardinality(S)
               t == Cardinality(T)
               x == R(s, 1) \otimes CellVolume
               y == R(t, 1) \otimes CellVolume
    <3>1. s \in Nat /\ t \in Nat /\ Cardinality(S \cup T) = s + t
      <4>1. Size3 \in Nat /\ IsFiniteSet(Cells)
        BY MeshVolume, FS_Interval DEF Cells
      <4>2. IsFiniteSet(S) /\ IsFiniteSet(T)
        BY <4>1, FS_Subset
      <4>3. Cardinality(S \cap T) = 0
        BY FS_EmptySet
      <4>4. Cardinality(S \cup T) = s + t - 0
        BY <4>2, <4>3, FS_Union
      <4> QED BY <4>2, <4>4, FS_CardinalityType
    <3> HIDE DEF s, t
    <3>2. /\ R(s, 1) \in Fraction /\ R(t, 1) \in Fraction /\ Zero \preceq R(s, 1) /\ Zero \preceq R(t, 1)
          /\ R(s + t, 1) = R(s, 1) \oplus R(t, 1)
      <4>1. 1 \in Pos /\ s \in Int /\ t \in Int /\ s + t \in Int
        BY <3>1 DEF Pos
      <4>2. Over(R(s, 1), s, 1) /\ Over(R(t, 1), t, 1) /\ Over(R(s + t, 1), s + t, 1) /\ Over(Zero, 0, 1)
        BY <4>1, OverR, OverConstants
      <4>3. Over(R(s, 1) \oplus R(t, 1), s + t, 1)
        BY <4>2, OverPlus
      <4>4. R(s, 1) \in Fraction /\ R(t, 1) \in Fraction /\ R(s + t, 1) = R(s, 1) \oplus R(t, 1)
        BY <4>2, <4>3, OverParts, OverEqual
      <4>5. Zero \preceq R(s, 1) /\ Zero \preceq R(t, 1)
        BY <4>2, <3>1, OverLess
      <4> QED BY <4>4, <4>5
    <3>3. CellVolume \in Fraction /\ Zero \prec CellVolume
      BY MeshVolume
    <3>4. x \in Fraction /\ y \in Fraction /\ Zero \preceq x /\ Zero \preceq y
      BY <3>2, <3>3, ZeroProduct
    <3>5. R(s + t, 1) \otimes CellVolume = x \oplus y
      BY <3>2, <3>3, Distributed
    <3> HIDE DEF x, y
    <3>6. /\ x \otimes a \in Fraction /\ x \otimes m \in Fraction /\ x \otimes a \preceq x \otimes m
          /\ y \otimes b \in Fraction /\ y \otimes m \in Fraction /\ y \otimes b \preceq y \otimes m
      BY <2>1, <2>2, <2>4, <3>4, Closed, Products
    <3>7. l \preceq x \otimes m /\ k \preceq y \otimes m
      BY <2>1, <2>2, <3>6, Comparisons DEF Share, x, y, s, t
    <3>8. l \oplus k \preceq (x \otimes m) \oplus k /\ (x \otimes m) \oplus k \preceq (x \otimes m) \oplus (y \otimes m)
      <4>1. l \oplus k \preceq (x \otimes m) \oplus k
        BY <2>1, <2>2, <3>6, <3>7, Comparisons
      <4>2. k \oplus (x \otimes m) \preceq (y \otimes m) \oplus (x \otimes m)
        BY <2>2, <3>6, <3>7, Comparisons
      <4> QED BY <4>1, <4>2, <2>2, <3>6, Commuted
    <3>9. (x \otimes m) \oplus (y \otimes m) = (x \oplus y) \otimes m
      BY <2>4, <3>4, Distributed
    <3>10. (x \otimes m) \oplus k \in Fraction /\ (x \otimes m) \oplus (y \otimes m) \in Fraction
      BY <2>2, <3>6, Closed
    <3>11. l \oplus k \preceq (x \oplus y) \otimes m
      BY <2>3, <3>8, <3>9, <3>10, Comparisons
    <3> QED BY <3>1, <3>5, <3>11 DEF Share
  <2> QED BY <2>1, <2>2, <2>3, <2>4, <2>5
<1> QED BY <1>1, <1>2 DEF Tells

-----------------------------------------------------------------------------
\* The cells whose errors a rank has.
Counted(r) == {c \in Cells \ todo : RankOf(c, Size3) \in from[r]}

\* Ranks pass their errors on whole: no cell is counted by two, none of a rank
\* whose loop still runs by another, and what a rank has tells of its cells.
Loop == pc = "UserWorkAfterLoop" \/ pc = "exit"
Accounts ==
  /\ todo \subseteq Cells /\ from \in [Ranks -> SUBSET Ranks]
  /\ l1_err \in [Ranks -> [Vars -> Number]] /\ max_err \in [Ranks -> [Vars -> Number]]
  /\ \A r, s \in Ranks : r # s => from[r] \cap from[s] = {}
  /\ \A c \in todo : from[RankOf(c, Size3)] = {RankOf(c, Size3)}
Summed ==
  /\ ~Loop => todo = Cells /\ \A r \in Ranks, n \in Vars : l1_err[r][n] = Zero /\ max_err[r][n] = Zero
  /\ Loop => /\ u \in [Cells -> [Vars -> Number]]
             /\ \A r \in Ranks, n \in Vars :
                  from[r] # {} => Tells(Counted(r), n, l1_err[r][n], max_err[r][n])
Rowed ==
  row # None =>
    /\ pc = "exit" /\ todo = {}
    /\ \E r \in Ranks : from[r] = Ranks /\ row = RowOf(Normalized(l1_err[r]), max_err[r])
RowInv == deck \in WaveDecks => Accounts /\ Summed /\ Rowed

LEMMA RowInit == Init => RowInv
<1> SUFFICES ASSUME Init, deck \in WaveDecks PROVE Accounts /\ Summed /\ Rowed
  BY DEF RowInv
<1>1. InitWave
  BY DecksAssumption DEF Init, InitProfile
<1>2. Zero \in Number
  BY Numbers DEF Number
<1>3. \A c \in Cells : RankOf(c, Size3) \in Ranks
  BY DriftsAssumption DEF Cells, Size3
<1> QED BY <1>1, <1>2, <1>3 DEF InitWave, Accounts, Summed, Rowed, Loop

\* What the errors are measured by stays.
LEMMA Measured ==
  ASSUME deck' = deck, wave' = wave, u' = u
  PROVE  /\ \A S, n, l, m : Tells(S, n, l, m)' = Tells(S, n, l, m)
         /\ Cells' = Cells /\ Size3' = Size3 /\ CellVolume' = CellVolume /\ Volume' = Volume
         /\ \A l1, max : RowOf(Normalized(l1), max)' = RowOf(Normalized(l1), max)
<1>1. Size3' = Size3 /\ Volume' = Volume
  BY DEF Size3, Volume
<1>2. Cells' = Cells /\ CellVolume' = CellVolume
  BY <1>1 DEF Cells, CellVolume
<1>3. \A c : Analytic(Center(c))' = Analytic(Center(c))
  BY DEF Analytic, Turns, Center, E0, p0, gm1
<1>4. \A S, m : Share(S, m)' = Share(S, m)
  BY <1>2 DEF Share
<1>5. \A S, n, l, m : Tells(S, n, l, m)' = Tells(S, n, l, m)
  BY <1>3, <1>4 DEF Tells
<1>6. \A l1, max : RowOf(Normalized(l1), max)' = RowOf(Normalized(l1), max)
  BY <1>1 DEF RowOf, Normalized
<1> QED BY <1>1, <1>2, <1>5, <1>6

\* The callbacks before the loop over the cells.
LEMMA BeforeLoop ==
  ASSUME deck \in WaveDecks, RowInv, WaveInv, InitUserMeshData \/ ProblemGenerator \/ Execute
  PROVE  RowInv'
<1> USE DEF RowInv
<1>1. deck' = deck /\ todo' = todo /\ from' = from /\ l1_err' = l1_err /\ max_err' = max_err /\ row' = row
  BY DEF InitUserMeshData, ProblemGenerator, Execute
<1>2. ~Loop /\ row = None
  BY DEF InitUserMeshData, ProblemGenerator, Execute, Loop, Rowed
<1>3. Cells' = Cells /\ Size3' = Size3
  BY <1>1 DEF Cells, Size3
<1>4. Accounts' /\ Rowed'
  BY <1>1, <1>2, <1>3 DEF Accounts, Rowed
<1>5. CASE InitUserMeshData \/ ProblemGenerator
  <2>1. ~Loop'
    BY <1>5 DEF InitUserMeshData, ProblemGenerator, Loop
  <2> QED BY <1>1, <1>2, <1>3, <1>4, <2>1 DEF Summed
<1>6. CASE Execute
  <2>1. wave = WaveMade /\ u = [c \in Cells |-> Generated(Center(c))]
    BY <1>6 DEF WaveInv, Execute
  <2>2. PICK d \in Drifts(deck) : u' = [c \in Cells |-> [n \in Vars |-> Plus(u[c][n], d[c][n])]]
    BY <1>6 DEF Execute
  <2>3. u' \in [Cells -> [Vars -> Number]]
    <3>1. d \in [Cells -> [Vars -> Number]]
      BY DriftsAssumption DEF Cells, Size3
    <3>2. ASSUME NEW c \in Cells, NEW n \in Vars PROVE Plus(u[c][n], d[c][n]) \in Number
      <4>1. u[c][n] \in Number
        BY <2>1, Solution DEF Number
      <4>2. d[c][n] \in Number
        BY <3>1
      <4> QED BY <4>1, <4>2, NumberFacts
    <3> QED BY <2>2, <3>2
  <2>4. ASSUME NEW r \in Ranks, NEW n \in Vars PROVE Tells(Counted(r), n, l1_err[r][n], max_err[r][n])'
    <3>1. Counted(r)' = {}
      BY <1>1, <1>2, <1>3 DEF Counted, Summed
    <3>2. l1_err[r][n] = Zero /\ max_err[r][n] = Zero
      BY <1>2 DEF Summed
    <3>3. Tells({}, n, Zero, Zero)
      BY NoCells
    <3>4. Tells({}, n, Zero, Zero)' = Tells({}, n, Zero, Zero)
      <4>1. CellVolume' = CellVolume
        BY <1>1 DEF CellVolume, Volume, Size3
      <4> QED BY <4>1 DEF Tells, Share
    <3> QED BY <1>1, <3>1, <3>2, <3>3, <3>4
  <2>5. Loop'
    BY <1>6 DEF Execute, Loop
  <2> QED BY <1>1, <1>3, <1>4, <2>3, <2>4, <2>5 DEF Summed
<1> QED BY <1>5, <1>6

LEMMA CellCounted ==
  ASSUME deck \in WaveDecks, RowInv, WaveInv, NEW c \in Cells, SumErrors(c)
  PROVE  RowInv'
<1> DEFINE q == RankOf(c, Size3)
           d(n) == Distance(Analytic(Center(c))[n], u[c][n])
<1>1. /\ pc = "UserWorkAfterLoop" /\ pc' = pc /\ c \in todo /\ todo' = todo \ {c}
      /\ deck' = deck /\ wave' = wave /\ u' = u /\ from' = from /\ row' = row
      /\ l1_err' = [l1_err EXCEPT ![q] = [n \in Vars |-> Plus(l1_err[q][n], Times(d(n), CellVolume))]]
      /\ max_err' = [max_err EXCEPT ![q] = [n \in Vars |-> StdMax(d(n), max_err[q][n])]]
  BY DEF SumErrors
<1>2. Accounts /\ Summed /\ Rowed /\ wave = WaveMade /\ u \in [Cells -> [Vars -> Number]] /\ row = None
  BY <1>1 DEF RowInv, WaveInv, Summed, Loop, Rowed
<1>3. q \in Ranks /\ from[q] = {q}
  BY <1>1, <1>2, DriftsAssumption DEF Accounts, Cells, Size3
<1>4. /\ \A S, n, l, m : Tells(S, n, l, m)' = Tells(S, n, l, m)
      /\ Cells' = Cells /\ Size3' = Size3
  BY <1>1, Measured
<1>5. \A n \in Vars : d(n) \in Number /\ Times(d(n), CellVolume) \in Number /\ Tells({c}, n, Times(d(n), CellVolume), d(n))
  BY <1>2, OneCell
<1> HIDE DEF d
<1>6. \A n \in Vars : Plus(l1_err[q][n], Times(d(n), CellVolume)) \in Number /\ StdMax(d(n), max_err[q][n]) \in Number
  BY <1>2, <1>3, <1>5, NumberFacts DEF Accounts
<1>7. Accounts' /\ Rowed'
  BY <1>1, <1>2, <1>3, <1>4, <1>6 DEF Accounts, Rowed
<1>8. ASSUME NEW r \in Ranks, NEW n \in Vars, from[r] # {}
      PROVE  Tells(Counted(r), n, l1_err[r][n], max_err[r][n])'
  <2>1. Tells(Counted(r), n, l1_err[r][n], max_err[r][n])
    BY <1>1, <1>2, <1>8 DEF Summed, Loop
  <2>2. CASE r = q
    <3>1. Counted(r)' = Counted(r) \cup {c}
      BY <1>1, <1>2, <1>3, <1>4, <2>2 DEF Counted, Accounts
    <3>2. Counted(r) \in SUBSET Cells /\ {c} \in SUBSET Cells /\ Counted(r) \cap {c} = {}
      BY <1>1 DEF Counted
    <3>3. l1_err[r][n]' = Plus(l1_err[r][n], Times(d(n), CellVolume)) /\ max_err[r][n]' = StdMax(d(n), max_err[r][n])
      BY <1>1, <1>2, <1>3, <2>2 DEF Accounts
    <3>4. l1_err[r][n] \in Number
      BY <1>2 DEF Accounts
    <3>5. max_err[r][n] \in Fraction /\ d(n) \in Fraction =>
            LET m == StdMax(d(n), max_err[r][n])
            IN m \in Fraction /\ max_err[r][n] \preceq m /\ d(n) \preceq m
      BY FractionFacts
    <3>6. Tells(Counted(r) \cup {c}, n, Plus(l1_err[r][n], Times(d(n), CellVolume)), StdMax(d(n), max_err[r][n]))
      BY <1>2, <1>5, <2>1, <3>2, <3>4, <3>5, Joined
    <3> QED BY <1>4, <3>1, <3>3, <3>6
  <2>3. CASE r # q
    <3>1. Counted(r)' = Counted(r)
      BY <1>1, <1>2, <1>3, <1>4, <2>3 DEF Counted, Accounts
    <3>2. l1_err[r][n]' = l1_err[r][n] /\ max_err[r][n]' = max_err[r][n]
      BY <1>1, <1>2, <2>3 DEF Accounts
    <3> QED BY <1>4, <2>1, <3>1, <3>2
  <2> QED BY <2>2, <2>3
<1>9. Summed'
  BY <1>1, <1>2, <1>4, <1>8 DEF Summed, Loop
<1> QED BY <1>7, <1>9 DEF RowInv

LEMMA RanksReduced ==
  ASSUME deck \in WaveDecks, RowInv, WaveInv, NEW a \in Ranks, NEW b \in Ranks, Reduce(a, b)
  PROVE  RowInv'
<1>1. /\ pc = "UserWorkAfterLoop" /\ pc' = pc /\ todo' = todo /\ a # b /\ from[a] # {} /\ from[b] # {}
      /\ \A c \in todo : RankOf(c, Size3) \notin {a, b}
      /\ deck' = deck /\ wave' = wave /\ u' = u /\ row' = row
      /\ from' = [from EXCEPT ![a] = from[a] \cup from[b], ![b] = {}]
      /\ l1_err' = [l1_err EXCEPT ![a] = [n \in Vars |-> Plus(l1_err[a][n], l1_err[b][n])]]
      /\ max_err' = [max_err EXCEPT ![a] = [n \in Vars |-> StdMax(max_err[a][n], max_err[b][n])]]
  BY DEF Reduce
<1>2. Accounts /\ Summed /\ Rowed /\ u \in [Cells -> [Vars -> Number]] /\ row = None
  BY <1>1 DEF RowInv, Summed, Loop, Rowed
<1>3. /\ \A S, n, l, m : Tells(S, n, l, m)' = Tells(S, n, l, m)
      /\ Cells' = Cells /\ Size3' = Size3
  BY <1>1, Measured
<1>4. /\ from'[a] = from[a] \cup from[b] /\ from'[b] = {} /\ \A r \in Ranks \ {a, b} : from'[r] = from[r]
      /\ from' \in [Ranks -> SUBSET Ranks]
  BY <1>1, <1>2 DEF Accounts
<1>5. \A n \in Vars : Plus(l1_err[a][n], l1_err[b][n]) \in Number /\ StdMax(max_err[a][n], max_err[b][n]) \in Number
  BY <1>2, NumberFacts DEF Accounts
<1>6. \A r, s \in Ranks : r # s => from'[r] \cap from'[s] = {}
  BY <1>2, <1>4 DEF Accounts
<1>7. Accounts' /\ Rowed'
  <2>1. l1_err' \in [Ranks -> [Vars -> Number]] /\ max_err' \in [Ranks -> [Vars -> Number]]
    BY <1>1, <1>2, <1>5 DEF Accounts
  <2>2. \A c \in todo : from'[RankOf(c, Size3)] = {RankOf(c, Size3)}
    <3>1. \A c \in todo : RankOf(c, Size3) \in Ranks
      BY <1>2, DriftsAssumption DEF Accounts, Cells, Size3
    <3> QED BY <1>1, <1>2, <1>4, <3>1 DEF Accounts
  <2> QED BY <1>1, <1>2, <1>3, <1>4, <1>6, <2>1, <2>2 DEF Accounts, Rowed
<1>8. ASSUME NEW r \in Ranks, NEW n \in Vars, from'[r] # {}
      PROVE  Tells(Counted(r), n, l1_err[r][n], max_err[r][n])'
  <2>1. r # b /\ from[r] # {}
    BY <1>1, <1>4, <1>8
  <2>2. /\ Tells(Counted(r), n, l1_err[r][n], max_err[r][n])
        /\ Tells(Counted(b), n, l1_err[b][n], max_err[b][n])
    BY <1>1, <1>2, <2>1 DEF Summed, Loop
  <2>3. CASE r = a
    <3>1. Counted(r)' = Counted(r) \cup Counted(b)
      BY <1>1, <1>3, <1>4, <2>3 DEF Counted
    <3>2. Counted(r) \in SUBSET Cells /\ Counted(b) \in SUBSET Cells /\ Counted(r) \cap Counted(b) = {}
      BY <1>2, <2>1 DEF Counted, Accounts
    <3>3. l1_err[r][n]' = Plus(l1_err[r][n], l1_err[b][n]) /\ max_err[r][n]' = StdMax(max_err[r][n], max_err[b][n])
      BY <1>1, <1>2, <2>3 DEF Accounts
    <3>4. l1_err[r][n] \in Number /\ l1_err[b][n] \in Number
      BY <1>2 DEF Accounts
    <3>5. max_err[r][n] \in Fraction /\ max_err[b][n] \in Fraction =>
            LET m == StdMax(max_err[r][n], max_err[b][n])
            IN m \in Fraction /\ max_err[r][n] \preceq m /\ max_err[b][n] \preceq m
      BY FractionFacts
    <3>6. Tells(Counted(r) \cup Counted(b), n, Plus(l1_err[r][n], l1_err[b][n]), StdMax(max_err[r][n], max_err[b][n]))
      BY <1>2, <2>2, <3>2, <3>4, <3>5, Joined
    <3> QED BY <1>3, <3>1, <3>3, <3>6
  <2>4. CASE r # a
    <3>1. Counted(r)' = Counted(r)
      BY <1>1, <1>3, <1>4, <2>1, <2>4 DEF Counted
    <3>2. l1_err[r][n]' = l1_err[r][n] /\ max_err[r][n]' = max_err[r][n]
      BY <1>1, <1>2, <2>4 DEF Accounts
    <3> QED BY <1>3, <2>2, <3>1, <3>2
  <2> QED BY <2>3, <2>4
<1>9. Summed'
  BY <1>1, <1>2, <1>3, <1>8 DEF Summed, Loop
<1> QED BY <1>7, <1>9 DEF RowInv

LEMMA RowWritten ==
  ASSUME deck \in WaveDecks, RowInv, NEW r \in Ranks, WriteRow(r)
  PROVE  RowInv'
<1>1. /\ pc = "UserWorkAfterLoop" /\ pc' = "exit" /\ todo = {} /\ from[r] = Ranks
      /\ UNCHANGED <<deck, wave, u, todo, from, l1_err, max_err>>
      /\ row' = RowOf(Normalized(l1_err[r]), max_err[r])
  BY DEF WriteRow
<1>2. /\ \A S, n, l, m : Tells(S, n, l, m)' = Tells(S, n, l, m)
      /\ Cells' = Cells /\ Size3' = Size3
      /\ \A l1, max : RowOf(Normalized(l1), max)' = RowOf(Normalized(l1), max)
  BY <1>1, Measured
<1>3. Accounts /\ Summed
  BY DEF RowInv
<1>4. Accounts'
  BY <1>1, <1>2, <1>3 DEF Accounts
<1>5. Summed'
  <2>1. \A s \in Ranks : Counted(s)' = Counted(s)
    BY <1>1, <1>2 DEF Counted
  <2> QED BY <1>1, <1>2, <1>3, <2>1 DEF Summed, Loop
<1>6. Rowed'
  BY <1>1, <1>2 DEF Rowed
<1> QED BY <1>4, <1>5, <1>6 DEF RowInv

LEMMA RowStep == WaveInv /\ RowInv /\ [Next]_vars => RowInv'
<1> SUFFICES ASSUME WaveInv, RowInv, [Next]_vars, deck' \in WaveDecks PROVE RowInv'
  BY DEF RowInv
<1>1. deck' = deck
  BY DEF Next, vars, Generate, GenerateKH, GenerateBlast, NextWave, InitUserMeshData,
         ProblemGenerator, Execute, SumErrors, Reduce, WriteRow
<1>2. CASE UNCHANGED vars
  <2>1. /\ \A S, n, l, m : Tells(S, n, l, m)' = Tells(S, n, l, m)
        /\ Cells' = Cells /\ Size3' = Size3
        /\ \A l1, max : RowOf(Normalized(l1), max)' = RowOf(Normalized(l1), max)
    BY <1>2, Measured DEF vars
  <2>2. \A r \in Ranks : Counted(r)' = Counted(r)
    BY <1>2, <2>1 DEF Counted, vars
  <2>3. Accounts /\ Summed /\ Rowed
    BY <1>1 DEF RowInv
  <2> QED BY <1>2, <2>1, <2>2, <2>3 DEF RowInv, Accounts, Summed, Rowed, Loop, vars
<1>3. CASE deck \in WaveDecks /\ NextWave
  BY <1>3, BeforeLoop, CellCounted, RanksReduced, RowWritten DEF NextWave
<1> QED BY <1>1, <1>2, <1>3, DecksAssumption DEF Next

\* Every rank's sums and maxima are those of the cells it speaks for.
THEOREM RowInductive == Spec => []RowInv
BY RowInit, RowStep, WaveInductive, PTL DEF Spec

-----------------------------------------------------------------------------
\* The sum over the variables, of which none is negative.
LEMMA RmsFacts ==
  ASSUME NEW x, \A n \in Vars : x[n] \in Fraction /\ Zero \preceq x[n]
  PROVE  Rms(x) = Zero <=> \A n \in Vars : x[n] = Zero
<1> DEFINE q(n) == x[n] \otimes x[n]
<1>1. /\ x[1] \in Fraction /\ x[2] \in Fraction /\ x[3] \in Fraction /\ x[4] \in Fraction /\ x[5] \in Fraction
      /\ Zero \preceq x[1] /\ Zero \preceq x[2] /\ Zero \preceq x[3] /\ Zero \preceq x[4] /\ Zero \preceq x[5]
  BY DEF Vars
<1>2. /\ q(1) \in Fraction /\ Zero \preceq q(1) /\ (q(1) = Zero <=> x[1] = Zero) /\ Times(x[1], x[1]) = q(1)
      /\ q(2) \in Fraction /\ Zero \preceq q(2) /\ (q(2) = Zero <=> x[2] = Zero) /\ Times(x[2], x[2]) = q(2)
      /\ q(3) \in Fraction /\ Zero \preceq q(3) /\ (q(3) = Zero <=> x[3] = Zero) /\ Times(x[3], x[3]) = q(3)
      /\ q(4) \in Fraction /\ Zero \preceq q(4) /\ (q(4) = Zero <=> x[4] = Zero) /\ Times(x[4], x[4]) = q(4)
      /\ q(5) \in Fraction /\ Zero \preceq q(5) /\ (q(5) = Zero <=> x[5] = Zero) /\ Times(x[5], x[5]) = q(5)
  BY <1>1, ZeroProduct, FractionFacts
<1> HIDE DEF q
<1> DEFINE q2 == q(1) \oplus q(2)
           q3 == q2 \oplus q(3)
           q4 == q3 \oplus q(4)
           q5 == q4 \oplus q(5)
<1>3. /\ q2 \in Fraction /\ Zero \preceq q2 /\ (q2 = Zero <=> q(1) = Zero /\ q(2) = Zero)
      /\ Plus(q(1), q(2)) = q2
  BY <1>2, ZeroSum, FractionFacts
<1> HIDE DEF q2
<1>4. /\ q3 \in Fraction /\ Zero \preceq q3 /\ (q3 = Zero <=> q2 = Zero /\ q(3) = Zero)
      /\ Plus(q2, q(3)) = q3
  BY <1>2, <1>3, ZeroSum, FractionFacts
<1> HIDE DEF q3
<1>5. /\ q4 \in Fraction /\ Zero \preceq q4 /\ (q4 = Zero <=> q3 = Zero /\ q(4) = Zero)
      /\ Plus(q3, q(4)) = q4
  BY <1>2, <1>4, ZeroSum, FractionFacts
<1> HIDE DEF q4
<1>6. (q5 = Zero <=> q4 = Zero /\ q(5) = Zero) /\ Plus(q4, q(5)) = q5
  BY <1>2, <1>5, ZeroSum, FractionFacts
<1> HIDE DEF q5
<1>7. Rms(x) = q5
  BY <1>2, <1>3, <1>4, <1>5, <1>6 DEF Rms
<1> QED BY <1>2, <1>3, <1>4, <1>5, <1>6, <1>7 DEF Vars

LEMMA RmsPoisoned ==
  ASSUME NEW x, \A n \in Vars : x[n] \in Number, NEW n \in Vars, x[n] = NaN
  PROVE  Rms(x) = NaN
<1>1. /\ x[1] \in Number /\ x[2] \in Number /\ x[3] \in Number /\ x[4] \in Number /\ x[5] \in Number
      /\ n \in {1, 2, 3, 4, 5}
  BY DEF Vars
<1> QED BY <1>1 DEF Rms, Plus, Times

LEMMA LargestFacts ==
  ASSUME NEW max, NEW l1, \A n \in Vars : Divided(max[n], l1[n]) \in Number
  PROVE  /\ Largest(max, l1) \in Fraction
         /\ \A n \in Vars : Divided(max[n], l1[n]) \in Fraction =>
              Divided(max[n], l1[n]) \preceq Largest(max, l1)
<1> DEFINE x(n) == Divided(max[n], l1[n])
           a1 == StdMax(Zero, x(1))
           a2 == StdMax(a1, x(2))
           a3 == StdMax(a2, x(3))
           a4 == StdMax(a3, x(4))
           a5 == StdMax(a4, x(5))
<1>1. /\ x(1) \in Number /\ x(2) \in Number /\ x(3) \in Number /\ x(4) \in Number /\ x(5) \in Number
      /\ Zero \in Fraction
  BY Numbers DEF Vars
<1>2. Largest(max, l1) = a5
  BY DEF Largest
<1> HIDE DEF x
<1>3. a1 \in Fraction /\ (x(1) \in Fraction => x(1) \preceq a1)
  BY <1>1, Kept
<1> HIDE DEF a1
<1>4. a2 \in Fraction /\ a1 \preceq a2 /\ (x(2) \in Fraction => x(2) \preceq a2)
  BY <1>1, <1>3, Kept
<1> HIDE DEF a2
<1>5. a3 \in Fraction /\ a2 \preceq a3 /\ (x(3) \in Fraction => x(3) \preceq a3)
  BY <1>1, <1>4, Kept
<1> HIDE DEF a3
<1>6. a4 \in Fraction /\ a3 \preceq a4 /\ (x(4) \in Fraction => x(4) \preceq a4)
  BY <1>1, <1>5, Kept
<1> HIDE DEF a4
<1>7. a5 \in Fraction /\ a4 \preceq a5 /\ (x(5) \in Fraction => x(5) \preceq a5)
  BY <1>1, <1>6, Kept
<1> HIDE DEF a5
<1>8. a3 \preceq a5 /\ a2 \preceq a4
  BY <1>4, <1>5, <1>6, <1>7, Comparisons
<1>9. a2 \preceq a5 /\ a1 \preceq a3
  BY <1>3, <1>4, <1>5, <1>6, <1>7, <1>8, Comparisons
<1>10. a1 \preceq a5
  BY <1>3, <1>5, <1>7, <1>8, <1>9, Comparisons
<1>11. ASSUME NEW n \in Vars, x(n) \in Fraction PROVE x(n) \preceq a5
  <2>1. n \in {1, 2, 3, 4, 5}
    BY DEF Vars
  <2>2. CASE n = 1
    BY <1>3, <1>7, <1>10, <1>11, <2>2, Comparisons
  <2>3. CASE n = 2
    BY <1>4, <1>7, <1>9, <1>11, <2>3, Comparisons
  <2>4. CASE n = 3
    BY <1>5, <1>7, <1>8, <1>11, <2>4, Comparisons
  <2>5. CASE n = 4
    BY <1>6, <1>7, <1>11, <2>5, Comparisons
  <2>6. CASE n = 5
    BY <1>7, <1>11, <2>6
  <2> QED BY <2>1, <2>2, <2>3, <2>4, <2>5, <2>6
<1> QED BY <1>2, <1>7, <1>11 DEF x

LEMMA RowTells ==
  ASSUME WaveInv, RowInv, deck \in WaveDecks, row # None
  PROVE  RowMeasures /\ NaNReported
<1>1. PICK r \in Ranks : pc = "exit" /\ todo = {} /\ from[r] = Ranks
                         /\ row = RowOf(Normalized(l1_err[r]), max_err[r])
  BY DEF RowInv, Rowed
<1> DEFINE l == l1_err[r]
           m == max_err[r]
           x == Normalized(l)
<1>2. wave = WaveMade /\ u \in [Cells -> [Vars -> Number]]
  BY <1>1 DEF WaveInv, RowInv, Summed, Loop
<1>3. \A n \in Vars : l[n] \in Number /\ m[n] \in Number
  BY DEF RowInv, Accounts
<1>4. \A n \in Vars : Tells(Cells, n, l[n], m[n])
  <2>1. Counted(r) = Cells
    BY <1>1, DriftsAssumption DEF Counted, Cells, Size3
  <2>2. from[r] # {}
    BY <1>1
  <2> QED BY <1>1, <2>1, <2>2 DEF RowInv, Summed, Loop
<1>5. row.rms = Rms(x) /\ row.l1 = x /\ row.max = m /\ row.largest = Largest(m, x)
  BY <1>1 DEF RowOf
<1>6. /\ Volume \in Fraction /\ Volume # Zero /\ Zero \prec Volume /\ Volume \in Number
      /\ Zero \in Fraction /\ One \in Fraction
  BY MeshVolume, Numbers, Comparisons DEF Number
<1>7. \A n \in Vars : x[n] = Divided(l[n], Volume) /\ x[n] \in Number
  BY <1>3, <1>6, NumberFacts DEF Normalized
<1> HIDE DEF l, m, x
<1>8. Largest(m, x) \in Fraction
        /\ \A n \in Vars : Divided(m[n], x[n]) \in Fraction => Divided(m[n], x[n]) \preceq Largest(m, x)
  <2>1. \A n \in Vars : Divided(m[n], x[n]) \in Number
    BY <1>3, <1>7, NumberFacts
  <2> QED BY <2>1, LargestFacts
<1>9. NaNReported
  <2>1. row.largest # NaN
    BY <1>5, <1>8, DriftsAssumption
  <2>2. ASSUME Poisoned PROVE row.rms = NaN
    <3>1. PICK c \in Cells, n \in Vars : u[c][n] = NaN
      BY <2>2 DEF Poisoned
    <3>2. l[n] = NaN
      BY <1>4, <3>1 DEF Tells
    <3>3. x[n] = NaN
      BY <1>7, <3>2 DEF Divided
    <3> QED BY <1>5, <1>7, <3>3, RmsPoisoned
  <2> QED BY <2>1, <2>2 DEF NaNReported
<1>10. ASSUME ~Poisoned PROVE RowMeasures
  <2>1. ASSUME NEW n \in Vars
        PROVE  /\ l[n] \in Fraction /\ m[n] \in Fraction /\ Zero \preceq l[n] /\ Zero \preceq m[n]
               /\ l[n] = Zero <=> \A c \in Cells : u[c][n] = Analytic(Center(c))[n]
               /\ l[n] \preceq m[n] \otimes Volume
    <3>1. Share(Cells, m[n]) = Volume \otimes m[n]
      <4>1. Cardinality(Cells) = Size3
        BY MeshVolume, FS_Interval DEF Cells
      <4> QED BY <4>1, MeshVolume DEF Share
    <3>2. /\ l[n] \in Fraction /\ m[n] \in Fraction /\ Zero \preceq l[n] /\ Zero \preceq m[n]
          /\ l[n] = Zero <=> \A c \in Cells : u[c][n] = Analytic(Center(c))[n]
          /\ l[n] \preceq Share(Cells, m[n])
      BY <1>4, <1>10 DEF Tells, Poisoned
    <3> QED BY <1>6, <3>1, <3>2, Commuted
  <2>2. ASSUME NEW n \in Vars
        PROVE  /\ x[n] \in Fraction /\ Zero \preceq x[n] /\ (x[n] = Zero <=> l[n] = Zero) /\ x[n] \preceq m[n]
    <3>1. x[n] = l[n] \oslash Volume
      BY <1>6, <1>7, <2>1, FractionFacts
    <3>2. x[n] \in Fraction /\ x[n] \preceq m[n]
      BY <1>6, <2>1, <3>1, Shares
    <3>3. Zero \preceq x[n]
      <4>1. Zero \otimes Volume \preceq l[n]
        BY <1>6, <2>1, Sums
      <4> QED BY <1>6, <2>1, <3>1, <4>1, Shares
    <3>4. x[n] = Zero <=> l[n] = Zero
      <4>1. x[n] \otimes Volume = l[n] /\ Zero \otimes Volume = Zero /\ Zero \oslash Volume = Zero
        BY <1>6, <2>1, <3>1, Quotients, Sums
      <4> QED BY <3>1, <4>1
    <3> QED BY <3>2, <3>3, <3>4
  <2>3. Rms(x) = Zero <=> \A n \in Vars : l[n] = Zero
    BY <2>2, RmsFacts
  <2>4. row.rms = Zero <=> \A c \in Cells : u[c] = Generated(Center(c))
    <3>1. \A c \in Cells : u[c] \in [Vars -> Number] /\ Generated(Center(c)) \in [Vars -> Fraction]
                           /\ Analytic(Center(c)) = Generated(Center(c))
      BY <1>2, Solution
    <3>2. \A c \in Cells : u[c] = Generated(Center(c)) <=> \A n \in Vars : u[c][n] = Analytic(Center(c))[n]
      BY <3>1
    <3> QED BY <1>5, <2>1, <2>3, <3>2
  <2>5. ASSUME row.rms # Zero PROVE One \preceq row.largest
    <3>1. PICK n \in Vars : l[n] # Zero
      BY <1>5, <2>3, <2>5
    <3>2. Zero \prec x[n] /\ x[n] \in Fraction /\ m[n] \in Fraction /\ x[n] \preceq m[n] /\ x[n] # Zero
      <4>1. x[n] \in Fraction /\ Zero \preceq x[n] /\ x[n] # Zero /\ x[n] \preceq m[n] /\ m[n] \in Fraction
        BY <2>1, <2>2, <3>1
      <4> QED BY <1>6, <4>1, Ordered
    <3>3. Divided(m[n], x[n]) = m[n] \oslash x[n]
      BY <3>2, FractionFacts
    <3>4. m[n] \oslash x[n] \in Fraction /\ One \preceq m[n] \oslash x[n]
      <4>1. One \otimes x[n] = x[n]
        BY <3>2, Sums
      <4> QED BY <1>6, <3>2, <4>1, Shares
    <3>5. m[n] \oslash x[n] \preceq Largest(m, x)
      BY <1>8, <3>3, <3>4
    <3> QED BY <1>5, <1>6, <1>8, <3>4, <3>5, Comparisons
  <2> QED BY <1>5, <2>2, <2>4, <2>5 DEF RowMeasures
<1> QED BY <1>9, <1>10 DEF RowMeasures

\* The row of errors of every run: it is zero if and only if nothing differs, no
\* mean exceeds its maximum, and a NaN anywhere is seen, whatever the number of
\* ranks, the cells they have and the order in which MPI adds their errors up.
THEOREM RowHonest == Spec => []HonestRow
<1>1. WaveInv /\ RowInv => HonestRow
  BY RowTells DEF HonestRow, RowMeasures, NaNReported
<1> QED BY <1>1, WaveInductive, RowInductive, PTL
=============================================================================
