--------------------------- MODULE Riemann_proofs ---------------------------
(***************************************************************************)
(* The face of a sweep, for all states of the cells, every Gamma above one *)
(* and every square root that is not too far off.                          *)
(***************************************************************************)
EXTENDS Riemann, Rationals_proofs

-----------------------------------------------------------------------------
\* A state of PLM lies between the two cells it is made from: the middle one
\* and the next for ql_ip1, the one before and the middle one for qr_i.
LEMMA Limited ==
  ASSUME NEW x \in Fraction, NEW y \in Fraction, NEW z \in Fraction
  PROVE  /\ PLM(x, y, z).ql_ip1 \in Fraction /\ Between(y, PLM(x, y, z).ql_ip1, z)
         /\ PLM(x, y, z).qr_i \in Fraction /\ Between(x, PLM(x, y, z).qr_i, y)
<1> DEFINE a == y \ominus x
           b == z \ominus y
           c == a \otimes b
           m == IF Zero \prec c THEN c \oslash (a \oplus b) ELSE Zero
           ql == y \oplus m
           qr == y \ominus m
<1>1. PLM(x, y, z).ql_ip1 = ql /\ PLM(x, y, z).qr_i = qr
  BY DEF PLM
<1>2. PICK d \in Pos, i \in Int, j \in Int, k \in Int : Over(x, i, d) /\ Over(y, j, d) /\ Over(z, k, d)
  BY DenominatorOf3
<1>3. d \in Int /\ d > 0
  BY DEF Pos
<1> DEFINE A == j - i
           B == k - j
<1>4. Over(a, A, d) /\ Over(b, B, d) /\ A \in Int /\ B \in Int /\ j = i + A /\ k = j + B
  <2>1. Over(a, A, d) /\ Over(b, B, d)
    BY <1>2, OverMinus
  <2>2. A \in Int /\ B \in Int /\ j = i + A /\ k = j + B
    OBVIOUS
  <2> QED BY <2>1, <2>2
<1> HIDE DEF A, B, a, b
<1>5. Over(c, A * B, d * d) /\ Over(a \oplus b, A + B, d) /\ Over(Zero, 0, d * d)
  BY <1>4, OverTimes, OverPlus, OverConstants, PosTimes
<1>6. Zero \prec c <=> 0 < A * B
  BY <1>5, OverLess
<1> HIDE DEF c
<1>7. ASSUME NEW e \in Pos, NEW n \in Int, Over(m, n, d * e),
             \/ 0 <= n /\ n <= A * e /\ n <= B * e
             \/ n <= 0 /\ A * e <= n /\ B * e <= n
      PROVE  ql \in Fraction /\ Between(y, ql, z) /\ qr \in Fraction /\ Between(x, qr, y)
  <2> HIDE DEF m
  <2>1. Over(x, i * e, d * e) /\ Over(y, j * e, d * e) /\ Over(z, k * e, d * e)
    BY <1>2, OverScale
  <2>2. Over(ql, j * e + n, d * e) /\ Over(qr, j * e - n, d * e)
    BY <1>7, <2>1, OverPlus, OverMinus
  <2>3. /\ (y \preceq ql <=> j * e <= j * e + n) /\ (ql \preceq z <=> j * e + n <= k * e)
        /\ (z \preceq ql <=> k * e <= j * e + n) /\ (ql \preceq y <=> j * e + n <= j * e)
        /\ (x \preceq qr <=> i * e <= j * e - n) /\ (qr \preceq y <=> j * e - n <= j * e)
        /\ (y \preceq qr <=> j * e <= j * e - n) /\ (qr \preceq x <=> j * e - n <= i * e)
    BY <2>1, <2>2, OverLess
  <2>4. e \in Int /\ j * e = i * e + A * e /\ k * e = j * e + B * e
    BY <1>4 DEF Pos
  <2>5. /\ j * e \in Int /\ i * e \in Int /\ k * e \in Int /\ A * e \in Int /\ B * e \in Int
    BY <1>4, <2>4
  <2>6. ql \in Fraction /\ qr \in Fraction
    BY <2>2 DEF Over
  <2> HIDE DEF ql, qr
  <2> QED BY <1>7, <2>3, <2>4, <2>5, <2>6 DEF Between
<1>8. CASE A > 0 /\ B > 0
  <2> DEFINE e == d * (A + B)
             n == (A * B) * d
  <2>1. Zero \prec c
    BY <1>4, <1>6, <1>8
  <2>2. Over(m, (A * B) * d, (d * d) * (A + B))
    BY <1>3, <1>4, <1>5, <1>8, <2>1, OverDivide
  <2>3. (d * d) * (A + B) = d * e /\ e \in Pos /\ n \in Int
    BY <1>3, <1>4, <1>8 DEF Pos
  <2>4. 0 <= n /\ n <= A * e /\ n <= B * e
    <3>1. A * e = n + (A * A) * d /\ B * e = n + (B * B) * d
      BY <1>3, <1>4
    <3>2. n >= 0 /\ (A * A) * d >= 0 /\ (B * B) * d >= 0
      BY <1>3, <1>4, <1>8
    <3> QED BY <3>1, <3>2, <1>3, <1>4
  <2> HIDE DEF e, n, m, ql, qr
  <2>5. Over(m, n, d * e)
    BY <2>2, <2>3 DEF n
  <2> QED BY <1>1, <1>7, <2>3, <2>4, <2>5
<1>9. CASE A < 0 /\ B < 0
  <2> DEFINE e == d * (-(A + B))
             n == (A * B) * (-d)
  <2>1. Zero \prec c
    BY <1>4, <1>6, <1>9
  <2>2. Over(m, (A * B) * (-d), (d * d) * (-(A + B)))
    BY <1>3, <1>4, <1>5, <1>9, <2>1, OverDivideNegative
  <2>3. (d * d) * (-(A + B)) = d * e /\ e \in Pos /\ n \in Int
    BY <1>3, <1>4, <1>9 DEF Pos
  <2>4. n <= 0 /\ A * e <= n /\ B * e <= n
    <3>1. A * e = n - (A * A) * d /\ B * e = n - (B * B) * d
      BY <1>3, <1>4
    <3>2. n <= 0 /\ (A * A) * d >= 0 /\ (B * B) * d >= 0
      BY <1>3, <1>4, <1>9
    <3> QED BY <3>1, <3>2, <1>3, <1>4
  <2> HIDE DEF e, n, m, ql, qr
  <2>5. Over(m, n, d * e)
    BY <2>2, <2>3 DEF n
  <2> QED BY <1>1, <1>7, <2>3, <2>4, <2>5
<1>10. CASE ~(A > 0 /\ B > 0) /\ ~(A < 0 /\ B < 0)
  <2>1. ~(Zero \prec c)
    BY <1>4, <1>6, <1>10
  <2>2. m = Zero
    BY <2>1
  <2> HIDE DEF ql, qr, m
  <2>3. Over(m, 0, d)
    BY <2>2, OverConstants
  <2>4. Over(y, j, d) /\ Over(y \oplus m, j + 0, d) /\ Over(y \ominus m, j - 0, d) /\ j + 0 = j /\ j - 0 = j
    BY <1>2, <2>3, OverPlus, OverMinus
  <2>5. ql = y /\ qr = y
    BY <2>4, OverEqual DEF ql, qr
  <2>6. \A u \in Fraction, v \in Fraction : Between(u, u, v) /\ Between(v, u, u)
    BY Ordered DEF Between
  <2> QED BY <1>1, <2>5, <2>6
<1> QED BY <1>4, <1>8, <1>9, <1>10

-----------------------------------------------------------------------------
IsState(w) == w \in [Vars -> Fraction] /\ Zero \prec w[1] /\ Zero \prec w[5]

\* What PLM makes of four cells, on the two sides of the face.
LeftState(f) == [n \in Vars |-> PLM(f[1][n], f[2][n], f[3][n]).ql_ip1]
RightState(f) == [n \in Vars |-> PLM(f[2][n], f[3][n], f[4][n]).qr_i]

LEMMA CellStates == \A w \in States : IsState(w)
BY StatesAssumption DEF IsState

LEMMA BetweenPositive ==
  ASSUME NEW x \in Fraction, NEW y \in Fraction, NEW u \in Fraction,
         Zero \prec x, Zero \prec y, Between(x, u, y)
  PROVE  Zero \prec u
<1>1. Zero \in Fraction
  BY Closed
<1>2. \A v \in Fraction : Zero \prec v /\ v \preceq u => Zero \prec u
  BY <1>1, Ordered
<1> QED BY <1>2 DEF Between

\* The two states lie between the cells at the face, and are states.
LEMMA FaceFacts ==
  ASSUME NEW f \in [1 .. 4 -> States]
  PROVE  /\ \A n \in Vars : /\ Between(f[2][n], LeftState(f)[n], f[3][n])
                            /\ Between(f[2][n], RightState(f)[n], f[3][n])
         /\ IsState(LeftState(f)) /\ IsState(RightState(f))
         /\ LeftState(f) \in FaceStates /\ RightState(f) \in FaceStates
<1>1. /\ f[1] \in States /\ f[2] \in States /\ f[3] \in States /\ f[4] \in States
      /\ IsState(f[1]) /\ IsState(f[2]) /\ IsState(f[3]) /\ IsState(f[4])
  BY CellStates
<1>2. ASSUME NEW n \in Vars
      PROVE  /\ LeftState(f)[n] \in Fraction /\ Between(f[2][n], LeftState(f)[n], f[3][n])
             /\ RightState(f)[n] \in Fraction /\ Between(f[2][n], RightState(f)[n], f[3][n])
  <2>1. f[1][n] \in Fraction /\ f[2][n] \in Fraction /\ f[3][n] \in Fraction /\ f[4][n] \in Fraction
    BY <1>1 DEF IsState
  <2> QED BY <2>1, Limited DEF LeftState, RightState
<1>3. IsState(LeftState(f)) /\ IsState(RightState(f))
  <2>1. /\ LeftState(f) \in [Vars -> Fraction] /\ RightState(f) \in [Vars -> Fraction]
        /\ 1 \in Vars /\ 5 \in Vars
    BY <1>2 DEF LeftState, RightState, Vars
  <2>2. ASSUME NEW n \in {1, 5}
        PROVE  Zero \prec LeftState(f)[n] /\ Zero \prec RightState(f)[n]
    <3>1. /\ f[2][n] \in Fraction /\ f[3][n] \in Fraction
          /\ Zero \prec f[2][n] /\ Zero \prec f[3][n] /\ n \in Vars
      BY <1>1, <2>1 DEF IsState
    <3> QED BY <1>2, <3>1, BetweenPositive
  <2> QED BY <2>1, <2>2 DEF IsState
<1>4. LeftState(f) \in FaceStates /\ RightState(f) \in FaceStates
  BY <1>1 DEF FaceStates, LeftState, RightState
<1> QED BY <1>2, <1>3, <1>4

-----------------------------------------------------------------------------
\* What a face holds is what PLM and the solver made of its cells.
IInv ==
  /\ q \in [1 .. 4 -> States] /\ ivx \in Dirs
  /\ wl # None => wl = LeftState(q) /\ wr = RightState(q)
  /\ hlle # None => wl # None /\ hlle = RiemannSolver(ivx, wl, wr)

\* The invariant holds in every behaviour.
THEOREM Inductive == Spec => []IInv
<1>1. Init => IInv
  BY DEF Init, IInv
<1>2. IInv /\ [Next]_vars => IInv'
  <2> SUFFICES ASSUME IInv, [Next]_vars PROVE IInv'
    OBVIOUS
  <2> USE DEF IInv
  <2>1. CASE Reconstruct
    BY <2>1 DEF Reconstruct, LeftState, RightState
  <2>2. CASE Solve
    BY <2>2 DEF Solve
  <2>3. CASE UNCHANGED vars
    BY <2>3 DEF vars
  <2> QED BY <2>1, <2>2, <2>3 DEF Next
<1> QED BY <1>1, <1>2, PTL DEF Spec

\* PLM makes no new extremum at any face, of whatever cells.
THEOREM Monotone == Spec => []NoNewExtrema
<1>1. IInv => NoNewExtrema
  BY FaceFacts DEF IInv, NoNewExtrema
<1> QED BY <1>1, Inductive, PTL

-----------------------------------------------------------------------------
\* The five differences a flux is made of: (F - b U) component by component.
LEMMA MassPart ==
  ASSUME NEW r \in Fraction, NEW u \in Fraction, NEW b \in Fraction
  PROVE  r \otimes (u \ominus b) = (r \otimes u) \ominus (b \otimes r)
<1>1. PICK d \in Pos, i \in Int, j \in Int, k \in Int : Over(r, i, d) /\ Over(u, j, d) /\ Over(b, k, d)
  BY DenominatorOf3
<1>2. Over(u \ominus b, j - k, d) /\ Over(r \otimes u, i * j, d * d) /\ Over(b \otimes r, k * i, d * d)
  BY <1>1, OverMinus, OverTimes
<1>3. /\ Over(r \otimes (u \ominus b), i * (j - k), d * d)
      /\ Over((r \otimes u) \ominus (b \otimes r), i * j - k * i, d * d)
  BY <1>1, <1>2, OverMinus, OverTimes
<1>4. i * (j - k) = i * j - k * i
  OBVIOUS
<1> QED BY <1>3, <1>4, OverEqual

LEMMA MomentumPart ==
  ASSUME NEW r \in Fraction, NEW u \in Fraction, NEW b \in Fraction, NEW v \in Fraction, NEW p \in Fraction
  PROVE  (v \otimes (r \otimes (u \ominus b))) \oplus p
           = (((r \otimes u) \otimes v) \oplus p) \ominus (b \otimes (r \otimes v))
<1>1. PICK d : Denominator(d, {r, u, b, v, p, p, p, p})
  BY DenominatorOf
<1>2. PICK i, j, k, l, m \in Int :
        Over(r, i, d) /\ Over(u, j, d) /\ Over(b, k, d) /\ Over(v, l, d) /\ Over(p, m, d)
  BY <1>1 DEF Denominator
<1>3. d \in Pos /\ d * d \in Pos /\ d \in Int
  BY <1>1, PosTimes DEF Denominator, Pos
<1>4. /\ Over(u \ominus b, j - k, d) /\ Over(r \otimes u, i * j, d * d)
      /\ Over(r \otimes v, i * l, d * d) /\ Over(p, (d * d) * m, (d * d) * d)
  BY <1>2, <1>3, OverMinus, OverTimes, OverScale
<1>5. /\ Over(r \otimes (u \ominus b), i * (j - k), d * d)
      /\ Over((r \otimes u) \otimes v, (i * j) * l, (d * d) * d)
      /\ Over(b \otimes (r \otimes v), k * (i * l), d * (d * d))
  BY <1>2, <1>4, OverTimes
<1>6. d * (d * d) = (d * d) * d
  BY <1>3
<1>7. Over(v \otimes (r \otimes (u \ominus b)), l * (i * (j - k)), (d * d) * d)
  BY <1>2, <1>5, <1>6, OverTimes
<1>8. Over((v \otimes (r \otimes (u \ominus b))) \oplus p, l * (i * (j - k)) + (d * d) * m, (d * d) * d)
  BY <1>4, <1>7, OverPlus
<1>9. Over((((r \otimes u) \otimes v) \oplus p) \ominus (b \otimes (r \otimes v)),
           ((i * j) * l + (d * d) * m) - k * (i * l), (d * d) * d)
  BY <1>4, <1>5, <1>6, OverPlus, OverMinus
<1>10. l * (i * (j - k)) + (d * d) * m = ((i * j) * l + (d * d) * m) - k * (i * l)
  BY <1>3
<1> QED BY <1>8, <1>9, <1>10, OverEqual

LEMMA EnergyPart ==
  ASSUME NEW e \in Fraction, NEW u \in Fraction, NEW b \in Fraction, NEW p \in Fraction
  PROVE  (e \otimes (u \ominus b)) \oplus (p \otimes u) = ((e \oplus p) \otimes u) \ominus (b \otimes e)
<1>1. PICK d : Denominator(d, {e, u, b, p, p, p, p, p})
  BY DenominatorOf
<1>2. PICK i, j, k, m \in Int : Over(e, i, d) /\ Over(u, j, d) /\ Over(b, k, d) /\ Over(p, m, d)
  BY <1>1 DEF Denominator
<1>3. /\ Over(u \ominus b, j - k, d) /\ Over(e \oplus p, i + m, d)
      /\ Over(p \otimes u, m * j, d * d) /\ Over(b \otimes e, k * i, d * d)
  BY <1>2, OverMinus, OverPlus, OverTimes
<1>4. Over(e \otimes (u \ominus b), i * (j - k), d * d) /\ Over((e \oplus p) \otimes u, (i + m) * j, d * d)
  BY <1>2, <1>3, OverTimes
<1>5. /\ Over((e \otimes (u \ominus b)) \oplus (p \otimes u), i * (j - k) + m * j, d * d)
      /\ Over(((e \oplus p) \otimes u) \ominus (b \otimes e), (i + m) * j - k * i, d * d)
  BY <1>3, <1>4, OverPlus, OverMinus
<1>6. i * (j - k) + m * j = (i + m) * j - k * i
  OBVIOUS
<1> QED BY <1>5, <1>6, OverEqual

\* What Combine computes of the two sides, cleared of its quotient.
LEMMA CombinePart ==
  ASSUME NEW f \in Fraction, NEW g \in Fraction, NEW p \in Fraction, NEW m \in Fraction, m \prec p
  PROVE  LET t == (Half \otimes (p \oplus m)) \oslash (p \ominus m)
             h == (Half \otimes (f \oplus g)) \oplus ((f \ominus g) \otimes t)
         IN  h \in Fraction /\ h \otimes (p \ominus m) = (p \otimes f) \ominus (m \otimes g)
<1> DEFINE t == (Half \otimes (p \oplus m)) \oslash (p \ominus m)
           h == (Half \otimes (f \oplus g)) \oplus ((f \ominus g) \otimes t)
<1>1. PICK d : Denominator(d, {f, g, p, m, m, m, m, m})
  BY DenominatorOf
<1>2. PICK i, j, k, l \in Int : Over(f, i, d) /\ Over(g, j, d) /\ Over(p, k, d) /\ Over(m, l, d)
  BY <1>1 DEF Denominator
<1>3. d \in Pos /\ d \in Int /\ d > 0 /\ Over(Half, 1, 2)
  BY <1>1, OverConstants DEF Denominator, Pos
<1> DEFINE S == k - l
<1>4. S \in Int /\ S > 0
  BY <1>2, OverLess
<1>5. /\ Over(p \oplus m, k + l, d) /\ Over(f \oplus g, i + j, d)
      /\ Over(f \ominus g, i - j, d) /\ Over(p \ominus m, S, d)
  BY <1>2, OverPlus, OverMinus
<1> HIDE DEF S
<1>6. /\ Over(Half \otimes (p \oplus m), 1 * (k + l), 2 * d)
      /\ Over(Half \otimes (f \oplus g), 1 * (i + j), 2 * d)
  BY <1>3, <1>5, OverTimes
<1>7. Over(t, (1 * (k + l)) * d, (2 * d) * S)
  BY <1>3, <1>4, <1>5, <1>6, OverDivide
<1>8. Over((f \ominus g) \otimes t, (i - j) * ((1 * (k + l)) * d), d * ((2 * d) * S))
  BY <1>5, <1>7, OverTimes
<1>9. Over(Half \otimes (f \oplus g), (1 * (i + j)) * (d * S), (2 * d) * (d * S))
  <2>1. d * S \in Pos
    BY <1>3, <1>4 DEF Pos
  <2> QED BY <1>6, <2>1, OverScale
<1>10. (2 * d) * (d * S) = d * ((2 * d) * S)
  BY <1>3, <1>4
<1> DEFINE N == (1 * (i + j)) * (d * S) + (i - j) * ((1 * (k + l)) * d)
           E == d * ((2 * d) * S)
<1>11. Over(h, N, E)
  BY <1>8, <1>9, <1>10, OverPlus
<1>12. Over(h \otimes (p \ominus m), N * S, E * d)
  BY <1>5, <1>11, OverTimes
<1>13. /\ Over(p \otimes f, k * i, d * d) /\ Over(m \otimes g, l * j, d * d)
  BY <1>2, OverTimes
<1>14. Over((p \otimes f) \ominus (m \otimes g), k * i - l * j, d * d)
  BY <1>13, OverMinus
<1> DEFINE F == (2 * d) * S
<1>15. Over((p \otimes f) \ominus (m \otimes g), (k * i - l * j) * F, (d * d) * F)
  <2>1. F \in Pos
    BY <1>3, <1>4 DEF Pos
  <2> HIDE DEF F
  <2> QED BY <1>14, <2>1, OverScale
<1>16. (d * d) * F = E * d /\ N * S = (k * i - l * j) * F
  <2>1. (d * d) * F = E * d
    BY <1>3, <1>4
  <2>2. N = d * ((i + j) * S + (i - j) * (k + l))
    BY <1>3, <1>4
  <2>3. (i + j) * S + (i - j) * (k + l) = 2 * (k * i - l * j)
    BY DEF S
  <2>4. (d * (2 * (k * i - l * j))) * S = (k * i - l * j) * F
    BY <1>3, <1>4
  <2> QED BY <2>1, <2>2, <2>3, <2>4
<1>17. h \otimes (p \ominus m) = (p \otimes f) \ominus (m \otimes g)
  BY <1>12, <1>15, <1>16, OverEqual
<1> QED BY <1>11, <1>17 DEF Over

\* Two sides put together: the flux of Harten, Lax and van Leer.
LEMMA HLLPart ==
  ASSUME NEW f \in Fraction, NEW g \in Fraction, NEW u \in Fraction, NEW v \in Fraction,
         NEW p \in Fraction, NEW m \in Fraction
  PROVE  (p \otimes (f \ominus (m \otimes u))) \ominus (m \otimes (g \ominus (p \otimes v)))
           = ((p \otimes f) \oplus Minus(m \otimes g)) \oplus ((p \otimes m) \otimes (v \ominus u))
<1>1. PICK d : Denominator(d, {f, g, u, v, p, m, m, m})
  BY DenominatorOf
<1>2. PICK i, j, k, l, s, t \in Int :
        /\ Over(f, i, d) /\ Over(g, j, d) /\ Over(u, k, d) /\ Over(v, l, d)
        /\ Over(p, s, d) /\ Over(m, t, d)
  BY <1>1 DEF Denominator
<1>3. d \in Pos /\ d \in Int /\ d * d \in Pos /\ (d * d) * d = d * (d * d)
  BY <1>1 DEF Denominator, Pos
<1>4. /\ Over(f, i * d, d * d) /\ Over(g, j * d, d * d) /\ Over(m \otimes u, t * k, d * d)
      /\ Over(p \otimes v, s * l, d * d) /\ Over(p \otimes f, s * i, d * d)
      /\ Over(m \otimes g, t * j, d * d) /\ Over(p \otimes m, s * t, d * d)
      /\ Over(v \ominus u, l - k, d) /\ Over(Zero, 0, d * d)
  BY <1>2, <1>3, OverScale, OverTimes, OverMinus, OverConstants
<1>5. /\ Over(f \ominus (m \otimes u), i * d - t * k, d * d)
      /\ Over(g \ominus (p \otimes v), j * d - s * l, d * d)
      /\ Over(Minus(m \otimes g), 0 - t * j, d * d)
  BY <1>4, OverMinus DEF Minus
<1>6. /\ Over(p \otimes (f \ominus (m \otimes u)), s * (i * d - t * k), d * (d * d))
      /\ Over(m \otimes (g \ominus (p \otimes v)), t * (j * d - s * l), d * (d * d))
      /\ Over((p \otimes m) \otimes (v \ominus u), (s * t) * (l - k), (d * d) * d)
  BY <1>2, <1>4, <1>5, OverTimes
<1>7. Over((p \otimes f) \oplus Minus(m \otimes g), s * i + (0 - t * j), d * d)
  BY <1>4, <1>5, OverPlus
<1>8. Over((p \otimes f) \oplus Minus(m \otimes g), d * (s * i + (0 - t * j)), d * (d * d))
  BY <1>3, <1>7, OverScale
<1>9. Over((p \otimes (f \ominus (m \otimes u))) \ominus (m \otimes (g \ominus (p \otimes v))),
           s * (i * d - t * k) - t * (j * d - s * l), d * (d * d))
  BY <1>6, OverMinus
<1>10. Over(((p \otimes f) \oplus Minus(m \otimes g)) \oplus ((p \otimes m) \otimes (v \ominus u)),
            d * (s * i + (0 - t * j)) + (s * t) * (l - k), d * (d * d))
  BY <1>3, <1>6, <1>8, OverPlus
<1>11. s * (i * d - t * k) - t * (j * d - s * l) = d * (s * i + (0 - t * j)) + (s * t) * (l - k)
  BY <1>3
<1> QED BY <1>9, <1>10, <1>11, OverEqual

-----------------------------------------------------------------------------
\* Where the sweep along x keeps the variable n of the code.
Place(x, n) == IF n \in 2 .. 4 THEN CHOOSE m \in 2 .. 4 : Order(x)[m - 1] = n - 1 ELSE n

LEMMA Orders == Order(1) = <<1, 2, 3>> /\ Order(2) = <<2, 3, 1>> /\ Order(3) = <<3, 1, 2>>
BY DEF Order

LEMMA AlongFacts ==
  ASSUME NEW x \in Dirs, NEW w \in [Vars -> Fraction]
  PROVE  /\ Along(x, w) \in [Vars -> Fraction]
         /\ Along(x, w)[1] = w[1] /\ Along(x, w)[2] = w[x + 1] /\ Along(x, w)[5] = w[5]
         /\ Along(x, w)[3] = w[(x % 3) + 2] /\ Along(x, w)[4] = w[((x + 1) % 3) + 2]
<1> USE DEF Along, Vars
<1>1. CASE x = 1
  BY <1>1, Orders
<1>2. CASE x = 2
  BY <1>2, Orders
<1>3. CASE x = 3
  BY <1>3, Orders
<1> QED BY <1>1, <1>2, <1>3 DEF Dirs

LEMMA PlaceFacts ==
  ASSUME NEW x \in Dirs, NEW n \in Vars
  PROVE  /\ Place(x, n) \in Vars /\ (n \in {1, 5} => Place(x, n) = n)
         /\ n \in 2 .. 4 => /\ Place(x, n) \in 2 .. 4 /\ Order(x)[Place(x, n) - 1] = n - 1
                            /\ Place(x, n) = 2 <=> n = x + 1
<1> USE DEF Vars
<1>1. CASE n \notin 2 .. 4
  BY <1>1 DEF Place
<1>2. CASE n \in 2 .. 4
  <2>1. \E m \in 2 .. 4 : Order(x)[m - 1] = n - 1
    <3>1. CASE x = 1
      BY <3>1, <1>2, Orders
    <3>2. CASE x = 2
      BY <3>2, <1>2, Orders
    <3>3. CASE x = 3
      BY <3>3, <1>2, Orders
    <3> QED BY <3>1, <3>2, <3>3 DEF Dirs
  <2>2. Place(x, n) \in 2 .. 4 /\ Order(x)[Place(x, n) - 1] = n - 1
    BY <1>2, <2>1 DEF Place
  <2>3. Place(x, n) = 2 <=> n = x + 1
    <3>1. CASE x = 1
      BY <3>1, <1>2, <2>2, Orders
    <3>2. CASE x = 2
      BY <3>2, <1>2, <2>2, Orders
    <3>3. CASE x = 3
      BY <3>3, <1>2, <2>2, Orders
    <3> QED BY <3>1, <3>2, <3>3 DEF Dirs
  <2> QED BY <1>2, <2>2, <2>3
<1> QED BY <1>1, <1>2

LEMMA GammaFacts == Gamma \in Fraction /\ Gamma \ominus One \in Fraction /\ Zero \prec Gamma \ominus One
                    /\ Gamma \ominus One # Zero /\ One \in Fraction /\ Zero \in Fraction
<1>1. Gamma \in Fraction /\ One \in Fraction /\ Zero \in Fraction /\ One \prec Gamma
  BY StatesAssumption, Closed
<1>2. Gamma \ominus One \in Fraction /\ Zero \prec Gamma \ominus One
  BY <1>1, Closed, Ordered
<1> QED BY <1>1, <1>2, Ordered

\* A sum of three, in the orders of the sweeps.
LEMMA Turned ==
  ASSUME NEW a \in Fraction, NEW b \in Fraction, NEW c \in Fraction
  PROVE  (b \oplus c) \oplus a = (a \oplus b) \oplus c /\ (c \oplus a) \oplus b = (a \oplus b) \oplus c
<1>1. b \oplus c \in Fraction /\ c \oplus a \in Fraction
  BY Closed
<1>2. (b \oplus c) \oplus a = a \oplus (b \oplus c)
  BY <1>1, Field
<1>3. (c \oplus a) \oplus b = b \oplus (c \oplus a) /\ b \oplus (c \oplus a) = (b \oplus c) \oplus a
  BY <1>1, Field
<1>4. a \oplus (b \oplus c) = (a \oplus b) \oplus c
  BY Field
<1> QED BY <1>2, <1>3, <1>4

LEMMA EnergyFacts ==
  ASSUME NEW w \in [Vars -> Fraction], NEW x \in Dirs
  PROVE  Energy(w) \in Fraction /\ Energy(Along(x, w)) = Energy(w)
<1> USE DEF Vars
<1> DEFINE a == SQR(w[2])
           b == SQR(w[3])
           c == SQR(w[4])
<1>1. a \in Fraction /\ b \in Fraction /\ c \in Fraction /\ w[1] \in Fraction /\ w[5] \in Fraction
  BY Closed
<1>2. w[5] \oslash (Gamma \ominus One) \in Fraction /\ Half \in Fraction
  BY <1>1, GammaFacts, Closed
<1> HIDE DEF a, b, c
<1>3. ((a \oplus b) \oplus c) \in Fraction /\ Half \otimes w[1] \in Fraction
  BY <1>1, <1>2, Closed
<1>4. (Half \otimes w[1]) \otimes ((a \oplus b) \oplus c) \in Fraction
  BY <1>3, Closed
<1>5. (w[5] \oslash (Gamma \ominus One)) \oplus ((Half \otimes w[1]) \otimes ((a \oplus b) \oplus c)) \in Fraction
  BY <1>2, <1>4, Closed
<1>6. (b \oplus c) \oplus a = (a \oplus b) \oplus c /\ (c \oplus a) \oplus b = (a \oplus b) \oplus c
  BY <1>1, Turned
<1> DEFINE v == Along(x, w)
<1>7. v[1] = w[1] /\ v[5] = w[5]
  BY AlongFacts
<1>8. (SQR(v[2]) \oplus SQR(v[3])) \oplus SQR(v[4]) = (a \oplus b) \oplus c
  <2>1. v[2] = w[x + 1] /\ v[3] = w[(x % 3) + 2] /\ v[4] = w[((x + 1) % 3) + 2]
    BY AlongFacts
  <2> HIDE DEF v
  <2>2. CASE x = 1
    BY <2>1, <2>2 DEF a, b, c
  <2>3. CASE x = 2
    BY <2>1, <2>3, <1>6 DEF a, b, c
  <2>4. CASE x = 3
    BY <2>1, <2>4, <1>6 DEF a, b, c
  <2> QED BY <2>2, <2>3, <2>4 DEF Dirs
<1> HIDE DEF v
<1>9. Energy(w) \in Fraction
  BY <1>5 DEF Energy, a, b, c
<1>10. Energy(v) = Energy(w)
  BY <1>7, <1>8 DEF Energy, a, b, c
<1> QED BY <1>9, <1>10 DEF v

\* One side of the solver is F - b U, each component where the sweep keeps it.
LEMMA SideFacts ==
  ASSUME NEW x \in Dirs, NEW w \in [Vars -> Fraction], NEW b \in Fraction, NEW n \in Vars
  PROVE  /\ EulerFlux(x, w)[n] \in Fraction /\ Conserved(w)[n] \in Fraction
         /\ Side(Along(x, w), b)[Place(x, n)] = EulerFlux(x, w)[n] \ominus (b \otimes Conserved(w)[n])
<1> DEFINE l == Along(x, w)
           m == l[1] \otimes (l[2] \ominus b)
           k == Place(x, n)
<1>1. /\ l \in [Vars -> Fraction] /\ l[1] = w[1] /\ l[2] = w[x + 1] /\ l[5] = w[5]
      /\ x + 1 \in Vars /\ 1 \in Vars /\ 5 \in Vars
  BY AlongFacts DEF Vars, Dirs
<1>2. w[1] \in Fraction /\ w[5] \in Fraction /\ w[x + 1] \in Fraction /\ w[n] \in Fraction /\ Zero \in Fraction
  BY <1>1, Closed
<1>3. Energy(l) = Energy(w) /\ Energy(w) \in Fraction
  BY EnergyFacts
<1>4. /\ Side(l, b)[1] = m /\ Side(l, b)[2] = (l[2] \otimes m) \oplus l[5]
      /\ Side(l, b)[3] = l[3] \otimes m /\ Side(l, b)[4] = l[4] \otimes m
      /\ Side(l, b)[5] = (Energy(l) \otimes (l[2] \ominus b)) \oplus (l[5] \otimes l[2])
  BY DEF Side
<1>5. /\ w[1] \otimes w[x + 1] \in Fraction /\ w[1] \otimes w[n] \in Fraction
      /\ w[1] \otimes (w[x + 1] \ominus b) \in Fraction
  BY <1>2, Closed
<1> HIDE DEF l
<1>6. CASE n = 1
  <2>1. k = 1 /\ EulerFlux(x, w)[n] = w[1] \otimes w[x + 1] /\ Conserved(w)[n] = w[1]
    BY <1>6, PlaceFacts DEF EulerFlux, Conserved, Vars
  <2>2. m = (w[1] \otimes w[x + 1]) \ominus (b \otimes w[1])
    BY <1>1, <1>2, MassPart
  <2> QED BY <1>2, <1>4, <1>5, <2>1, <2>2 DEF l
<1>7. CASE n = 5
  <2>1. /\ k = 5 /\ Conserved(w)[n] = Energy(w)
        /\ EulerFlux(x, w)[n] = (Energy(w) \oplus w[5]) \otimes w[x + 1]
    BY <1>7, PlaceFacts DEF EulerFlux, Conserved, Vars
  <2>2. (Energy(w) \otimes (w[x + 1] \ominus b)) \oplus (w[5] \otimes w[x + 1])
          = ((Energy(w) \oplus w[5]) \otimes w[x + 1]) \ominus (b \otimes Energy(w))
    BY <1>2, <1>3, EnergyPart
  <2>3. (Energy(w) \oplus w[5]) \otimes w[x + 1] \in Fraction
    BY <1>2, <1>3, Closed
  <2> QED BY <1>1, <1>3, <1>4, <2>1, <2>2, <2>3 DEF l
<1>8. CASE n \in 2 .. 4 /\ n = x + 1
  <2>1. /\ k = 2 /\ Conserved(w)[n] = w[1] \otimes w[n]
        /\ EulerFlux(x, w)[n] = ((w[1] \otimes w[x + 1]) \otimes w[n]) \oplus w[5]
    BY <1>8, PlaceFacts DEF EulerFlux, Conserved, Vars
  <2>2. (w[n] \otimes (w[1] \otimes (w[x + 1] \ominus b))) \oplus w[5]
          = (((w[1] \otimes w[x + 1]) \otimes w[n]) \oplus w[5]) \ominus (b \otimes (w[1] \otimes w[n]))
    BY <1>2, MomentumPart
  <2>3. ((w[1] \otimes w[x + 1]) \otimes w[n]) \oplus w[5] \in Fraction
    BY <1>2, <1>5, Closed
  <2> QED BY <1>1, <1>4, <1>5, <1>8, <2>1, <2>2, <2>3 DEF l
<1>9. CASE n \in 2 .. 4 /\ n # x + 1
  <2>1. /\ k \in {3, 4} /\ Conserved(w)[n] = w[1] \otimes w[n]
        /\ EulerFlux(x, w)[n] = ((w[1] \otimes w[x + 1]) \otimes w[n]) \oplus Zero
    BY <1>9, PlaceFacts DEF EulerFlux, Conserved, Vars
  <2>2. l[k] = w[n]
    <3>1. Order(x)[k - 1] = n - 1
      BY <1>9, PlaceFacts
    <3>2. l[k] = w[Order(x)[k - 1] + 1]
      BY <2>1 DEF l, Along, Vars
    <3>3. (n - 1) + 1 = n
      BY <1>9
    <3> QED BY <3>1, <3>2, <3>3
  <2>3. Side(l, b)[k] = w[n] \otimes (w[1] \otimes (w[x + 1] \ominus b))
    BY <1>1, <1>4, <2>1, <2>2
  <2>4. (w[n] \otimes (w[1] \otimes (w[x + 1] \ominus b))) \oplus Zero
          = (((w[1] \otimes w[x + 1]) \otimes w[n]) \oplus Zero) \ominus (b \otimes (w[1] \otimes w[n]))
    BY <1>2, MomentumPart
  <2>5. /\ w[n] \otimes (w[1] \otimes (w[x + 1] \ominus b)) \in Fraction
        /\ ((w[1] \otimes w[x + 1]) \otimes w[n]) \oplus Zero \in Fraction
    BY <1>2, <1>5, Closed
  <2>6. (w[n] \otimes (w[1] \otimes (w[x + 1] \ominus b))) \oplus Zero
          = w[n] \otimes (w[1] \otimes (w[x + 1] \ominus b))
    BY <2>5, Field
  <2> QED BY <1>5, <2>1, <2>3, <2>4, <2>5, <2>6 DEF l
<1> QED BY <1>6, <1>7, <1>8, <1>9 DEF Vars

-----------------------------------------------------------------------------
\* Whole numbers: the mean of two is at least the root of their product.
LEMMA Means ==
  ASSUME NEW u \in Int, NEW v \in Int, NEW y \in Int, u > 0, v > 0, y > 0, u * v >= y * y
  PROVE  u + v >= 2 * y
<1> SUFFICES ASSUME u + v < 2 * y PROVE FALSE
  OBVIOUS
<1>1. (u + v) * (u + v) < (2 * y) * (2 * y)
  <2>1. (u + v) * (u + v) <= (u + v) * (2 * y)
    OBVIOUS
  <2>2. (u + v) * (2 * y) < (2 * y) * (2 * y)
    OBVIOUS
  <2> QED BY <2>1, <2>2
<1>2. (u + v) * (u + v) = (u - v) * (u - v) + 4 * (u * v)
  OBVIOUS
<1>3. (u - v) * (u - v) >= 0
  OBVIOUS
<1>4. (2 * y) * (2 * y) = 4 * (y * y)
  OBVIOUS
<1> QED BY <1>1, <1>2, <1>3, <1>4

LEMMA LargerFactors ==
  ASSUME NEW u \in Int, NEW v \in Int, NEW y \in Int, y > 0, u >= y, v >= y
  PROVE  u * v >= y * y
<1>1. u * v >= u * y /\ u * y >= y * y
  OBVIOUS
<1> QED BY <1>1

\* The eight products two sides make, in pairs of the same product.
LEMMA Eightfold ==
  ASSUME NEW A \in Int, NEW B \in Int, NEW a \in Int, NEW b \in Int, NEW F \in Int, NEW G \in Int,
         NEW y \in Int, A > 0, B > 0, a > 0, b > 0, F > 0, G > 0,
         ((A * a) * a) * F >= y, ((B * b) * b) * G >= y
  PROVE  ((A + B) * (a + b)) * (a * F + b * G) >= 8 * y
<1> DEFINE p1 == ((A * a) * a) * F  q1 == ((B * b) * b) * G
           p2 == ((A * a) * b) * G  q2 == ((B * b) * a) * F
           p3 == ((A * b) * a) * F  q3 == ((B * a) * b) * G
           p4 == ((A * b) * b) * G  q4 == ((B * a) * a) * F
<1>1. ((A + B) * (a + b)) * (a * F + b * G) = (p1 + q1) + (p2 + q2) + (p3 + q3) + (p4 + q4)
  OBVIOUS
<1>2. p2 * q2 = p1 * q1 /\ p3 * q3 = p1 * q1 /\ p4 * q4 = p1 * q1
  OBVIOUS
<1>3. /\ p1 > 0 /\ p2 > 0 /\ p3 > 0 /\ p4 > 0 /\ q1 > 0 /\ q2 > 0 /\ q3 > 0 /\ q4 > 0
  <2>1. \A i, j \in Int : i > 0 /\ j > 0 => i * j > 0
    OBVIOUS
  <2>2. A * a > 0 /\ B * b > 0 /\ A * b > 0 /\ B * a > 0
    BY <2>1
  <2>3. (A * a) * a > 0 /\ (A * a) * b > 0 /\ (A * b) * a > 0 /\ (A * b) * b > 0
    BY <2>1, <2>2
  <2>4. (B * b) * b > 0 /\ (B * b) * a > 0 /\ (B * a) * b > 0 /\ (B * a) * a > 0
    BY <2>1, <2>2
  <2> QED BY <2>1, <2>3, <2>4
<1>4. /\ p1 \in Int /\ p2 \in Int /\ p3 \in Int /\ p4 \in Int
      /\ q1 \in Int /\ q2 \in Int /\ q3 \in Int /\ q4 \in Int
  OBVIOUS
<1> HIDE DEF p1, p2, p3, p4, q1, q2, q3, q4
<1>5. CASE y > 0
  <2>1. p1 >= y /\ q1 >= y
    BY DEF p1, q1
  <2>2. p1 * q1 >= y * y
    BY <1>4, <1>5, <2>1, LargerFactors
  <2>3. p1 + q1 >= 2 * y /\ p2 + q2 >= 2 * y /\ p3 + q3 >= 2 * y /\ p4 + q4 >= 2 * y
    BY <1>2, <1>3, <1>4, <1>5, <2>2, Means
  <2> QED BY <1>1, <1>4, <2>3
<1>6. CASE ~(y > 0)
  BY <1>1, <1>3, <1>4, <1>6
<1> QED BY <1>5, <1>6

-----------------------------------------------------------------------------
LEMMA Cancelling ==
  ASSUME NEW k \in Int, NEW m \in Int, NEW n \in Int, k > 0
  PROVE  (k * m <= k * n => m <= n) /\ (k * m < k * n => m < n)
<1>1. m > n => k * m > k * n
  OBVIOUS
<1>2. m = n => k * m = k * n
  OBVIOUS
<1> QED BY <1>1, <1>2

-----------------------------------------------------------------------------
\* A number whose square is no more than another's is no more than it.
LEMMA Roots ==
  ASSUME NEW u \in Int, NEW v \in Int, u > 0, v > 0, u * u <= v * v
  PROVE  u <= v
<1> SUFFICES ASSUME u > v PROVE FALSE
  OBVIOUS
<1>1. u * u > u * v /\ u * v > v * v
  OBVIOUS
<1> QED BY <1>1

\* The speed of sound of a state of a face, over a common denominator.
LEMMA SoundFacts ==
  ASSUME NEW w \in FaceStates, IsState(w), NEW d, NEW A, NEW P, NEW a, NEW g,
         Over(w[1], A, d), Over(w[5], P, d), Over(SoundSpeed(w), a, d), Over(Gamma, g, d)
  PROVE  a > 0 /\ P * (d * d) <= (A * a) * a /\ (g * P) * d <= 2 * ((A * a) * a)
<1> DEFINE c == SoundSpeed(w)
           s == (Gamma \otimes w[5]) \oslash w[1]
<1>1. /\ Zero \prec c /\ s \preceq Gamma \otimes SQR(c) /\ s \preceq R(2, 1) \otimes SQR(c)
  BY SqrtAssumption DEF RootOf
<1>2. d \in Pos /\ d \in Int /\ d > 0 /\ A \in Int /\ P \in Int /\ a \in Int /\ g \in Int
  BY OverParts
<1>3. Over(Zero, 0, d) /\ Over(One, d, d) /\ Over(R(2, 1), 2, 1)
  BY <1>2, OverConstants, OverR DEF Pos
<1>4. A > 0 /\ P > 0 /\ a > 0 /\ g > d
  <2>1. Zero \prec w[1] /\ Zero \prec w[5] /\ One \prec Gamma
    BY StatesAssumption DEF IsState
  <2> HIDE DEF c
  <2> QED BY <1>1, <1>2, <1>3, <2>1, OverLess DEF c
<1> HIDE DEF c
<1>5. /\ Over(Gamma \otimes w[5], g * P, d * d) /\ Over(SQR(c), a * a, d * d)
  BY OverTimes DEF SQR, c
<1>6. /\ Over(s, (g * P) * d, (d * d) * A)
  BY <1>2, <1>4, <1>5, OverDivide
<1>7. /\ Over(Gamma \otimes SQR(c), g * (a * a), d * (d * d))
      /\ Over(R(2, 1) \otimes SQR(c), 2 * (a * a), 1 * (d * d))
  BY <1>3, <1>5, OverTimes
<1> HIDE DEF s
<1>8. A \in Pos /\ d * A \in Pos
  BY <1>2, <1>4 DEF Pos
<1>9. /\ Over(s, ((g * P) * d) * d, ((d * d) * A) * d)
      /\ Over(Gamma \otimes SQR(c), (g * (a * a)) * A, (d * (d * d)) * A)
      /\ Over(R(2, 1) \otimes SQR(c), (2 * (a * a)) * (d * A), (1 * (d * d)) * (d * A))
  BY <1>2, <1>6, <1>7, <1>8, OverScale
<1>10. (d * (d * d)) * A = ((d * d) * A) * d /\ (1 * (d * d)) * (d * A) = ((d * d) * A) * d
  BY <1>2
<1>11. /\ ((g * P) * d) * d <= (g * (a * a)) * A
       /\ ((g * P) * d) * d <= (2 * (a * a)) * (d * A)
  BY <1>1, <1>9, <1>10, OverLess
<1>12. P * (d * d) <= (A * a) * a
  <2>1. g * (P * (d * d)) <= g * ((A * a) * a)
    <3>1. g * (P * (d * d)) = ((g * P) * d) * d /\ g * ((A * a) * a) = (g * (a * a)) * A
      BY <1>2
    <3> QED BY <3>1, <1>11
  <2>2. P * (d * d) \in Int /\ (A * a) * a \in Int /\ g > 0
    BY <1>2, <1>4
  <2> QED BY <1>2, <2>1, <2>2, Cancelling
<1>13. (g * P) * d <= 2 * ((A * a) * a)
  <2>1. d * ((g * P) * d) <= d * (2 * ((A * a) * a))
    <3>1. d * ((g * P) * d) = ((g * P) * d) * d /\ d * (2 * ((A * a) * a)) = (2 * (a * a)) * (d * A)
      BY <1>2
    <3> QED BY <3>1, <1>11
  <2>2. (g * P) * d \in Int /\ 2 * ((A * a) * a) \in Int
    BY <1>2
  <2> QED BY <1>2, <2>1, <2>2, Cancelling
<1> QED BY <1>4, <1>12, <1>13

\* The factor of step 3 is at least one, and enough for the pressure between
\* the waves: by it x is at most p times the factor.
LEMMA FasterFacts ==
  ASSUME NEW w, IsState(w), NEW x \in Fraction
  PROVE  /\ Faster(x, w) \in Fraction /\ One \preceq Faster(x, w)
         /\ x \preceq w[5] \otimes Faster(x, w)
<1> DEFINE f == Faster(x, w)
           p == w[5]
           r == Sqrt(R(2, 1) \otimes Gamma)
<1>1. /\ p \in Fraction /\ Gamma \in Fraction /\ r \in Fraction /\ Zero \prec p /\ One \prec Gamma
      /\ Zero \prec r /\ SQR(r) \preceq R(2, 1) \otimes (R(2, 1) \otimes Gamma) /\ One \in Fraction
  BY StatesAssumption, SqrtAssumption, Closed DEF IsState, RootOf, Vars
<1>2. CASE x \preceq p
  <2>1. f = One
    BY <1>2 DEF Faster
  <2>2. p \otimes One = p /\ One \preceq One
    BY <1>1, Field, Ordered
  <2> QED BY <1>1, <1>2, <2>1, <2>2
<1>3. CASE ~(x \preceq p)
  <2> DEFINE k == (Gamma \oplus One) \oslash r
             m == (x \oslash p) \ominus One
  <2>1. f = One \oplus (k \otimes m)
    BY <1>3 DEF Faster
  <2> HIDE DEF f, p, r
  <2>2. PICK d : Denominator(d, {x, p, Gamma, r, r, r, r, r})
    BY <1>1, DenominatorOf
  <2>3. PICK X, P, g, h \in Int : Over(x, X, d) /\ Over(p, P, d) /\ Over(Gamma, g, d) /\ Over(r, h, d)
    BY <2>2 DEF Denominator
  <2>4. d \in Pos /\ d \in Int /\ d > 0 /\ Over(Zero, 0, d) /\ Over(One, d, d) /\ Over(R(2, 1), 2, 1)
    BY <2>2, OverConstants, OverR DEF Denominator, Pos
  <2>5. P > 0 /\ g > d /\ h > 0 /\ X > P
    BY <1>1, <1>3, <2>3, <2>4, OverLess
  <2>6. h <= g + d
    <3>1. /\ Over(SQR(r), h * h, d * d) /\ Over(R(2, 1) \otimes Gamma, 2 * g, 1 * d)
      BY <2>3, <2>4, OverTimes DEF SQR
    <3>2. Over(R(2, 1) \otimes (R(2, 1) \otimes Gamma), 2 * (2 * g), 1 * (1 * d))
      BY <2>4, <3>1, OverTimes
    <3>3. 1 * (1 * d) = d
      BY <2>4
    <3>4. Over(R(2, 1) \otimes (R(2, 1) \otimes Gamma), (2 * (2 * g)) * d, d * d)
      BY <2>4, <3>2, <3>3, OverScale
    <3>5. h * h <= (2 * (2 * g)) * d
      BY <1>1, <3>1, <3>4, OverLess
    <3>6. (g + d) * (g + d) = (2 * (2 * g)) * d + (g - d) * (g - d) /\ (g - d) * (g - d) >= 0
      BY <2>4
    <3>7. h * h <= (g + d) * (g + d)
      BY <2>4, <3>5, <3>6
    <3> QED BY <2>4, <2>5, <3>7, Roots
  <2>7. Over(Gamma \oplus One, g + d, d) /\ Over(x \oslash p, X * d, d * P)
    BY <2>3, <2>4, <2>5, OverPlus, OverDivide
  <2>8. Over(k, (g + d) * d, d * h)
    <3>1. g + d \in Int
      BY <2>4
    <3> QED BY <2>3, <2>4, <2>5, <2>7, <3>1, OverDivide
  <2>9. d * P \in Pos /\ d * h \in Pos
    BY <2>4, <2>5 DEF Pos
  <2>10. Over(m, X * d - d * P, d * P)
    BY <2>7, <2>9, OverConstants, OverMinus
  <2> HIDE DEF k, m
  <2> DEFINE N == ((g + d) * d) * (X * d - d * P)
             E == (d * h) * (d * P)
  <2>11. Over(k \otimes m, N, E) /\ E \in Pos
    BY <2>8, <2>9, <2>10, OverTimes, PosTimes
  <2> HIDE DEF N, E
  <2>12. Over(One, E, E) /\ Over(f, E + N, E)
    BY <2>1, <2>11, OverConstants, OverPlus
  <2>13. Over(p \otimes f, P * (E + N), d * E) /\ Over(x, X * E, d * E)
    BY <2>3, <2>11, <2>12, OverTimes, OverScale
  <2>14. E \in Int /\ N \in Int
    BY <2>11 DEF Over, Pos
  <2>15. N >= 0 /\ X * E <= P * (E + N)
    <3> DEFINE D == X - P
               K == (d * d) * P
    <3>1. D \in Int /\ K \in Int /\ X = P + D /\ D > 0 /\ K > 0
      <4>1. d * d > 0 /\ d * d \in Int
        BY <2>4
      <4>2. (d * d) * P > 0 /\ (d * d) * P \in Int
        BY <2>3, <2>5, <4>1
      <4>3. X - P \in Int /\ X = P + (X - P) /\ X - P > 0
        BY <2>3, <2>5
      <4> QED BY <4>2, <4>3
    <3>2. E = K * h /\ P * N = (K * D) * (g + d) /\ N = ((d * d) * D) * (g + d)
      BY <2>3, <2>4 DEF E, N
    <3>3. X * E = P * E + (K * D) * h
      <4> HIDE DEF D, K
      <4>1. X * E = P * E + D * E
        BY <2>3, <2>14, <3>1
      <4>2. D * E = (K * D) * h
        BY <2>3, <3>1, <3>2
      <4> QED BY <4>1, <4>2
    <3>4. K * D > 0 /\ (d * d) * D > 0
      <4> HIDE DEF D, K
      <4> QED BY <2>4, <3>1
    <3> HIDE DEF D, K
    <3>5. (K * D) * h <= (K * D) * (g + d)
      BY <2>3, <2>4, <2>6, <3>1, <3>4
    <3>6. P * (E + N) = P * E + P * N
      BY <2>3, <2>14
    <3>7. N >= 0
      BY <2>3, <2>4, <2>5, <3>1, <3>2, <3>4
    <3>8. P * E \in Int /\ (K * D) * h \in Int /\ (K * D) * (g + d) \in Int
      BY <2>3, <2>4, <2>14, <3>1
    <3> QED BY <3>2, <3>3, <3>5, <3>6, <3>7, <3>8
  <2>16. One \preceq f /\ x \preceq p \otimes f
    BY <2>12, <2>13, <2>14, <2>15, OverLess
  <2> QED BY <2>12, <2>16 DEF Over, f, p
<1> QED BY <1>2, <1>3

\* The left wave goes right and the right one left: what the steps of the solver
\* would have to give, over the denominator d.
Meeting(d, A, B, a, b, F, G, P, Q, U, V, X) ==
  /\ A > 0 /\ B > 0 /\ a > 0 /\ b > 0 /\ F > 0 /\ G > 0 /\ P > 0 /\ Q > 0
  /\ P * (d * d) <= (A * a) * a /\ Q * (d * d) <= (B * b) * b
  /\ X * d <= P * F /\ X * d <= Q * G
  /\ X * (8 * (d * d)) = (P + Q) * (4 * (d * d)) + (U - V) * ((A + B) * (a + b))
  /\ a * F <= U * d /\ V * d <= -(b * G)

\* The estimate of the pressure keeps the waves apart: they could meet only
\* where the two sides draw apart faster than a pressure that high allows.
LEMMA WavesApart ==
  ASSUME NEW d \in Int, NEW A \in Int, NEW B \in Int, NEW a \in Int, NEW b \in Int,
         NEW F \in Int, NEW G \in Int, NEW P \in Int, NEW Q \in Int,
         NEW U \in Int, NEW V \in Int, NEW X \in Int, d > 0
  PROVE  ~Meeting(d, A, B, a, b, F, G, P, Q, U, V, X)
<1> SUFFICES ASSUME Meeting(d, A, B, a, b, F, G, P, Q, U, V, X) PROVE FALSE
  OBVIOUS
<1> USE DEF Meeting
<1> DEFINE K == (A + B) * (a + b)
           e == d * d
           y == (X * d) * e
<1>1. e \in Int /\ e > 0 /\ K \in Int /\ K > 0 /\ y \in Int
  <2>1. e \in Int /\ e > 0
    OBVIOUS
  <2>2. A + B \in Int /\ A + B > 0 /\ a + b \in Int /\ a + b > 0
    OBVIOUS
  <2>3. K \in Int /\ K > 0
    BY <2>2
  <2> HIDE DEF e, K
  <2> QED BY <2>1, <2>3
<1>2. ((A * a) * a) * F >= y /\ ((B * b) * b) * G >= y
  <2>1. /\ P * e \in Int /\ Q * e \in Int /\ (A * a) * a \in Int /\ (B * b) * b \in Int
        /\ P * e <= (A * a) * a /\ Q * e <= (B * b) * b
    BY <1>1
  <2> HIDE DEF e
  <2>2. ((A * a) * a) * F >= (P * e) * F /\ ((B * b) * b) * G >= (Q * e) * G
    BY <2>1
  <2>3. (P * e) * F = (P * F) * e /\ (Q * e) * G = (Q * G) * e
    BY <1>1
  <2>4. (P * F) * e >= (X * d) * e /\ (Q * G) * e >= (X * d) * e
    <3>1. P * F \in Int /\ Q * G \in Int /\ X * d \in Int
      OBVIOUS
    <3> QED BY <1>1, <3>1
  <2>5. /\ ((A * a) * a) * F \in Int /\ ((B * b) * b) * G \in Int
        /\ (P * F) * e \in Int /\ (Q * G) * e \in Int /\ y = (X * d) * e
    BY <1>1
  <2> HIDE DEF y
  <2>6. ((A * a) * a) * F >= y
    BY <1>1, <2>2, <2>3, <2>4, <2>5
  <2>7. ((B * b) * b) * G >= y
    BY <1>1, <2>2, <2>3, <2>4, <2>5
  <2> QED BY <2>6, <2>7
<1>3. K * (a * F + b * G) >= 8 * y
  <2> HIDE DEF e, y
  <2> QED BY <1>1, <1>2, Eightfold
<1>4. K * (U * d - V * d) >= K * (a * F + b * G)
  <2>1. U * d - V * d >= a * F + b * G /\ U * d - V * d \in Int /\ a * F + b * G \in Int
    OBVIOUS
  <2> HIDE DEF K
  <2> QED BY <1>1, <2>1
<1>5. K * (U * d - V * d) = ((U - V) * K) * d
  <2> HIDE DEF K
  <2> QED BY <1>1
<1>6. ((U - V) * K) * d = 8 * y - ((P + Q) * (4 * e)) * d
  <2>1. (U - V) * K = X * (8 * e) - (P + Q) * (4 * e)
    <3>1. (U - V) * K \in Int /\ X * (8 * e) \in Int /\ (P + Q) * (4 * e) \in Int
      <4> HIDE DEF K, e
      <4> QED BY <1>1
    <3> QED BY <3>1
  <2> HIDE DEF K, e
  <2>2. (X * (8 * e) - (P + Q) * (4 * e)) * d = 8 * ((X * d) * e) - ((P + Q) * (4 * e)) * d
    BY <1>1
  <2> QED BY <2>1, <2>2
<1>7. ((P + Q) * (4 * e)) * d > 0 /\ ((P + Q) * (4 * e)) * d \in Int
  <2> HIDE DEF e
  <2>1. P + Q > 0 /\ 4 * e > 0 /\ P + Q \in Int /\ 4 * e \in Int
    BY <1>1
  <2>2. (P + Q) * (4 * e) > 0 /\ (P + Q) * (4 * e) \in Int
    BY <2>1
  <2> QED BY <2>2
<1> HIDE DEF K, e, y
<1>8. K * (a * F + b * G) \in Int /\ K * (U * d - V * d) \in Int /\ ((U - V) * K) * d \in Int
  BY <1>1
<1>9. \A t, u, v, z \in Int : t >= 8 * y /\ u >= t /\ u = v /\ v = 8 * y - z => ~(z > 0)
  BY <1>1
<1> QED BY <1>3, <1>4, <1>5, <1>6, <1>7, <1>8, <1>9

\* The waves of any two states of a face: apart, on the two sides of zero, and
\* faster than the sound of either side.
LEMMA WaveFacts ==
  ASSUME NEW l, NEW r, IsState(l), IsState(r), NEW w \in FaceStates, NEW v \in FaceStates,
         l[1] = w[1], l[5] = w[5], IsState(w), r[1] = v[1], r[5] = v[5], IsState(v),
         NEW pmid, NEW al, NEW ar, NEW bm, NEW bp,
         pmid = PMid(l, r, Half \otimes (SoundSpeed(l) \oplus SoundSpeed(r))),
         al = l[2] \ominus (SoundSpeed(l) \otimes Faster(pmid, l)),
         ar = r[2] \oplus (SoundSpeed(r) \otimes Faster(pmid, r)),
         bp = (IF Zero \prec ar THEN ar ELSE Zero), bm = (IF al \prec Zero THEN al ELSE Zero)
  PROVE  /\ bm \in Fraction /\ bp \in Fraction /\ bm \preceq Zero /\ Zero \preceq bp /\ bm \prec bp
         /\ SoundSpeed(l) \preceq l[2] \ominus bm /\ SoundSpeed(r) \preceq bp \ominus r[2]
<1> DEFINE cl == SoundSpeed(l)
           cr == SoundSpeed(r)
           f == Faster(pmid, l)
           g == Faster(pmid, r)
           ca == Half \otimes (cl \oplus cr)
           t == ((l[2] \ominus r[2]) \otimes (Half \otimes (l[1] \oplus r[1]))) \otimes ca
           s == (l[5] \oplus r[5]) \oplus t
<1>1. cl = SoundSpeed(w) /\ cr = SoundSpeed(v) /\ cl \in Fraction /\ cr \in Fraction
  BY SqrtAssumption DEF SoundSpeed, RootOf
<1>2. /\ l[1] \in Fraction /\ l[2] \in Fraction /\ l[5] \in Fraction /\ Gamma \in Fraction
      /\ r[1] \in Fraction /\ r[2] \in Fraction /\ r[5] \in Fraction /\ Half \in Fraction
  BY GammaFacts, Closed DEF IsState, Vars
<1> HIDE DEF cl, cr
<1>3. pmid = Half \otimes s /\ pmid \in Fraction
  <2>1. pmid = Half \otimes s
    BY DEF PMid, cl, cr
  <2>2. l[2] \ominus r[2] \in Fraction /\ l[1] \oplus r[1] \in Fraction /\ cl \oplus cr \in Fraction
        /\ l[5] \oplus r[5] \in Fraction
    BY <1>1, <1>2, Closed
  <2>3. Half \otimes (l[1] \oplus r[1]) \in Fraction /\ ca \in Fraction
    BY <1>2, <2>2, Closed
  <2>4. (l[2] \ominus r[2]) \otimes (Half \otimes (l[1] \oplus r[1])) \in Fraction
    BY <2>2, <2>3, Closed
  <2> HIDE DEF ca
  <2>5. t \in Fraction
    BY <2>3, <2>4, Closed
  <2> HIDE DEF t
  <2>6. s \in Fraction
    BY <2>2, <2>5, Closed
  <2> HIDE DEF s
  <2> QED BY <1>2, <2>1, <2>6, Closed
<1>4. /\ f \in Fraction /\ One \preceq f /\ pmid \preceq l[5] \otimes f
      /\ g \in Fraction /\ One \preceq g /\ pmid \preceq r[5] \otimes g
  BY <1>3, FasterFacts
<1> HIDE DEF f, g
<1>5. PICK d : Denominator(d, {l[1], r[1], cl, cr, f, g, l[5], r[5]} \cup {l[2], r[2], pmid, Gamma, Gamma, Gamma, Gamma, Gamma})
  <2>1. PICK d : Denominator(d, {l[1], r[1], cl, cr, f, g, l[5], r[5]})
    BY <1>1, <1>2, <1>4, DenominatorOf
  <2>2. PICK e : Denominator(e, {l[2], r[2], pmid, Gamma, Gamma, Gamma, Gamma, Gamma})
    BY <1>2, <1>3, DenominatorOf
  <2> QED BY <2>1, <2>2, DenominatorUnion
<1>6. PICK A, B, a, b, F, G, P, Q \in Int :
        /\ Over(l[1], A, d) /\ Over(r[1], B, d) /\ Over(cl, a, d) /\ Over(cr, b, d)
        /\ Over(f, F, d) /\ Over(g, G, d) /\ Over(l[5], P, d) /\ Over(r[5], Q, d)
  BY <1>5 DEF Denominator
<1>7. PICK U, V, X, C \in Int :
        Over(l[2], U, d) /\ Over(r[2], V, d) /\ Over(pmid, X, d) /\ Over(Gamma, C, d)
  BY <1>5 DEF Denominator
<1>8. d \in Pos /\ d \in Int /\ d > 0 /\ d * d \in Pos /\ Over(Zero, 0, d) /\ Over(Zero, 0, d * d)
      /\ Over(One, d, d) /\ Over(Half, 1, 2)
  BY <1>5, OverConstants, PosTimes DEF Denominator, Pos
<1>9. /\ A > 0 /\ B > 0 /\ P > 0 /\ Q > 0 /\ F >= d /\ G >= d
  <2>1. Zero \prec l[1] /\ Zero \prec l[5] /\ Zero \prec r[1] /\ Zero \prec r[5]
    BY DEF IsState
  <2> QED BY <1>4, <1>6, <1>8, <2>1, OverLess
<1>10. /\ a > 0 /\ P * (d * d) <= (A * a) * a /\ b > 0 /\ Q * (d * d) <= (B * b) * b
  BY <1>1, <1>6, <1>7, SoundFacts
<1>11. X * d <= P * F /\ X * d <= Q * G
  <2>1. Over(l[5] \otimes f, P * F, d * d) /\ Over(r[5] \otimes g, Q * G, d * d) /\ Over(pmid, X * d, d * d)
    BY <1>6, <1>7, <1>8, OverTimes, OverScale
  <2> QED BY <1>4, <2>1, OverLess
<1>12. X * (8 * (d * d)) = (P + Q) * (4 * (d * d)) + (U - V) * ((A + B) * (a + b))
  <2>1. /\ Over(l[2] \ominus r[2], U - V, d) /\ Over(l[1] \oplus r[1], A + B, d)
        /\ Over(cl \oplus cr, a + b, d) /\ Over(l[5] \oplus r[5], P + Q, d)
    BY <1>6, <1>7, OverMinus, OverPlus
  <2>2. /\ Over(Half \otimes (l[1] \oplus r[1]), 1 * (A + B), 2 * d)
        /\ Over(ca, 1 * (a + b), 2 * d)
    BY <1>8, <2>1, OverTimes
  <2>3. Over((l[2] \ominus r[2]) \otimes (Half \otimes (l[1] \oplus r[1])),
             (U - V) * (1 * (A + B)), d * (2 * d))
    BY <2>1, <2>2, OverTimes
  <2> HIDE DEF ca
  <2>4. Over(t, ((U - V) * (1 * (A + B))) * (1 * (a + b)), (d * (2 * d)) * (2 * d))
    BY <2>2, <2>3, OverTimes
  <2> HIDE DEF t
  <2> DEFINE T == ((U - V) * (1 * (A + B))) * (1 * (a + b))
             e == 4 * (d * d)
  <2>5. (d * (2 * d)) * (2 * d) = d * e /\ e \in Pos /\ T = (U - V) * ((A + B) * (a + b)) /\ e \in Int /\ T \in Int
    <3>1. (d * (2 * d)) * (2 * d) = d * e /\ T = (U - V) * ((A + B) * (a + b)) /\ T \in Int
      BY <1>8
    <3>2. e \in Pos /\ e \in Int
      BY <1>8 DEF Pos
    <3> QED BY <3>1, <3>2
  <2> HIDE DEF T, e
  <2>6. Over(l[5] \oplus r[5], (P + Q) * e, d * e) /\ Over(t, T, d * e)
    BY <2>1, <2>4, <2>5, OverScale DEF T
  <2>7. Over(s, (P + Q) * e + T, d * e)
    BY <2>6, OverPlus
  <2> HIDE DEF s
  <2>8. Over(pmid, 1 * ((P + Q) * e + T), 2 * (d * e))
    BY <1>3, <1>8, <2>7, OverTimes
  <2>9. 2 * e \in Pos
    BY <2>5 DEF Pos
  <2>10. Over(pmid, X * (2 * e), d * (2 * e))
    BY <1>7, <2>9, OverScale
  <2>11. d * (2 * e) = 2 * (d * e) /\ 2 * e = 8 * (d * d)
    BY <1>8, <2>5 DEF e
  <2>12. X * (2 * e) = 1 * ((P + Q) * e + T)
    BY <2>8, <2>10, <2>11, OverEqual
  <2>13. X * (2 * e) = (P + Q) * e + T
    BY <2>5, <2>12
  <2> QED BY <2>5, <2>11, <2>13 DEF e
<1>13. Over(al, U * d - a * F, d * d) /\ Over(ar, V * d + b * G, d * d)
  <2>1. Over(cl \otimes f, a * F, d * d) /\ Over(cr \otimes g, b * G, d * d)
        /\ Over(l[2], U * d, d * d) /\ Over(r[2], V * d, d * d)
    BY <1>6, <1>7, <1>8, OverTimes, OverScale
  <2>2. al = l[2] \ominus (cl \otimes f) /\ ar = r[2] \oplus (cr \otimes g)
    BY DEF cl, cr, f, g
  <2> QED BY <2>1, <2>2, OverMinus, OverPlus
<1> DEFINE p == U * d - a * F
           n == V * d + b * G
           M == IF p < 0 THEN p ELSE 0
           N == IF n > 0 THEN n ELSE 0
<1>14. p \in Int /\ n \in Int /\ M \in Int /\ N \in Int
  BY <1>8
<1>15. Over(bm, M, d * d) /\ Over(bp, N, d * d)
  <2>1. (al \prec Zero <=> p < 0) /\ (Zero \prec ar <=> n > 0)
    BY <1>8, <1>13, OverLess
  <2> QED BY <1>8, <1>13, <2>1
<1>16. M < N
  <2> SUFFICES ASSUME ~(M < N) PROVE FALSE
    OBVIOUS
  <2>1. p >= 0 /\ n <= 0
    <3> HIDE DEF p, n
    <3> QED BY <1>14
  <2>2. a * F <= U * d /\ V * d <= -(b * G)
    <3>1. a * F \in Int /\ U * d \in Int /\ V * d \in Int /\ b * G \in Int
      BY <1>8
    <3> QED BY <2>1, <3>1
  <2>3. F > 0 /\ G > 0
    BY <1>8, <1>9
  <2> HIDE DEF M, N, p, n
  <2>4. Meeting(d, A, B, a, b, F, G, P, Q, U, V, X)
    BY <1>9, <1>10, <1>11, <1>12, <2>2, <2>3 DEF Meeting
  <2> QED BY <1>8, <2>4, WavesApart
<1>17. a * d <= U * d - M /\ b * d <= N - V * d
  <2>1. a * F \in Int /\ a * d \in Int /\ b * G \in Int /\ b * d \in Int /\ U * d \in Int /\ V * d \in Int
    BY <1>8
  <2>2. a * d <= a * F /\ b * d <= b * G
    BY <1>8, <1>9, <1>10
  <2>3. M <= U * d - a * F /\ N >= V * d + b * G
    <3>1. M <= p /\ N >= n
      <4> HIDE DEF p, n
      <4> QED BY <1>14
    <3> HIDE DEF M, N
    <3> QED BY <3>1
  <2> HIDE DEF M, N, p, n
  <2> QED BY <1>14, <2>1, <2>2, <2>3
<1>18. M <= 0 /\ N >= 0
  <2> HIDE DEF p, n
  <2> QED BY <1>14
<1> HIDE DEF M, N, p, n
<1>19. /\ bm \preceq Zero /\ Zero \preceq bp /\ bm \prec bp
  BY <1>8, <1>15, <1>16, <1>18, OverLess
<1>20. /\ cl \preceq l[2] \ominus bm /\ cr \preceq bp \ominus r[2]
  <2>1. /\ Over(cl, a * d, d * d) /\ Over(l[2], U * d, d * d) /\ Over(cr, b * d, d * d)
        /\ Over(r[2], V * d, d * d)
    BY <1>6, <1>7, <1>8, OverScale
  <2>2. Over(l[2] \ominus bm, U * d - M, d * d) /\ Over(bp \ominus r[2], N - V * d, d * d)
    BY <1>15, <2>1, OverMinus
  <2> QED BY <1>17, <2>1, <2>2, OverLess
<1> QED BY <1>15, <1>19, <1>20 DEF Over, cl, cr

-----------------------------------------------------------------------------
\* What the solver returns for two states of a face: bm and bp as above, and the
\* two sides put together, each component where the sweep keeps it.
LEMMA SolverFacts ==
  ASSUME NEW x \in Dirs, NEW w \in FaceStates, NEW v \in FaceStates, IsState(w), IsState(v),
         NEW s, s = RiemannSolver(x, w, v)
  PROVE  /\ s.bm \in Fraction /\ s.bp \in Fraction
         /\ s.bm \preceq Zero /\ Zero \preceq s.bp /\ s.bm \prec s.bp
         /\ SoundSpeed(w) \preceq w[x + 1] \ominus s.bm /\ SoundSpeed(v) \preceq s.bp \ominus v[x + 1]
         /\ \A n \in Vars :
              s.flux[n] = Combine(Side(Along(x, w), s.bm), Side(Along(x, v), s.bp), s.bm, s.bp)[Place(x, n)]
<1> DEFINE l == Along(x, w)
           r == Along(x, v)
           pmid == PMid(l, r, Half \otimes (SoundSpeed(l) \oplus SoundSpeed(r)))
           al == l[2] \ominus (SoundSpeed(l) \otimes Faster(pmid, l))
           ar == r[2] \oplus (SoundSpeed(r) \otimes Faster(pmid, r))
           bp == IF Zero \prec ar THEN ar ELSE Zero
           bm == IF al \prec Zero THEN al ELSE Zero
<1>1. s = [flux |-> Back(x, Combine(Side(l, bm), Side(r, bp), bm, bp)), bm |-> bm, bp |-> bp]
  BY DEF RiemannSolver
<1>2. /\ l \in [Vars -> Fraction] /\ l[1] = w[1] /\ l[5] = w[5] /\ l[2] = w[x + 1]
      /\ r \in [Vars -> Fraction] /\ r[1] = v[1] /\ r[5] = v[5] /\ r[2] = v[x + 1]
  BY AlongFacts DEF IsState
<1>3. IsState(l) /\ IsState(r) /\ SoundSpeed(l) = SoundSpeed(w) /\ SoundSpeed(r) = SoundSpeed(v)
  BY <1>2 DEF IsState, SoundSpeed
<1> HIDE DEF l, r
<1>4. /\ bm \in Fraction /\ bp \in Fraction /\ bm \preceq Zero /\ Zero \preceq bp /\ bm \prec bp
      /\ SoundSpeed(l) \preceq l[2] \ominus bm /\ SoundSpeed(r) \preceq bp \ominus r[2]
  <2> HIDE DEF bm, bp, al, ar, pmid
  <2>1. pmid = PMid(l, r, Half \otimes (SoundSpeed(l) \oplus SoundSpeed(r)))
    BY DEF pmid
  <2>2. /\ al = l[2] \ominus (SoundSpeed(l) \otimes Faster(pmid, l))
        /\ ar = r[2] \oplus (SoundSpeed(r) \otimes Faster(pmid, r))
    BY DEF al, ar
  <2>3. bp = (IF Zero \prec ar THEN ar ELSE Zero) /\ bm = (IF al \prec Zero THEN al ELSE Zero)
    BY DEF bp, bm
  <2> QED BY <1>2, <1>3, <2>1, <2>2, <2>3, WaveFacts
<1> HIDE DEF bm, bp
<1>5. s.bm = bm /\ s.bp = bp /\ s.flux = Back(x, Combine(Side(l, bm), Side(r, bp), bm, bp))
  BY <1>1
<1>6. \A n \in Vars : s.flux[n] = Combine(Side(l, bm), Side(r, bp), bm, bp)[Place(x, n)]
  BY <1>5 DEF Back, Place
<1> QED BY <1>2, <1>3, <1>4, <1>5, <1>6 DEF l, r

\* The invariant, of a face that is solved.
LEMMA SolvedFacts ==
  ASSUME IInv, hlle # None
  PROVE  /\ ivx \in Dirs /\ wl \in FaceStates /\ wr \in FaceStates /\ IsState(wl) /\ IsState(wr)
         /\ hlle = RiemannSolver(ivx, wl, wr)
BY FaceFacts DEF IInv

\* The flux of every face is the one of Harten, Lax and van Leer, of waves that
\* are never the same: the quotient of step 6 is never taken of zero.
THEOREM HLL == Spec => []HLLFlux
<1>1. IInv => HLLFlux
  <2> SUFFICES ASSUME IInv, hlle # None
               PROVE  /\ hlle.bm \preceq Zero /\ Zero \preceq hlle.bp /\ hlle.bm \prec hlle.bp
                      /\ \A n \in Vars : hlle.flux[n] \otimes (hlle.bp \ominus hlle.bm)
                           = (hlle.bp \otimes EulerFlux(ivx, wl)[n])
                               \oplus Minus(hlle.bm \otimes EulerFlux(ivx, wr)[n])
                               \oplus (hlle.bp \otimes hlle.bm \otimes (Conserved(wr)[n] \ominus Conserved(wl)[n]))
    BY DEF HLLFlux
  <2> DEFINE m == hlle.bm
             p == hlle.bp
             x == ivx
             fl == Side(Along(x, wl), m)
             fr == Side(Along(x, wr), p)
  <2>1. /\ x \in Dirs /\ IsState(wl) /\ IsState(wr)
        /\ m \in Fraction /\ p \in Fraction /\ m \preceq Zero /\ Zero \preceq p /\ m \prec p
        /\ \A n \in Vars : hlle.flux[n] = Combine(fl, fr, m, p)[Place(x, n)]
    BY SolvedFacts, SolverFacts
  <2> HIDE DEF m, p, x
  <2>2. ASSUME NEW n \in Vars
        PROVE  hlle.flux[n] \otimes (p \ominus m)
                 = (p \otimes EulerFlux(x, wl)[n]) \oplus Minus(m \otimes EulerFlux(x, wr)[n])
                     \oplus (p \otimes m \otimes (Conserved(wr)[n] \ominus Conserved(wl)[n]))
    <3> DEFINE k == Place(x, n)
               f == EulerFlux(x, wl)[n]
               g == EulerFlux(x, wr)[n]
               u == Conserved(wl)[n]
               v == Conserved(wr)[n]
    <3>1. /\ f \in Fraction /\ u \in Fraction /\ fl[k] = f \ominus (m \otimes u)
          /\ g \in Fraction /\ v \in Fraction /\ fr[k] = g \ominus (p \otimes v)
          /\ k \in Vars
      BY <2>1, SideFacts, PlaceFacts DEF IsState
    <3> HIDE DEF k, f, g, u, v, fl, fr
    <3>2. fl[k] \in Fraction /\ fr[k] \in Fraction
      <4>1. m \otimes u \in Fraction /\ p \otimes v \in Fraction
        BY <2>1, <3>1, Closed
      <4> QED BY <3>1, <4>1, Closed
    <3>3. m # p
      BY <2>1, Ordered
    <3>4. Combine(fl, fr, m, p)[k]
            = (Half \otimes (fl[k] \oplus fr[k]))
                \oplus ((fl[k] \ominus fr[k]) \otimes ((Half \otimes (p \oplus m)) \oslash (p \ominus m)))
      BY <3>1, <3>3 DEF Combine
    <3>5. Combine(fl, fr, m, p)[k] \otimes (p \ominus m) = (p \otimes fl[k]) \ominus (m \otimes fr[k])
      <4> DEFINE a == fl[k]
                 b == fr[k]
      <4>1. ((Half \otimes (a \oplus b))
               \oplus ((a \ominus b) \otimes ((Half \otimes (p \oplus m)) \oslash (p \ominus m)))) \otimes (p \ominus m)
              = (p \otimes a) \ominus (m \otimes b)
        <5> HIDE DEF a, b
        <5>1. a \in Fraction /\ b \in Fraction
          BY <3>2 DEF a, b
        <5> QED BY <2>1, <5>1, CombinePart
      <4> QED BY <3>4, <4>1
    <3>6. (p \otimes (f \ominus (m \otimes u))) \ominus (m \otimes (g \ominus (p \otimes v)))
            = ((p \otimes f) \oplus Minus(m \otimes g)) \oplus ((p \otimes m) \otimes (v \ominus u))
      BY <2>1, <3>1, HLLPart
    <3>7. hlle.flux[n] = Combine(fl, fr, m, p)[k]
      BY <2>1 DEF k
    <3> QED BY <3>1, <3>5, <3>6, <3>7 DEF f, g, u, v
  <2> QED BY <2>1, <2>2 DEF m, p, x
<1> QED BY <1>1, Inductive, PTL

-----------------------------------------------------------------------------
\* A speed no less than that of sound is enough for the pressure.
LEMMA Supersonic ==
  ASSUME NEW d \in Int, NEW A \in Int, NEW a \in Int, NEW S \in Int, NEW G \in Int, NEW H \in Int, NEW P \in Int,
         d > 0, A > 0, a > 0, P > 0, H > 0, H * (G - d) = P * d,
         (G * P) * d <= 2 * ((A * a) * a), S >= a \/ -S >= a
  PROVE  (P * P) * (d * d) < (2 * ((A * S) * S)) * H
<1>1. A * (S * S) >= A * (a * a)
  <2>1. S * S >= a * a
    <3>1. CASE S >= a
      BY <3>1, LargerFactors
    <3>2. CASE -S >= a
      <4>1. (-S) * (-S) >= a * a
        BY <3>2, LargerFactors
      <4>2. (-S) * (-S) = S * S
        OBVIOUS
      <4> QED BY <4>1, <4>2
    <3> QED BY <3>1, <3>2
  <2>2. S * S \in Int /\ a * a \in Int
    OBVIOUS
  <2> QED BY <2>1, <2>2
<1>2. 2 * ((A * S) * S) >= (G * P) * d
  <2>1. (A * S) * S = A * (S * S) /\ (A * a) * a = A * (a * a) /\ A * (S * S) \in Int /\ A * (a * a) \in Int
        /\ (G * P) * d \in Int
    OBVIOUS
  <2> QED BY <1>1, <2>1
<1>3. (2 * ((A * S) * S)) * H >= ((G * P) * d) * H
  <2>1. 2 * ((A * S) * S) \in Int /\ (G * P) * d \in Int
    OBVIOUS
  <2> QED BY <1>2, <2>1
<1>4. ((G * P) * d) * H = (P * P) * (d * d) + (H * P) * (d * d)
  <2>1. H * G = P * d + H * d
    <3>1. H * (G - d) = H * G - H * d
      OBVIOUS
    <3>2. H * G \in Int /\ H * d \in Int /\ P * d \in Int
      OBVIOUS
    <3> QED BY <3>1, <3>2
  <2>2. ((G * P) * d) * H = (H * G) * (P * d)
    OBVIOUS
  <2>3. (P * d + H * d) * (P * d) = (P * P) * (d * d) + (H * P) * (d * d)
    OBVIOUS
  <2> QED BY <2>1, <2>2, <2>3
<1>5. (H * P) * (d * d) > 0
  <2>1. H * P > 0 /\ d * d > 0 /\ H * P \in Int /\ d * d \in Int
    OBVIOUS
  <2> QED BY <2>1
<1>6. /\ (P * P) * (d * d) \in Int /\ (H * P) * (d * d) \in Int
      /\ ((G * P) * d) * H \in Int /\ (2 * ((A * S) * S)) * H \in Int
  OBVIOUS
<1>7. \A t, u, v, z \in Int : t >= u /\ u = v + z /\ z > 0 => v < t
  OBVIOUS
<1> QED BY <1>3, <1>4, <1>5, <1>6, <1>7

\* Twice mass times energy less the squares of the momenta, of a side.
LEMMA SideSquares ==
  ASSUME NEW e \in Int, NEW A \in Int, NEW S \in Int, NEW H \in Int, NEW P \in Int,
         NEW U \in Int, NEW V \in Int, NEW W \in Int, e > 0,
         (P * P) * e < (2 * ((A * S) * S)) * H
  PROVE  2 * ((((U * (A * S) + P * e) * (U * (A * S) + P * e)) + (V * (A * S)) * (V * (A * S)))
                + (W * (A * S)) * (W * (A * S)))
           < (2 * (A * S)) * ((H * (2 * e) + A * ((U * U + V * V) + W * W)) * S + (P * U) * (2 * e))
<1> DEFINE T == A * S
           Q == (((U * T + P * e) * (U * T + P * e)) + (V * T) * (V * T)) + (W * T) * (W * T)
           X == (2 * T) * ((H * (2 * e) + A * ((U * U + V * V) + W * W)) * S + (P * U) * (2 * e))
           Y == (2 * (T * S)) * H
           Z == (P * P) * e
<1>1. X - 2 * Q = (2 * e) * (Y - Z)
  <2>1. X = (2 * e) * Y + (2 * (T * T)) * ((U * U + V * V) + W * W) + (2 * e) * (2 * ((T * P) * U))
    OBVIOUS
  <2> HIDE DEF X, Y, T
  <2>2. T \in Int
    BY DEF T
  <2>3. 2 * Q = (2 * (T * T)) * ((U * U + V * V) + W * W) + (2 * e) * (2 * ((T * P) * U)) + (2 * e) * Z
    BY <2>2
  <2> HIDE DEF Q, Z
  <2>4. Y \in Int /\ Z \in Int
    BY <2>2 DEF Y, Z
  <2> QED BY <2>1, <2>2, <2>3, <2>4
<1>2. X \in Int /\ Q \in Int /\ Y \in Int /\ Z \in Int /\ Z < Y
  OBVIOUS
<1> HIDE DEF X, Q, Y, Z
<1>3. (2 * e) * (Y - Z) > 0
  BY <1>2
<1>4. 2 * Q < X
  BY <1>1, <1>2, <1>3
<1> QED BY <1>4 DEF X, Q, T

\* The sum of two of positive mass whose squares of momenta are below twice mass
\* times energy has the same.
LEMMA ConeSums ==
  ASSUME NEW M \in Int, NEW N \in Int, NEW E \in Int, NEW F \in Int,
         NEW m2 \in Int, NEW m3 \in Int, NEW m4 \in Int, NEW n2 \in Int, NEW n3 \in Int, NEW n4 \in Int,
         M > 0, N > 0,
         (m2 * m2 + m3 * m3) + m4 * m4 < (2 * M) * E,
         (n2 * n2 + n3 * n3) + n4 * n4 < (2 * N) * F
  PROVE  ((m2 + n2) * (m2 + n2) + (m3 + n3) * (m3 + n3)) + (m4 + n4) * (m4 + n4) < (2 * (M + N)) * (E + F)
<1> DEFINE s == (m2 * m2 + m3 * m3) + m4 * m4
           t == (n2 * n2 + n3 * n3) + n4 * n4
           r == ((m2 + n2) * (m2 + n2) + (m3 + n3) * (m3 + n3)) + (m4 + n4) * (m4 + n4)
           c == (((N * m2 - M * n2) * (N * m2 - M * n2)) + (N * m3 - M * n3) * (N * m3 - M * n3))
                  + (N * m4 - M * n4) * (N * m4 - M * n4)
<1>1. (M + N) * (N * s + M * t) = (M * N) * r + c
  <2>1. \A m, n \in Int : (M + N) * (N * (m * m) + M * (n * n)) = (M * N) * ((m + n) * (m + n)) + (N * m - M * n) * (N * m - M * n)
    OBVIOUS
  <2>2. (M + N) * (N * s + M * t)
          = ((M + N) * (N * (m2 * m2) + M * (n2 * n2)) + (M + N) * (N * (m3 * m3) + M * (n3 * n3)))
              + (M + N) * (N * (m4 * m4) + M * (n4 * n4))
    OBVIOUS
  <2>3. (M * N) * r = ((M * N) * ((m2 + n2) * (m2 + n2)) + (M * N) * ((m3 + n3) * (m3 + n3)))
                        + (M * N) * ((m4 + n4) * (m4 + n4))
    OBVIOUS
  <2>4. /\ (M + N) * (N * (m2 * m2) + M * (n2 * n2))
             = (M * N) * ((m2 + n2) * (m2 + n2)) + (N * m2 - M * n2) * (N * m2 - M * n2)
        /\ (M + N) * (N * (m3 * m3) + M * (n3 * n3))
             = (M * N) * ((m3 + n3) * (m3 + n3)) + (N * m3 - M * n3) * (N * m3 - M * n3)
        /\ (M + N) * (N * (m4 * m4) + M * (n4 * n4))
             = (M * N) * ((m4 + n4) * (m4 + n4)) + (N * m4 - M * n4) * (N * m4 - M * n4)
    BY <2>1
  <2> QED BY <2>2, <2>3, <2>4
<1>2. c >= 0
  <2>1. \A i \in Int : i * i >= 0 /\ i * i \in Int
    OBVIOUS
  <2>2. N * m2 - M * n2 \in Int /\ N * m3 - M * n3 \in Int /\ N * m4 - M * n4 \in Int
    OBVIOUS
  <2> QED BY <2>1, <2>2
<1>3. s \in Int /\ t \in Int /\ r \in Int /\ c \in Int /\ s < (2 * M) * E /\ t < (2 * N) * F
  OBVIOUS
<1> HIDE DEF s, t, r, c
<1>4. N * s + M * t < (M * N) * (2 * (E + F))
  <2>1. N * s < N * ((2 * M) * E) /\ M * t < M * ((2 * N) * F)
    BY <1>3
  <2>2. N * ((2 * M) * E) + M * ((2 * N) * F) = (M * N) * (2 * (E + F))
    OBVIOUS
  <2>3. N * s \in Int /\ M * t \in Int /\ N * ((2 * M) * E) \in Int /\ M * ((2 * N) * F) \in Int
    BY <1>3
  <2> QED BY <2>1, <2>2, <2>3
<1>5. (M + N) * (N * s + M * t) < (M + N) * ((M * N) * (2 * (E + F)))
  <2>1. N * s + M * t \in Int /\ (M * N) * (2 * (E + F)) \in Int
    BY <1>3
  <2> QED BY <1>4, <2>1
<1>6. (M + N) * ((M * N) * (2 * (E + F))) = (M * N) * ((2 * (M + N)) * (E + F))
  OBVIOUS
<1>7. (M * N) * r < (M * N) * ((2 * (M + N)) * (E + F))
  <2>1. (M * N) * r \in Int /\ (M * N) * ((2 * (M + N)) * (E + F)) \in Int
    BY <1>3
  <2> QED BY <1>1, <1>2, <1>3, <1>5, <1>6, <2>1
<1>8. M * N \in Int /\ M * N > 0 /\ (2 * (M + N)) * (E + F) \in Int
  OBVIOUS
<1>9. r < (2 * (M + N)) * (E + F)
  BY <1>3, <1>7, <1>8, Cancelling
<1> QED BY <1>9 DEF r

-----------------------------------------------------------------------------
\* Five conserved variables of positive pressure, if their mass is positive.
InCone(L) ==
  (SQR(L[2]) \oplus SQR(L[3])) \oplus SQR(L[4]) \prec (R(2, 1) \otimes L[1]) \otimes L[5]

\* A side whose wave is no slower than sound, one way or the other.
LEMMA SideCone ==
  ASSUME NEW l, IsState(l), NEW w \in FaceStates, l[1] = w[1], l[5] = w[5], IsState(w),
         NEW b \in Fraction,
         SoundSpeed(w) \preceq l[2] \ominus b \/ SoundSpeed(w) \preceq b \ominus l[2]
  PROVE  /\ Side(l, b) \in [Vars -> Fraction] /\ InCone(Side(l, b))
         /\ SoundSpeed(w) \preceq l[2] \ominus b => Zero \prec Side(l, b)[1]
         /\ SoundSpeed(w) \preceq b \ominus l[2] => Side(l, b)[1] \prec Zero
<1> DEFINE c == SoundSpeed(w)
           h == l[5] \oslash (Gamma \ominus One)
           s == l[2] \ominus b
           m == l[1] \otimes s
           k == (SQR(l[2]) \oplus SQR(l[3])) \oplus SQR(l[4])
           E == Energy(l)
           L == Side(l, b)
<1>1. /\ l[1] \in Fraction /\ l[2] \in Fraction /\ l[3] \in Fraction /\ l[4] \in Fraction
      /\ l[5] \in Fraction /\ c \in Fraction /\ Zero \prec l[1] /\ Zero \prec l[5]
  BY SqrtAssumption DEF IsState, RootOf, Vars
<1>2. h \in Fraction /\ h \otimes (Gamma \ominus One) = l[5]
  <2>1. h \in Fraction
    BY <1>1, GammaFacts, Closed
  <2>2. h \otimes (Gamma \ominus One) = l[5]
    BY <1>1, GammaFacts, Field
  <2> QED BY <2>1, <2>2
<1> HIDE DEF c, h
<1>3. PICK d : Denominator(d, {l[1], l[2], l[3], l[4], l[5], c, h, b}
                                \cup {Gamma, b, b, b, b, b, b, b})
  <2>1. PICK d : Denominator(d, {l[1], l[2], l[3], l[4], l[5], c, h, b})
    BY <1>1, <1>2, DenominatorOf
  <2>2. PICK e : Denominator(e, {Gamma, b, b, b, b, b, b, b})
    BY GammaFacts, DenominatorOf
  <2> QED BY <2>1, <2>2, DenominatorUnion
<1>4. PICK A, U, V, W, P, a, H, B, G \in Int :
        /\ Over(l[1], A, d) /\ Over(l[2], U, d) /\ Over(l[3], V, d) /\ Over(l[4], W, d)
        /\ Over(l[5], P, d) /\ Over(c, a, d) /\ Over(h, H, d) /\ Over(b, B, d) /\ Over(Gamma, G, d)
  <2>1. /\ \E i \in Int : Over(l[1], i, d)
        /\ \E i \in Int : Over(l[2], i, d)
        /\ \E i \in Int : Over(l[3], i, d)
        /\ \E i \in Int : Over(l[4], i, d)
        /\ \E i \in Int : Over(l[5], i, d)
        /\ \E i \in Int : Over(c, i, d)
        /\ \E i \in Int : Over(h, i, d)
        /\ \E i \in Int : Over(b, i, d)
        /\ \E i \in Int : Over(Gamma, i, d)
    BY <1>3 DEF Denominator
  <2> QED BY <2>1
<1> DEFINE e == d * d
           S == U - B
           T == A * S
           K == (U * U + V * V) + W * W
           N == H * (2 * e) + A * K
<1>5. /\ d \in Pos /\ d \in Int /\ d > 0 /\ e \in Pos /\ e \in Int /\ e > 0 /\ d * e \in Pos /\ 2 * e \in Pos
      /\ Over(Zero, 0, d) /\ Over(One, d, d) /\ Over(Half, 1, 2) /\ Over(R(2, 1), 2, 1)
  <2>1. d \in Pos /\ d \in Int /\ d > 0
    BY <1>3 DEF Denominator, Pos
  <2>2. e \in Pos
    BY <2>1, PosTimes
  <2>3. e \in Int /\ e > 0 /\ d * e \in Pos /\ 2 * e \in Pos
    <3> HIDE DEF e
    <3>1. e \in Int /\ e > 0 /\ d * e \in Pos
      BY <2>1, <2>2, PosTimes DEF Pos
    <3> QED BY <3>1 DEF Pos
  <2>4. Over(Zero, 0, d) /\ Over(One, d, d) /\ Over(Half, 1, 2) /\ Over(R(2, 1), 2, 1)
    BY <2>1, OverConstants, OverR DEF Pos
  <2> QED BY <2>1, <2>2, <2>3, <2>4
<1>6. S \in Int /\ T \in Int /\ K \in Int /\ N \in Int
  <2>1. S \in Int
    OBVIOUS
  <2>2. T \in Int /\ K \in Int
    BY <2>1
  <2> HIDE DEF K, e
  <2>3. N \in Int
    BY <1>5, <2>2
  <2> QED BY <2>1, <2>2, <2>3
<1>7. A > 0 /\ P > 0
  BY <1>1, <1>4, <1>5, OverLess
<1>8. a > 0 /\ (G * P) * d <= 2 * ((A * a) * a)
  BY <1>4, SoundFacts DEF c
<1>9. H > 0 /\ H * (G - d) = P * d
  <2>1. Over(Gamma \ominus One, G - d, d) /\ Over(l[5], P * d, d * d)
    BY <1>4, <1>5, OverMinus, OverScale
  <2>2. Over(h \otimes (Gamma \ominus One), H * (G - d), d * d)
    BY <1>4, <2>1, OverTimes
  <2>3. H * (G - d) = P * d
    BY <1>2, <2>1, <2>2, OverEqual
  <2>4. G - d > 0 /\ G - d \in Int
    <3>1. One \prec Gamma
      BY StatesAssumption
    <3>2. d < G
      BY <1>4, <1>5, <3>1, OverLess
    <3> QED BY <1>5, <3>2
  <2>5. P * d > 0 /\ P * d \in Int
    BY <1>5, <1>7
  <2>6. \A i, j \in Int : j > 0 /\ i * j > 0 => i > 0
    OBVIOUS
  <2> QED BY <2>3, <2>4, <2>5, <2>6
<1>10. /\ Over(s, S, d) /\ Over(m, T, e) /\ Over(b \ominus l[2], B - U, d)
  <2>1. Over(s, S, d) /\ Over(b \ominus l[2], B - U, d)
    BY <1>4, OverMinus
  <2> HIDE DEF s, S
  <2>2. Over(m, A * S, d * d)
    BY <1>4, <2>1, OverTimes
  <2> QED BY <2>1, <2>2
<1>11. /\ c \preceq s <=> a <= S
       /\ c \preceq b \ominus l[2] <=> a <= -S
  <2>1. c \preceq s <=> a <= S
    BY <1>4, <1>10, OverLess
  <2>2. c \preceq b \ominus l[2] <=> a <= B - U
    BY <1>4, <1>10, OverLess
  <2>3. B - U = -S
    OBVIOUS
  <2> QED BY <2>1, <2>2, <2>3
<1>12. Over(E, N, d * (2 * e))
  <2>1. Over(SQR(l[2]), U * U, e) /\ Over(SQR(l[3]), V * V, e) /\ Over(SQR(l[4]), W * W, e)
    BY <1>4, OverTimes DEF SQR
  <2> HIDE DEF e
  <2>2. Over(SQR(l[2]) \oplus SQR(l[3]), U * U + V * V, e)
    BY <2>1, OverPlus
  <2>3. Over(k, K, e) /\ Over(Half \otimes l[1], 1 * A, 2 * d)
    BY <1>4, <1>5, <2>1, <2>2, OverPlus, OverTimes
  <2> HIDE DEF k, K
  <2>4. Over((Half \otimes l[1]) \otimes k, (1 * A) * K, (2 * d) * e)
    BY <2>3, OverTimes
  <2>5. (1 * A) * K = A * K /\ (2 * d) * e = d * (2 * e)
    BY <1>5, <1>6
  <2>6. Over(h, H * (2 * e), d * (2 * e))
    BY <1>4, <1>5, OverScale
  <2>7. E = h \oplus ((Half \otimes l[1]) \otimes k)
    BY DEF Energy, h, k
  <2> HIDE DEF E
  <2> QED BY <2>4, <2>5, <2>6, <2>7, OverPlus
<1> DEFINE n1 == T * (2 * (d * e))
           n2 == U * T + P * e
           n3 == V * T
           n4 == W * T
           n5 == N * S + (P * U) * (2 * e)
           D == d * e
<1>13. /\ L[1] = m /\ L[2] = (l[2] \otimes m) \oplus l[5]
       /\ L[3] = l[3] \otimes m /\ L[4] = l[4] \otimes m
       /\ L[5] = (E \otimes s) \oplus (l[5] \otimes l[2]) /\ L = <<L[1], L[2], L[3], L[4], L[5]>>
  BY DEF Side
<1> HIDE DEF L, E, m, s, N, K, T, S
<1>14. Over(L[2], n2, D) /\ Over(L[3], n3, D) /\ Over(L[4], n4, D)
  <2>1. Over(l[2] \otimes m, U * T, d * e) /\ Over(l[3] \otimes m, V * T, d * e) /\ Over(l[4] \otimes m, W * T, d * e)
    BY <1>4, <1>10, OverTimes
  <2>2. Over(l[5], P * e, d * e)
    BY <1>4, <1>5, OverScale
  <2> QED BY <1>13, <2>1, <2>2, OverPlus
<1>15. Over(L[5], n5, e * (2 * e))
  <2>1. Over(E \otimes s, N * S, (d * (2 * e)) * d) /\ Over(l[5] \otimes l[2], P * U, e)
    BY <1>4, <1>10, <1>12, OverTimes
  <2> HIDE DEF n5
  <2>2. (d * (2 * e)) * d = e * (2 * e)
    BY <1>5
  <2> HIDE DEF e
  <2>3. Over(l[5] \otimes l[2], (P * U) * (2 * e), e * (2 * e))
    BY <1>5, <2>1, OverScale
  <2>4. Over(E \otimes s, N * S, e * (2 * e))
    BY <2>1, <2>2
  <2> QED BY <1>13, <2>3, <2>4, OverPlus DEF n5
<1> HIDE DEF e, n2, n3, n4, n5, D
<1>16. L \in [Vars -> Fraction]
  <2>1. L[1] \in Fraction /\ L[2] \in Fraction /\ L[3] \in Fraction /\ L[4] \in Fraction /\ L[5] \in Fraction
    BY <1>10, <1>13, <1>14, <1>15 DEF Over
  <2>2. L = [i \in Vars |-> L[i]]
    BY <1>13 DEF Vars
  <2>3. \A i \in Vars : L[i] \in Fraction
    BY <2>1 DEF Vars
  <2> QED BY <2>2, <2>3
<1>17. InCone(L)
  <2> DEFINE Q == (n2 * n2 + n3 * n3) + n4 * n4
  <2>1. Over(SQR(L[2]), n2 * n2, D * D) /\ Over(SQR(L[3]), n3 * n3, D * D) /\ Over(SQR(L[4]), n4 * n4, D * D)
    BY <1>14, OverTimes DEF SQR
  <2>2. Over(SQR(L[2]) \oplus SQR(L[3]), n2 * n2 + n3 * n3, D * D)
    BY <2>1, OverPlus
  <2>3. Over((SQR(L[2]) \oplus SQR(L[3])) \oplus SQR(L[4]), Q, D * D)
    BY <2>1, <2>2, OverPlus
  <2>4. Over(R(2, 1) \otimes L[1], 2 * T, 1 * e)
    BY <1>5, <1>10, <1>13, OverTimes
  <2>5. Over((R(2, 1) \otimes L[1]) \otimes L[5], (2 * T) * n5, (1 * e) * (e * (2 * e)))
    BY <1>15, <2>4, OverTimes
  <2>6. (1 * e) * (e * (2 * e)) = (D * D) * 2 /\ D * D \in Int
    <3>1. D * D = (e * e) * e /\ D * D \in Int
      BY <1>5 DEF D, e
    <3>2. (1 * e) * (e * (2 * e)) = ((e * e) * e) * 2
      BY <1>5
    <3> QED BY <3>1, <3>2
  <2> HIDE DEF Q
  <2>7. Over((SQR(L[2]) \oplus SQR(L[3])) \oplus SQR(L[4]), 2 * Q, 2 * (D * D))
    <3>1. 2 \in Pos
      BY DEF Pos
    <3> QED BY <2>3, <3>1, OverScale
  <2>8. 2 * (D * D) = (D * D) * 2
    BY <2>6
  <2>9. 2 * Q < (2 * T) * n5
    <3>1. (P * P) * e < (2 * ((A * S) * S)) * H
      <4>1. S >= a \/ -S >= a
        <5>1. a <= S \/ a <= -S
          BY <1>11 DEF s, c
        <5> QED BY <1>6, <5>1
      <4> QED BY <1>5, <1>6, <1>7, <1>8, <1>9, <4>1, Supersonic DEF e
    <3> QED BY <1>5, <1>6, <3>1, SideSquares DEF Q, n2, n3, n4, n5, N, K, T
  <2> QED BY <2>5, <2>6, <2>7, <2>8, <2>9, OverLess DEF InCone
<1>18. /\ a <= S => T > 0
       /\ a <= -S => T < 0
  <2>1. \A i, j \in Int : (i > 0 /\ j > 0 => i * j > 0) /\ (i > 0 /\ j < 0 => i * j < 0)
    OBVIOUS
  <2>2. (a <= S => S > 0) /\ (a <= -S => S < 0)
    BY <1>6, <1>8
  <2> QED BY <1>6, <1>7, <2>1, <2>2 DEF T
<1>19. (Zero \prec L[1] <=> 0 < T) /\ (L[1] \prec Zero <=> T < 0)
  <2>1. Over(Zero, 0, e)
    BY <1>5, OverConstants
  <2> QED BY <1>10, <1>13, <2>1, OverLess
<1> QED BY <1>11, <1>16, <1>17, <1>18, <1>19 DEF L, s, c

\* Two in the cone, one of positive and one of negative mass: so is their difference.
LEMMA ConeDifference ==
  ASSUME NEW L \in [Vars -> Fraction], NEW M \in [Vars -> Fraction], NEW Z \in [Vars -> Fraction],
         InCone(L), InCone(M), Zero \prec L[1], M[1] \prec Zero,
         \A k \in Vars : Z[k] = L[k] \ominus M[k]
  PROVE  Zero \prec Z[1] /\ InCone(Z)
<1>1. /\ L[1] \in Fraction /\ L[2] \in Fraction /\ L[3] \in Fraction /\ L[4] \in Fraction /\ L[5] \in Fraction
      /\ M[1] \in Fraction /\ M[2] \in Fraction /\ M[3] \in Fraction /\ M[4] \in Fraction /\ M[5] \in Fraction
  BY DEF Vars
<1>2. PICK d : Denominator(d, {L[1], L[2], L[3], L[4], L[5], M[1], M[2], M[3]}
                                \cup {M[4], M[5], M[5], M[5], M[5], M[5], M[5], M[5]})
  <2>1. PICK d : Denominator(d, {L[1], L[2], L[3], L[4], L[5], M[1], M[2], M[3]})
    BY <1>1, DenominatorOf
  <2>2. PICK e : Denominator(e, {M[4], M[5], M[5], M[5], M[5], M[5], M[5], M[5]})
    BY <1>1, DenominatorOf
  <2> QED BY <2>1, <2>2, DenominatorUnion
<1>3. PICK l1, l2, l3, l4, l5 \in Int :
        Over(L[1], l1, d) /\ Over(L[2], l2, d) /\ Over(L[3], l3, d) /\ Over(L[4], l4, d) /\ Over(L[5], l5, d)
  BY <1>2 DEF Denominator
<1>4. PICK m1, m2, m3, m4, m5 \in Int :
        Over(M[1], m1, d) /\ Over(M[2], m2, d) /\ Over(M[3], m3, d) /\ Over(M[4], m4, d) /\ Over(M[5], m5, d)
  BY <1>2 DEF Denominator
<1>5. d \in Pos /\ d \in Int /\ d > 0 /\ Over(Zero, 0, d) /\ Over(R(2, 1), 2, 1)
  BY <1>2, OverConstants, OverR DEF Denominator, Pos
<1>6. l1 > 0 /\ m1 < 0
  BY <1>3, <1>4, <1>5, OverLess
<1>7. ASSUME NEW X \in [Vars -> Fraction], NEW i1 \in Int, NEW i2 \in Int, NEW i3 \in Int, NEW i4 \in Int, NEW i5 \in Int,
             Over(X[1], i1, d), Over(X[2], i2, d), Over(X[3], i3, d), Over(X[4], i4, d), Over(X[5], i5, d)
      PROVE  InCone(X) <=> (i2 * i2 + i3 * i3) + i4 * i4 < (2 * i1) * i5
  <2>1. Over(SQR(X[2]), i2 * i2, d * d) /\ Over(SQR(X[3]), i3 * i3, d * d) /\ Over(SQR(X[4]), i4 * i4, d * d)
    BY <1>7, OverTimes DEF SQR
  <2>2. Over(SQR(X[2]) \oplus SQR(X[3]), i2 * i2 + i3 * i3, d * d)
    BY <2>1, OverPlus
  <2>3. Over((SQR(X[2]) \oplus SQR(X[3])) \oplus SQR(X[4]), (i2 * i2 + i3 * i3) + i4 * i4, d * d)
    BY <2>1, <2>2, OverPlus
  <2>4. Over(R(2, 1) \otimes X[1], 2 * i1, 1 * d)
    BY <1>5, <1>7, OverTimes
  <2>5. 1 * d = d
    BY <1>5
  <2>6. Over((R(2, 1) \otimes X[1]) \otimes X[5], (2 * i1) * i5, d * d)
    BY <1>7, <2>4, <2>5, OverTimes
  <2> QED BY <2>3, <2>6, OverLess DEF InCone
<1>8. /\ Over(Z[1], l1 - m1, d) /\ Over(Z[2], l2 - m2, d) /\ Over(Z[3], l3 - m3, d)
      /\ Over(Z[4], l4 - m4, d) /\ Over(Z[5], l5 - m5, d)
  <2>1. /\ Z[1] = L[1] \ominus M[1] /\ Z[2] = L[2] \ominus M[2] /\ Z[3] = L[3] \ominus M[3]
        /\ Z[4] = L[4] \ominus M[4] /\ Z[5] = L[5] \ominus M[5]
    BY DEF Vars
  <2>2. /\ Over(L[1] \ominus M[1], l1 - m1, d) /\ Over(L[2] \ominus M[2], l2 - m2, d)
        /\ Over(L[3] \ominus M[3], l3 - m3, d) /\ Over(L[4] \ominus M[4], l4 - m4, d)
        /\ Over(L[5] \ominus M[5], l5 - m5, d)
    BY <1>3, <1>4, OverMinus
  <2> QED BY <2>1, <2>2
<1>9. Zero \prec Z[1]
  <2>1. 0 < l1 - m1
    BY <1>6
  <2> QED BY <1>5, <1>8, <2>1, OverLess
<1>10. /\ (l2 * l2 + l3 * l3) + l4 * l4 < (2 * l1) * l5
       /\ (m2 * m2 + m3 * m3) + m4 * m4 < (2 * m1) * m5
  BY <1>3, <1>4, <1>7
<1> DEFINE n1 == -m1  n2 == -m2  n3 == -m3  n4 == -m4  n5 == -m5
<1>11. (n2 * n2 + n3 * n3) + n4 * n4 < (2 * n1) * n5
  <2>1. n2 * n2 = m2 * m2 /\ n3 * n3 = m3 * m3 /\ n4 * n4 = m4 * m4 /\ (2 * n1) * n5 = (2 * m1) * m5
    OBVIOUS
  <2> QED BY <1>10, <2>1
<1>12. /\ n1 \in Int /\ n2 \in Int /\ n3 \in Int /\ n4 \in Int /\ n5 \in Int /\ n1 > 0
       /\ l1 + n1 = l1 - m1 /\ l2 + n2 = l2 - m2 /\ l3 + n3 = l3 - m3 /\ l4 + n4 = l4 - m4 /\ l5 + n5 = l5 - m5
  BY <1>6
<1> HIDE DEF n1, n2, n3, n4, n5
<1>13. ((l2 + n2) * (l2 + n2) + (l3 + n3) * (l3 + n3)) + (l4 + n4) * (l4 + n4) < (2 * (l1 + n1)) * (l5 + n5)
  BY <1>6, <1>10, <1>11, <1>12, ConeSums
<1>14. InCone(Z)
  <2>1. /\ Over(Z[1], l1 + n1, d) /\ Over(Z[2], l2 + n2, d) /\ Over(Z[3], l3 + n3, d)
        /\ Over(Z[4], l4 + n4, d) /\ Over(Z[5], l5 + n5, d)
    BY <1>8, <1>12
  <2>2. l1 + n1 \in Int /\ l2 + n2 \in Int /\ l3 + n3 \in Int /\ l4 + n4 \in Int /\ l5 + n5 \in Int
    BY <1>12
  <2> QED BY <1>7, <1>13, <2>1, <2>2
<1> QED BY <1>9, <1>14

\* The state between the waves, of which the solver keeps only the flux, in the
\* terms of its two sides.
LEMMA BetweenPart ==
  ASSUME NEW f \in Fraction, NEW g \in Fraction, NEW u \in Fraction, NEW v \in Fraction,
         NEW p \in Fraction, NEW m \in Fraction
  PROVE  (((p \otimes v) \ominus (m \otimes u)) \oplus f) \oplus Minus(g)
           = (f \ominus (m \otimes u)) \ominus (g \ominus (p \otimes v))
<1> DEFINE a == p \otimes v
           b == m \otimes u
<1>1. a \in Fraction /\ b \in Fraction
  BY Closed
<1> HIDE DEF a, b
<1>2. PICK d : Denominator(d, {a, b, f, g, g, g, g, g})
  BY <1>1, DenominatorOf
<1>3. PICK i, j, k, l \in Int : Over(a, i, d) /\ Over(b, j, d) /\ Over(f, k, d) /\ Over(g, l, d)
  BY <1>2 DEF Denominator
<1>4. Over(Zero, 0, d)
  BY <1>2, OverConstants DEF Denominator
<1>5. Over(a \ominus b, i - j, d) /\ Over(Minus(g), 0 - l, d) /\ Over(f \ominus b, k - j, d) /\ Over(g \ominus a, l - i, d)
  BY <1>3, <1>4, OverMinus DEF Minus
<1>6. Over((a \ominus b) \oplus f, (i - j) + k, d) /\ Over((f \ominus b) \ominus (g \ominus a), (k - j) - (l - i), d)
  BY <1>3, <1>5, OverPlus, OverMinus
<1>7. Over(((a \ominus b) \oplus f) \oplus Minus(g), ((i - j) + k) + (0 - l), d)
  BY <1>5, <1>6, OverPlus
<1>8. ((i - j) + k) + (0 - l) = (k - j) - (l - i)
  OBVIOUS
<1> QED BY <1>6, <1>7, <1>8, OverEqual DEF a, b

\* Conservation between the waves of every face gives them a state of positive
\* density and positive pressure.
THEOREM PositiveBetween == Spec => []StateBetweenWaves
<1>1. IInv => StateBetweenWaves
  <2> SUFFICES ASSUME IInv, hlle # None PROVE StateBetweenWaves
    BY DEF StateBetweenWaves
  <2> DEFINE m == hlle.bm
             p == hlle.bp
             x == ivx
             l == Along(x, wl)
             r == Along(x, wr)
             L == Side(l, m)
             M == Side(r, p)
             Z == [k \in Vars |-> L[k] \ominus M[k]]
             Y(n) == ((p \otimes Conserved(wr)[n]) \ominus (m \otimes Conserved(wl)[n]))
                       \oplus EulerFlux(x, wl)[n] \oplus Minus(EulerFlux(x, wr)[n])
  <2>1. /\ x \in Dirs /\ IsState(wl) /\ IsState(wr) /\ wl \in FaceStates /\ wr \in FaceStates
        /\ m \in Fraction /\ p \in Fraction
        /\ SoundSpeed(wl) \preceq wl[x + 1] \ominus m /\ SoundSpeed(wr) \preceq p \ominus wr[x + 1]
    BY SolvedFacts, SolverFacts
  <2> HIDE DEF m, p, x
  <2>2. /\ l[1] = wl[1] /\ l[5] = wl[5] /\ l[2] = wl[x + 1] /\ IsState(l)
        /\ r[1] = wr[1] /\ r[5] = wr[5] /\ r[2] = wr[x + 1] /\ IsState(r)
    BY <2>1, AlongFacts DEF IsState
  <2> HIDE DEF l, r
  <2>3. /\ L \in [Vars -> Fraction] /\ InCone(L) /\ Zero \prec L[1]
        /\ M \in [Vars -> Fraction] /\ InCone(M) /\ M[1] \prec Zero
    BY <2>1, <2>2, SideCone
  <2>4. ASSUME NEW n \in Vars PROVE Place(x, n) \in Vars /\ Y(n) = Z[Place(x, n)]
    <3> DEFINE f == EulerFlux(x, wl)[n]
               g == EulerFlux(x, wr)[n]
               u == Conserved(wl)[n]
               v == Conserved(wr)[n]
    <3>1. /\ f \in Fraction /\ u \in Fraction /\ L[Place(x, n)] = f \ominus (m \otimes u)
          /\ g \in Fraction /\ v \in Fraction /\ M[Place(x, n)] = g \ominus (p \otimes v)
          /\ Place(x, n) \in Vars
      BY <2>1, SideFacts, PlaceFacts DEF IsState, l, r
    <3> HIDE DEF f, g, u, v, L, M
    <3>2. (((p \otimes v) \ominus (m \otimes u)) \oplus f) \oplus Minus(g)
            = (f \ominus (m \otimes u)) \ominus (g \ominus (p \otimes v))
      BY <2>1, <3>1, BetweenPart
    <3> QED BY <3>1, <3>2 DEF f, g, u, v
  <2> HIDE DEF L, M, Y
  <2>5. Z \in [Vars -> Fraction] /\ \A k \in Vars : Z[k] = L[k] \ominus M[k]
    BY <2>3, Closed
  <2> HIDE DEF Z
  <2>6. Zero \prec Z[1] /\ InCone(Z)
    BY <2>3, <2>5, ConeDifference
  <2>7. Y(1) = Z[1] /\ Y(5) = Z[5]
    BY <2>1, <2>4, PlaceFacts DEF Vars
  <2>8. (SQR(Y(2)) \oplus SQR(Y(3))) \oplus SQR(Y(4)) = (SQR(Z[2]) \oplus SQR(Z[3])) \oplus SQR(Z[4])
    <3>1. /\ Y(2) = Z[Place(x, 2)] /\ Y(3) = Z[Place(x, 3)] /\ Y(4) = Z[Place(x, 4)]
          /\ Place(x, 2) \in 2 .. 4 /\ Order(x)[Place(x, 2) - 1] = 1
          /\ Place(x, 3) \in 2 .. 4 /\ Order(x)[Place(x, 3) - 1] = 2
          /\ Place(x, 4) \in 2 .. 4 /\ Order(x)[Place(x, 4) - 1] = 3
      BY <2>1, <2>4, PlaceFacts DEF Vars
    <3>2. SQR(Z[2]) \in Fraction /\ SQR(Z[3]) \in Fraction /\ SQR(Z[4]) \in Fraction
      BY <2>5, Closed DEF Vars
    <3>3. CASE x = 1
      <4>1. Place(x, 2) = 2 /\ Place(x, 3) = 3 /\ Place(x, 4) = 4
        BY <3>1, <3>3, Orders
      <4> QED BY <3>1, <4>1
    <3>4. CASE x = 2
      <4>1. Place(x, 2) = 4 /\ Place(x, 3) = 2 /\ Place(x, 4) = 3
        BY <3>1, <3>4, Orders
      <4> QED BY <3>1, <3>2, <4>1, Turned
    <3>5. CASE x = 3
      <4>1. Place(x, 2) = 3 /\ Place(x, 3) = 4 /\ Place(x, 4) = 2
        BY <3>1, <3>5, Orders
      <4> QED BY <3>1, <3>2, <4>1, Turned
    <3> QED BY <2>1, <3>3, <3>4, <3>5 DEF Dirs
  <2>9. Zero \prec Y(1) /\ (SQR(Y(2)) \oplus SQR(Y(3))) \oplus SQR(Y(4)) \prec (R(2, 1) \otimes Y(1)) \otimes Y(5)
    BY <2>6, <2>7, <2>8 DEF InCone
  <2> QED BY <2>9 DEF StateBetweenWaves, Y, m, p, x
<1> QED BY <1>1, Inductive, PTL
=============================================================================
