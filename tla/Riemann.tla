------------------------------ MODULE Riemann ------------------------------
(***************************************************************************)
(* The arithmetic of one face: PLM gives the states on its two sides, HLLE *)
(* the flux, in exact arithmetic over any square root that is positive.    *)
(***************************************************************************)
EXTENDS Rationals

CONSTANTS
  States,          \* primitive variables a cell may have: IDN, IV1, IV2, IV3, IPR
  Gamma, Sqrt(_),
  None

Vars == 1 .. 5     \* the code's indices, from one
Dirs == 1 .. 3

ASSUME StatesAssumption ==
  /\ \A w \in States : w \in [Vars -> Fraction] /\ Zero \prec w[1] /\ Zero \prec w[5]
  /\ Gamma \in Fraction /\ One \prec Gamma

VARIABLES
  q,        \* the four cells about the face
  ivx,      \* the direction of the sweep
  wl, wr,   \* the states on the two sides
  hlle      \* the flux, with the speeds it was made from

vars == <<q, ivx, wl, wr, hlle>>

-----------------------------------------------------------------------------
\* The slopes averaged, without a limiter.
PLMUnlimited(q_im1, q_i, q_ip1) ==
  LET dqm == (q_ip1 \ominus q_im1) \oslash R(4, 1)
  IN [ql_ip1 |-> q_i \oplus dqm, qr_i |-> q_i \ominus dqm]

PLM(q_im1, q_i, q_ip1) ==
  LET dql == q_i \ominus q_im1
      dqr == q_ip1 \ominus q_i
      dq2 == dql \otimes dqr
      dqm == IF Zero \prec dq2 THEN dq2 \oslash (dql \oplus dqr) ELSE Zero
  IN [ql_ip1 |-> q_i \oplus dqm, qr_i |-> q_i \ominus dqm]

SoundSpeed(w) == Sqrt((Gamma \otimes w[5]) \oslash w[1])

\* The states a face may have, and what is asked of a root of s: that its square
\* is within a factor of two of s and no less than s / Gamma.  An exact root is.
FaceStates ==
  LET S(a, b, c) == [n \in Vars |-> PLM(a[n], b[n], c[n])]
      L(a, b, c) == [n \in Vars |-> S(a, b, c)[n].ql_ip1]
      H(a, b, c) == [n \in Vars |-> S(a, b, c)[n].qr_i]
  IN {L(a, b, c) : a, b, c \in States} \cup {H(a, b, c) : a, b, c \in States}

RootOf(r, s) ==
  /\ r \in Fraction /\ Zero \prec r
  /\ s \preceq R(2, 1) \otimes SQR(r) /\ s \preceq Gamma \otimes SQR(r) /\ SQR(r) \preceq R(2, 1) \otimes s

ASSUME SqrtAssumption ==
  /\ RootOf(Sqrt(R(2, 1) \otimes Gamma), R(2, 1) \otimes Gamma)
  /\ \A w \in FaceStates : RootOf(SoundSpeed(w), (Gamma \otimes w[5]) \oslash w[1])

\* w with its velocities in the order of a sweep along x; the code's ivy and ivz.
Order(x) == <<x, (x % 3) + 1, ((x + 1) % 3) + 1>>
Along(x, w) == [n \in Vars |-> IF n \in 2 .. 4 THEN w[Order(x)[n - 1] + 1] ELSE w[n]]
Back(x, f) == [n \in Vars |-> IF n \in 2 .. 4 THEN f[CHOOSE m \in 2 .. 4 : Order(x)[m - 1] = n - 1] ELSE f[n]]

Energy(w) ==
  (w[5] \oslash (Gamma \ominus One))
    \oplus (Half \otimes w[1] \otimes (SQR(w[2]) \oplus SQR(w[3]) \oplus SQR(w[4])))

\* Step 2: the pressure between the waves, from the primitive variables.
PMid(l, r, ca) ==
  Half \otimes (l[5] \oplus r[5]
                  \oplus ((l[2] \ominus r[2]) \otimes (Half \otimes (l[1] \oplus r[1])) \otimes ca))

\* The comparison the other way round: slower than sound into a rarefaction.
FasterReversed(pmid, w) ==
  IF w[5] \preceq pmid THEN One
  ELSE One \oplus (((Gamma \oplus One) \oslash Sqrt(R(2, 1) \otimes Gamma))
                     \otimes ((pmid \oslash w[5]) \ominus One))

\* Step 3: how much faster than sound a shock into the side w is.
Faster(pmid, w) ==
  IF pmid \preceq w[5] THEN One
  ELSE One \oplus (((Gamma \oplus One) \oslash Sqrt(R(2, 1) \otimes Gamma))
                     \otimes ((pmid \oslash w[5]) \ominus One))

\* Step 5: the flux less b times the state, of one side.
Side(w, b) ==
  LET vx == w[2] \ominus b
      m == w[1] \otimes vx
  IN <<m, (w[2] \otimes m) \oplus w[5], w[3] \otimes m, w[4] \otimes m,
       (Energy(w) \otimes vx) \oplus (w[5] \otimes w[2])>>

\* Step 6 with the difference taken the other way.
CombineSwapped(fl, fr, bm, bp) ==
  LET tmp == IF bp # bm THEN (Half \otimes (bp \oplus bm)) \oslash (bp \ominus bm) ELSE Zero
  IN [n \in Vars |-> (Half \otimes (fl[n] \oplus fr[n])) \oplus ((fr[n] \ominus fl[n]) \otimes tmp)]

Combine(fl, fr, bm, bp) ==
  LET tmp == IF bp # bm THEN (Half \otimes (bp \oplus bm)) \oslash (bp \ominus bm) ELSE Zero
  IN [n \in Vars |-> (Half \otimes (fl[n] \oplus fr[n])) \oplus ((fl[n] \ominus fr[n]) \otimes tmp)]

\* The flux of a sweep along x between l and r, with bm and bp.
RiemannSolver(x, l0, r0) ==
  LET l == Along(x, l0)
      r == Along(x, r0)
      cl == SoundSpeed(l)
      cr == SoundSpeed(r)
      pmid == PMid(l, r, Half \otimes (cl \oplus cr))
      al == l[2] \ominus (cl \otimes Faster(pmid, l))
      ar == r[2] \oplus (cr \otimes Faster(pmid, r))
      bp == IF Zero \prec ar THEN ar ELSE Zero
      bm == IF al \prec Zero THEN al ELSE Zero
  IN [flux |-> Back(x, Combine(Side(l, bm), Side(r, bp), bm, bp)), bm |-> bm, bp |-> bp]

-----------------------------------------------------------------------------
Init ==
  /\ q \in [1 .. 4 -> States] /\ ivx \in Dirs
  /\ wl = None /\ wr = None /\ hlle = None

\* Cell 2 writes the left state of the face and cell 3 the right one.
Reconstruct ==
  /\ wl = None
  /\ wl' = [n \in Vars |-> PLM(q[1][n], q[2][n], q[3][n]).ql_ip1]
  /\ wr' = [n \in Vars |-> PLM(q[2][n], q[3][n], q[4][n]).qr_i]
  /\ UNCHANGED <<q, ivx, hlle>>

Solve ==
  /\ wl # None /\ hlle = None
  /\ hlle' = RiemannSolver(ivx, wl, wr)
  /\ UNCHANGED <<q, ivx, wl, wr>>

Next == Reconstruct \/ Solve

Spec == Init /\ [][Next]_vars

-----------------------------------------------------------------------------
Between(a, x, b) == (a \preceq x /\ x \preceq b) \/ (b \preceq x /\ x \preceq a)

\* A state at a face lies between the cells on its two sides, variable by
\* variable: PLM makes no new extremum, and no density or pressure below zero.
NoNewExtrema ==
  wl # None => \A n \in Vars :
    Between(q[2][n], wl[n], q[3][n]) /\ Between(q[2][n], wr[n], q[3][n])

\* The Euler fluxes and the conserved variables of a state, along x.
EulerFlux(x, w) ==
  LET m == w[1] \otimes w[x + 1] IN
  [n \in Vars |->
     CASE n = 1 -> m
       [] n = 5 -> (Energy(w) \oplus w[5]) \otimes w[x + 1]
       [] OTHER -> (m \otimes w[n]) \oplus (IF n = x + 1 THEN w[5] ELSE Zero)]
Conserved(w) ==
  [n \in Vars |-> CASE n = 1 -> w[1] [] n = 5 -> Energy(w) [] OTHER -> w[1] \otimes w[n]]

\* The flux is the one of Harten, Lax and van Leer,
\*   (bp F(wl) - bm F(wr) + bp bm (U(wr) - U(wl))) / (bp - bm),
\* in whatever direction the sweep goes: upwind if both waves go one way, the
\* Euler flux itself between equal states.  The waves never coincide, however
\* hard the two sides collide or part: the quotient is never taken of zero.
HLLFlux ==
  hlle # None =>
    /\ hlle.bm \preceq Zero /\ Zero \preceq hlle.bp /\ hlle.bm \prec hlle.bp
    /\ \A n \in Vars : hlle.flux[n] \otimes (hlle.bp \ominus hlle.bm)
      = (hlle.bp \otimes EulerFlux(ivx, wl)[n])
          \oplus Minus(hlle.bm \otimes EulerFlux(ivx, wr)[n])
          \oplus (hlle.bp \otimes hlle.bm \otimes (Conserved(wr)[n] \ominus Conserved(wl)[n]))

\* Conservation between the waves gives them a state with a positive density and
\* a positive pressure: they are fast enough.
StateBetweenWaves ==
  hlle # None =>
    LET U(n) == ((hlle.bp \otimes Conserved(wr)[n]) \ominus (hlle.bm \otimes Conserved(wl)[n]))
                  \oplus EulerFlux(ivx, wl)[n] \oplus Minus(EulerFlux(ivx, wr)[n])
        kinetic == SQR(U(2)) \oplus SQR(U(3)) \oplus SQR(U(4))
    IN /\ Zero \prec U(1)
       /\ kinetic \prec (R(2, 1) \otimes U(1) \otimes U(5))
=============================================================================
