----------------------------- MODULE MCProblems -----------------------------
(***************************************************************************)
(* Problems over cell centers on, beside and away from every interface and *)
(* meshes of up to eight cells, with a piecewise linear tanh, a sine that  *)
(* misses its own antisymmetry, logarithms to the base two, Pythagorean    *)
(* angles and, for the wave, any periodic function.                        *)
(***************************************************************************)
EXTENDS Problems

MCSqrt(s) == CHOOSE r \in {R(n, 4) : n \in 0 .. 40} : SQR(r) = s

MCTanh(t) == IF One \prec t THEN One ELSE IF t \prec Minus(One) THEN Minus(One) ELSE t

\* sin(2 pi t) at multiples of an eighth, each wrong in its own way.
MCSin(t) ==
  LET n == ((8 * t[1]) \div t[2]) % 8
  IN CASE n = 0 -> Zero
       [] n = 1 -> R(3, 4) [] n = 2 -> One
       [] n = 3 -> IF t \prec Zero THEN Half ELSE R(3, 4)
       [] n = 4 -> R(-1, 4) [] n = 5 -> R(-3, 4)
       [] n = 6 -> R(-1, 1) [] n = 7 -> R(-1, 2)
MCExp(s) == IF s = Zero THEN One ELSE IF s \preceq One THEN Half ELSE Quarter
MCLog(s) == R(CHOOSE n \in -8 .. 8 : (IF n < 0 THEN R(1, 2^(-n)) ELSE R(2^n, 1)) = s, 1)

MCXs == {R(n, 8) : n \in -3 .. 4}
MCYs == UNION {{y, Minus(y)} : y \in {Zero, R(1, 100), Quarter, R(1, 5), R(21, 80), Half, R(21, 40),
                                      R(101, 200), R(3, 4)}}
\* Centers whose distance is a whole number of quarters.
MCOffsets == {o \in {<<R(3 * a, 4), R(b, 1), Zero>> : a \in -1 .. 2, b \in 0 .. 2} :
                \E n \in 0 .. 40 : SQR(R(n, 4)) = SQR(o[1]) \oplus SQR(o[2])}
MCDraws == {R(-1, 2), Quarter}

Shear ==
  [iprob |-> 1, gamma |-> R(7, 5), vflow |-> One, amp |-> Quarter, problem_amp |-> Half,
   drat |-> R(2, 1), drho_rho0 |-> Zero, vboost |-> Zero, a |-> R(1, 20), sigma |-> R(1, 5)]
MCKHDecks ==
  {[Shear EXCEPT !.iprob = n] : n \in 1 .. 5}
    \cup {[Shear EXCEPT !.drat = Half], [Shear EXCEPT !.iprob = 5, !.drat = Half]}
    \cup {[Shear EXCEPT !.iprob = 4, !.drho_rho0 = One, !.vboost = Half]}

Sphere(outer, inner) ==
  [gamma |-> R(5, 3), radius_outer |-> outer, radius_inner |-> inner,
   pamb |-> One, damb |-> One, prat |-> R(8, 1), drat |-> R(2, 1)]
\* inputs/blast.in (no inner radius), the default, and a ramp part of the way.
MCBlastDecks == {Sphere(R(5, 4), Zero), Sphere(R(5, 4), None), Sphere(R(5, 4), Half)}

Angle(s, c, r) == [sin |-> R(s, r), cos |-> R(c, r)]
Flat == Angle(0, 1, 1)
Tilts == {Flat, Angle(3, 4, 5), Angle(4, 3, 5), Angle(5, 12, 13)}
MCAtan(t) == CHOOSE a \in Tilts : a.sin = t \otimes a.cos
MCSine(t) ==
  LET f == R(t[1] % t[2], t[2]) IN
  IF f \preceq Quarter THEN R(4, 1) \otimes f
  ELSE IF f \preceq R(3, 4) THEN R(2, 1) \ominus (R(4, 1) \otimes f)
  ELSE (R(4, 1) \otimes f) \ominus R(4, 1)
MCRankOf(c, n) == (2 * c) \div n
\* One of two variables in up to two cells.
MCDrifts(d) ==
  LET C == 0 .. CellCount(d) - 1 IN
  {[c \in C |-> [n \in Vars |-> IF n = m /\ c = c1 THEN d1 ELSE IF n = m /\ c = c2 THEN d2 ELSE Zero]] :
     c1, c2 \in C, d1, d2 \in {Zero, R(1, 8), NaN}, m \in {1, 4}}

Wave ==
  [gamma |-> R(5, 3), amp |-> Half, vflow |-> One, wave_flag |-> 0,
   size |-> <<R(3, 1), R(4, 1), R(16, 5)>>, nx |-> <<2, 2, 2>>,
   ang_2 |-> None, ang_3 |-> None, ang_2_vert |-> FALSE, ang_3_vert |-> FALSE]
\* Along the diagonal, in every family; in a plane; along each axis; tilted.
Diagonal ==
  {[Wave EXCEPT !.wave_flag = f] : f \in 0 .. 4}
    \cup {[Wave EXCEPT !.vflow = Zero], [Wave EXCEPT !.vflow = R(-2, 1), !.gamma = R(2, 1)]}
Plane == [Wave EXCEPT !.nx = <<4, 2, 1>>, !.ang_2 = Flat]
AlongAxes ==
  {[Wave EXCEPT !.nx = <<8, 1, 1>>, !.ang_2 = Flat, !.ang_3 = Flat],
   [Wave EXCEPT !.nx = <<2, 4, 1>>, !.ang_2 = Flat, !.ang_3_vert = TRUE],
   [Wave EXCEPT !.size = <<R(3, 1), R(4, 1), R(8, 3)>>, !.nx = <<1, 4, 2>>, !.ang_3_vert = TRUE],
   [Wave EXCEPT !.ang_2_vert = TRUE, !.wave_flag = 2]}
Tilted ==
  {[Wave EXCEPT !.ang_2 = Angle(4, 3, 5), !.ang_3 = Angle(5, 12, 13), !.wave_flag = f] : f \in {2, 4}}
MCWaveDecks == Diagonal \cup {Plane} \cup AlongAxes \cup Tilted
=============================================================================
