----------------------------- MODULE LinearWave -----------------------------
(***************************************************************************)
(* The numbers of the linear wave problem, in exact arithmetic: the wave   *)
(* vector from the angles of the deck, the wavelength, the eigenvectors of *)
(* the background, the data of the generator, and the errors the ranks     *)
(* collect after the loop.  Angles are pairs of a sine and a cosine.       *)
(***************************************************************************)
EXTENDS Pgen, FiniteSets

CONSTANTS
  WaveDecks,     \* blocks problem/linear_wave, hydro and parthenon/mesh of the decks
  Atan(_),       \* the angle of a tangent
  Sine(_),       \* of a number of turns
  Ranks,
  RankOf(_, _),  \* the rank that has a cell, of so many
  Drifts(_),     \* what the cycles may do to the data of a deck, NaNs included
  NaN

Dirs == 1 .. 3
Vars == 1 .. 5   \* IDN, IM1, IM2, IM3, IEN, from one

VARIABLES
  pc,
  wave,           \* the globals InitUserMeshData sets
  todo,           \* cells not yet compared
  from,           \* by rank, the ranks whose errors it has: none when it handed them on
  l1_err, max_err,\* by rank and variable
  row             \* the row of the errors file

-----------------------------------------------------------------------------
Min2(a, b) == IF b \prec a THEN b ELSE a
Vertical == [sin |-> One, cos |-> Zero]

Slope3(d) == d.size[1] \oslash d.size[2]
Angle3(d) ==
  IF d.ang_3_vert THEN Vertical ELSE IF d.ang_3 = None THEN Atan(Slope3(d)) ELSE d.ang_3

Slope2(d) ==
  (Half \otimes ((d.size[1] \otimes Angle3(d).cos) \oplus (d.size[2] \otimes Angle3(d).sin)))
    \oslash d.size[3]
Angle2(d) ==
  IF d.ang_2_vert THEN Vertical ELSE IF d.ang_2 = None THEN Atan(Slope2(d)) ELSE d.ang_2

Angles(d) == <<Angle2(d), Angle3(d)>>

IsAngle(a) == a.sin \in Fraction /\ a.cos \in Fraction /\ SQR(a.sin) \oplus SQR(a.cos) = One
IsAtan(a, t) == IsAngle(a) /\ Zero \prec a.cos /\ a.sin = t \otimes a.cos

\* The deck's own angles are no right ones, whose wavelength would be zero and for
\* which it has the switches, and flat only as the angle zero is.
ASSUME WaveAssumption ==
  \A d \in WaveDecks :
    /\ {d.gamma, d.vflow, d.amp} \subseteq Fraction /\ One \prec d.gamma /\ d.wave_flag \in 0 .. 4
    /\ \A n \in Dirs : d.size[n] \in Fraction /\ Zero \prec d.size[n] /\ d.nx[n] \in Nat \ {0}
    /\ \A a \in {d.ang_2, d.ang_3} \ {None} :
         IsAngle(a) /\ a.cos # Zero /\ (a.sin = Zero => Zero \prec a.cos)

ASSUME RootAssumption == Sqrt(One) = One

ASSUME AtanAssumption ==
  \A d \in WaveDecks :
    /\ d.ang_3 = None => IsAtan(Atan(Slope3(d)), Slope3(d))
    /\ d.ang_2 = None => IsAtan(Atan(Slope2(d)), Slope2(d))

\* The directions the wave vector has in the frame of the mesh.
Normal(a) == <<a[1].cos \otimes a[2].cos, a[1].cos \otimes a[2].sin, a[1].sin>>

\* Without the switches' override.
LambdaNotOverridden(d, a) ==
  LET x == [n \in Dirs |-> d.size[n] \otimes Normal(a)[n]]
      y == IF d.nx[2] > 1 /\ a[2].sin # Zero THEN Min2(x[1], x[2]) ELSE x[1]
  IN IF d.nx[3] > 1 /\ a[1].sin # Zero THEN Min2(y, x[3]) ELSE y

\* The smallest of the wavelengths that fit the directions in use; the switches override it.
Lambda(d, a) ==
  LET x == [n \in Dirs |-> d.size[n] \otimes Normal(a)[n]]
      y == IF d.nx[2] > 1 /\ a[2].sin # Zero THEN Min2(x[1], x[2]) ELSE x[1]
      z == IF d.nx[3] > 1 /\ a[1].sin # Zero THEN Min2(y, x[3]) ELSE y
  IN IF d.ang_2_vert THEN x[3] ELSE IF d.ang_3_vert THEN x[2] ELSE z

\* The energy of the sound waves with the velocity on the wrong side.
EigensystemSwapped(v, h, g1) ==
  LET vsq == SQR(v)
      asq == g1 \otimes (h \ominus (Half \otimes vsq))
      a == Sqrt(asq)
  IN [ev |-> <<v \ominus a, v, v, v, v \oplus a>>,
      rem |-> << <<One, v \ominus a, Zero, Zero, h \oplus (v \otimes a)>>,
                 <<Zero, Zero, One, Zero, Zero>>,
                 <<Zero, Zero, Zero, One, Zero>>,
                 <<One, v, Zero, Zero, Half \otimes vsq>>,
                 <<One, v \oplus a, Zero, Zero, h \ominus (v \otimes a)>> >>]

\* Eigenvalues, and the right eigenvectors by column, for a velocity v along the
\* wave: the only one InitUserMeshData passes has no other component.  Its h
\* keeps the argument of the square root above TINY_NUMBER.
Eigensystem(v, h, g1) ==
  LET vsq == SQR(v)
      asq == g1 \otimes (h \ominus (Half \otimes vsq))
      a == Sqrt(asq)
  IN [ev |-> <<v \ominus a, v, v, v, v \oplus a>>,
      rem |-> << <<One, v \ominus a, Zero, Zero, h \ominus (v \otimes a)>>,
                 <<Zero, Zero, One, Zero, Zero>>,
                 <<Zero, Zero, Zero, One, Zero>>,
                 <<One, v, Zero, Zero, Half \otimes vsq>>,
                 <<One, v \oplus a, Zero, Zero, h \oplus (v \otimes a)>> >>]

\* The left eigenvectors by row, which nothing reads.
LeftEigenvectors(v, h, g1) ==
  LET vsq == SQR(v)
      asq == g1 \otimes (h \ominus (Half \otimes vsq))
      a == Sqrt(asq)
      na == Half \oslash asq
      qa == g1 \oslash asq
      hv == Half \otimes g1 \otimes vsq
  IN << <<na \otimes (hv \oplus (v \otimes a)), Minus(na \otimes ((g1 \otimes v) \oplus a)),
          Zero, Zero, na \otimes g1>>,
        <<Zero, Zero, One, Zero, Zero>>,
        <<Zero, Zero, Zero, One, Zero>>,
        <<One \ominus (na \otimes g1 \otimes vsq), qa \otimes v, Zero, Zero, Minus(qa)>>,
        <<na \otimes (hv \ominus (v \otimes a)), Minus(na \otimes ((g1 \otimes v) \ominus a)),
          Zero, Zero, na \otimes g1>> >>

p0 == One \oslash deck.gamma
E0 == (p0 \oslash gm1) \oplus (Half \otimes SQR(deck.vflow))
Enthalpy == E0 \oplus p0

\* A vector along the wave and its two normals, in the frame of the mesh.
Rotated(a, m) ==
  << (m[1] \otimes a[1].cos \otimes a[2].cos) \ominus (m[2] \otimes a[2].sin)
       \ominus (m[3] \otimes a[1].sin \otimes a[2].cos),
     (m[1] \otimes a[1].cos \otimes a[2].sin) \oplus (m[2] \otimes a[2].cos)
       \ominus (m[3] \otimes a[1].sin \otimes a[2].sin),
     (m[1] \otimes a[1].sin) \oplus (m[3] \otimes a[1].cos) >>

\* The phase of a position, in turns.
Phase(n, lambda, x) ==
  ((x[1] \otimes n[1]) \oplus (x[2] \otimes n[2]) \oplus (x[3] \otimes n[3])) \oslash lambda
Turns(x) == Phase(Normal(wave.angles), wave.lambda, x)

\* The background moved in the first direction of the mesh, not of the wave.
AnalyticUnrotated(x) ==
  LET s == deck.amp \otimes Sine(Turns(x))
      r == wave.rem[deck.wave_flag + 1]
      m == Rotated(wave.angles, <<s \otimes r[2], s \otimes r[3], s \otimes r[4]>>)
  IN <<One \oplus (s \otimes r[1]), deck.vflow \oplus m[1], m[2], m[3],
       E0 \oplus (s \otimes r[5])>>

\* What the error loop compares a cell with.
Analytic(x) ==
  LET s == deck.amp \otimes Sine(Turns(x))
      r == wave.rem[deck.wave_flag + 1]
      m == Rotated(wave.angles, <<deck.vflow \oplus (s \otimes r[2]), s \otimes r[3], s \otimes r[4]>>)
  IN <<One \oplus (s \otimes r[1]), m[1], m[2], m[3],
       E0 \oplus (s \otimes r[5])>>

\* What the generator writes, by formulas of its own.
Generated(x) ==
  LET s == deck.amp \otimes Sine(Turns(x))
      r == wave.rem[deck.wave_flag + 1]
      m == Rotated(wave.angles, <<deck.vflow \oplus (s \otimes r[2]), s \otimes r[3], s \otimes r[4]>>)
  IN <<One \oplus (s \otimes r[1]), m[1], m[2], m[3],
       E0 \oplus (s \otimes r[5])>>

-----------------------------------------------------------------------------
CellCount(d) == d.nx[1] * d.nx[2] * d.nx[3]
CenterOf(d, c) ==
  LET i == <<c % d.nx[1], (c \div d.nx[1]) % d.nx[2], c \div (d.nx[1] * d.nx[2])>>
  IN [n \in Dirs |-> d.size[n] \otimes R(2 * i[n] + 1, 2 * d.nx[n])]

ASSUME SineAssumption ==
  \A d \in WaveDecks : Lambda(d, Angles(d)) # Zero =>
    \A c \in 0 .. CellCount(d) - 1 :
      Sine(Phase(Normal(Angles(d)), Lambda(d, Angles(d)), CenterOf(d, c))) \in Fraction

Number == Fraction \cup {NaN}
ASSUME DriftsAssumption ==
  /\ NaN \notin Fraction
  /\ \A d \in WaveDecks :
       /\ Drifts(d) \subseteq [0 .. CellCount(d) - 1 -> [Vars -> Number]]
       /\ \A c \in 0 .. CellCount(d) - 1 : RankOf(c, CellCount(d)) \in Ranks

Size3 == CellCount(deck)
Cells == 0 .. Size3 - 1
Center(c) == CenterOf(deck, c)
Volume == deck.size[1] \otimes deck.size[2] \otimes deck.size[3]
CellVolume == Volume \oslash R(Size3, 1)

\* Operations on numbers that may be a NaN, which every comparison denies.
Plus(a, b) == IF a = NaN \/ b = NaN THEN NaN ELSE a \oplus b
Times(a, b) == IF a = NaN \/ b = NaN THEN NaN ELSE a \otimes b
Distance(a, b) == IF a = NaN \/ b = NaN THEN NaN ELSE Fabs(a \ominus b)
StdMax(a, b) == IF a # NaN /\ b # NaN /\ a \prec b THEN b ELSE a
Divided(a, b) == IF NaN \in {a, b} \/ b = Zero THEN NaN ELSE a \oslash b  \* only 0 / 0 is met

InitWave ==
  /\ pc = "InitUserMeshData" /\ deck \in WaveDecks
  /\ wave = None /\ u = None /\ row = None
  /\ todo = Cells /\ from = [r \in Ranks |-> {r}]
  /\ l1_err = [r \in Ranks |-> [n \in Vars |-> Zero]]
  /\ max_err = [r \in Ranks |-> [n \in Vars |-> Zero]]

InitUserMeshData ==
  /\ pc = "InitUserMeshData"
  /\ LET a == Angles(deck)
         es == Eigensystem(deck.vflow, Enthalpy, gm1)
     IN wave' = [angles |-> a, lambda |-> Lambda(deck, a), ev |-> es.ev, rem |-> es.rem]
  /\ pc' = "ProblemGenerator"
  /\ UNCHANGED <<deck, u, todo, from, l1_err, max_err, row>>

ProblemGenerator ==
  /\ pc = "ProblemGenerator"
  /\ u' = [c \in Cells |-> Generated(Center(c))]
  /\ pc' = "Execute"
  /\ UNCHANGED <<deck, wave, todo, from, l1_err, max_err, row>>

\* The cycles: after a whole number of periods the data differ from the analytic
\* solution by what the scheme did to them, which may be anything.
Execute ==
  /\ pc = "Execute"
  /\ \E d \in Drifts(deck) : u' = [c \in Cells |-> [n \in Vars |-> Plus(u[c][n], d[c][n])]]
  /\ pc' = "UserWorkAfterLoop"
  /\ UNCHANGED <<deck, wave, todo, from, l1_err, max_err, row>>

\* A cell of the loops over the blocks of its rank, which keep their order.
SumErrors(c) ==
  LET r == RankOf(c, Size3)
      diff == [n \in Vars |-> Distance(Analytic(Center(c))[n], u[c][n])]
  IN /\ pc = "UserWorkAfterLoop" /\ c \in todo
     /\ \A b \in todo : RankOf(b, Size3) = r => c <= b
     /\ l1_err' = [l1_err EXCEPT ![r] = [n \in Vars |-> Plus(@[n], Times(diff[n], CellVolume))]]
     /\ max_err' = [max_err EXCEPT ![r] = [n \in Vars |-> StdMax(diff[n], @[n])]]
     /\ todo' = todo \ {c}
     /\ UNCHANGED <<pc, deck, wave, u, from, row>>

\* A step of MPI_Reduce on both arrays: of two ranks whose loops are over one
\* takes the errors of the other.
Reduce(r, s) ==
  /\ pc = "UserWorkAfterLoop"
  /\ r # s /\ from[r] # {} /\ from[s] # {} /\ \A c \in todo : RankOf(c, Size3) \notin {r, s}
  /\ l1_err' = [l1_err EXCEPT ![r] = [n \in Vars |-> Plus(@[n], l1_err[s][n])]]
  /\ max_err' = [max_err EXCEPT ![r] = [n \in Vars |-> StdMax(@[n], max_err[s][n])]]
  /\ from' = [from EXCEPT ![r] = @ \cup from[s], ![s] = {}]
  /\ UNCHANGED <<pc, deck, wave, u, todo, row>>

\* The arguments of std::max in the other order.
LargestSwapped(max, l1) ==
  LET ratio(n) == Divided(max[n], l1[n])
  IN StdMax(ratio(5), StdMax(ratio(4), StdMax(ratio(3), StdMax(ratio(2), StdMax(ratio(1), Zero)))))

\* max_max_over_l1.
Largest(max, l1) ==
  LET ratio(n) == Divided(max[n], l1[n])
  IN StdMax(StdMax(StdMax(StdMax(StdMax(Zero, ratio(1)), ratio(2)), ratio(3)), ratio(4)), ratio(5))

\* The square of rms_err.
Rms(l1) ==
  LET square(n) == Times(l1[n], l1[n])
  IN Plus(Plus(Plus(Plus(square(1), square(2)), square(3)), square(4)), square(5))

\* The errors left as they were summed.
NormalizedNot(l1) == l1

\* The root rank divides by the volume of the mesh.
Normalized(l1) == [n \in Vars |-> Divided(l1[n], Volume)]

RowOf(l1, max) == [rms |-> Rms(l1), l1 |-> l1, max |-> max, largest |-> Largest(max, l1)]

\* The row of the file, by the rank that has the errors of all.
WriteRow(r) ==
  /\ pc = "UserWorkAfterLoop" /\ todo = {} /\ from[r] = Ranks
  /\ row' = RowOf(Normalized(l1_err[r]), max_err[r])
  /\ pc' = "exit"
  /\ UNCHANGED <<deck, wave, u, todo, from, l1_err, max_err>>

NextWave ==
  \/ InitUserMeshData \/ ProblemGenerator \/ Execute
  \/ \E c \in Cells : SumErrors(c)
  \/ \E r, s \in Ranks : Reduce(r, s)
  \/ \E r \in Ranks : WriteRow(r)

-----------------------------------------------------------------------------
\* wave is set, and not set again in this process.
Ready == pc = "ProblemGenerator" /\ wave # None
Normals == Normal(wave.angles)
Active == {n \in Dirs : deck.nx[n] > 1}
OwnAngle(a) == a # None /\ a.sin # Zero

Dot(a, b) ==
  (a[1] \otimes b[1]) \oplus (a[2] \otimes b[2]) \oplus (a[3] \otimes b[3])
    \oplus (a[4] \otimes b[4]) \oplus (a[5] \otimes b[5])

\* The eigenvectors of the background and the left ones are inverse matrices.
Biorthogonal ==
  Ready => LET lem == LeftEigenvectors(deck.vflow, Enthalpy, gm1) IN
    \A m, n \in Vars : Dot(lem[m], wave.rem[n]) = IF m = n THEN One ELSE Zero

\* The angle out of the plane, left to the code, is computed as for a wave along
\* the diagonal, though ang_3_vert turns it along x2.
HalfTilted == deck.ang_3_vert /\ ~deck.ang_2_vert /\ deck.ang_2 = None

\* Unless the deck tilts the wave by an angle of its own, a whole wave fits every
\* direction the mesh resolves, one if both angles are left to the code: the data
\* is continuous across the periodic boundaries.  The exception is x3 under
\* ang_3_vert without ang_2, where half a wave fits.
WholeWaves ==
  Ready /\ ~OwnAngle(deck.ang_2) /\ ~OwnAngle(deck.ang_3) =>
    /\ Zero \prec wave.lambda
    /\ \A n \in Active :
         LET waves == (deck.size[n] \otimes Normals[n]) \oslash wave.lambda IN
         /\ IF HalfTilted /\ n = 3 THEN waves = Half ELSE waves[2] = 1
         /\ deck.ang_2 = None /\ deck.ang_3 = None /\ ~deck.ang_2_vert /\ ~deck.ang_3_vert
              => waves = One

\* The Euler fluxes along the wave, linearized about the background, of a
\* perturbation p.
LinearFlux(p) ==
  LET n == Normals
      v == [k \in Dirs |-> deck.vflow \otimes n[k]]
      vn == deck.vflow
      pn == (p[2] \otimes n[1]) \oplus (p[3] \otimes n[2]) \oplus (p[4] \otimes n[3])
      pv == vn \otimes pn
      dp == gm1 \otimes ((p[5] \ominus pv) \oplus (Half \otimes SQR(vn) \otimes p[1]))
      H == Enthalpy
      momentum(k) == (v[k] \otimes pn) \oplus (vn \otimes p[k + 1])
                       \oplus (dp \otimes n[k]) \oplus Minus(v[k] \otimes vn \otimes p[1])
  IN <<pn, momentum(1), momentum(2), momentum(3),
       (H \otimes pn) \oplus (vn \otimes ((p[5] \oplus dp) \ominus (H \otimes p[1])))>>

\* In every cell the generator's data is the background and a perturbation that
\* the fluxes along the wave carry at the wave's one speed, ev[wave_flag]: the
\* eigenvectors, their rotation and the moving background fit together, so that
\* the analytic solution is one, however the wave is tilted.
CarriedAtOneSpeed ==
  pc = "Execute" =>
    \A c \in Cells :
      LET p == [k \in Vars |-> u[c][k] \ominus
                  (CASE k = 1 -> One [] k = 5 -> E0 [] OTHER -> deck.vflow \otimes Normals[k - 1])]
      IN LinearFlux(p) = [k \in Vars |-> wave.ev[deck.wave_flag + 1] \otimes p[k]]

Poisoned == \E c \in Cells, n \in Vars : u[c][n] = NaN

\* The row says what happened: no error if and only if every cell of every rank
\* is what the generator made it, and no mean larger than its maximum.
RowMeasures ==
  row # None /\ ~Poisoned =>
    /\ row.rms = Zero <=> \A c \in Cells : u[c] = Generated(Center(c))
    /\ \A n \in Vars : row.l1[n] \preceq row.max[n]
    /\ row.rms # Zero => One \preceq row.largest

\* One NaN in one cell of one rank reaches the first error column; the ratio
\* column stays a number, though a variable without any error makes it 0 / 0.
NaNReported ==
  row # None => (Poisoned => row.rms = NaN) /\ row.largest # NaN
=============================================================================
