------------------------------ MODULE Profiles ------------------------------
(***************************************************************************)
(* What the Kelvin-Helmholtz and the blast generator write into a cell, in *)
(* exact arithmetic over any tanh, sine and exponential: the tables are    *)
(* parameters, and the sine need not be the exact one.                     *)
(***************************************************************************)
EXTENDS Pgen

CONSTANTS
  KHDecks, BlastDecks,   \* blocks problem/kh and problem of the decks in use
  Xs, Ys,                \* cell centers of kh
  Offsets,               \* cell centers of blast, from the center of the blast
  Draws,                 \* what uniform_real_distribution(-0.5, 0.5) may return
  Tanh(_), Sin(_),       \* Sin(t) is sin(2 pi t)
  Exp(_),                \* Exp(s) is exp(-s)
  Log(_)

Quarter == R(1, 4)
z1 == Minus(Half)
z2 == Half

\* The arguments tanh has in a run, and their negatives.
TanhArguments ==
  LET A == {y \oslash R(1, 50) : y \in Ys}
             \cup {(Fabs(y) \ominus Half) \oslash R(1, 100) : y \in Ys}
             \cup {(y \ominus z) \oslash R(1, 20) : y \in Ys, z \in {z1, z2}}
             \cup {(Fabs(y) \ominus Quarter) \oslash d.a : y \in Ys, d \in {b \in KHDecks : b.iprob = 5}}
  IN A \cup {Minus(t) : t \in A}

\* What the problems ask of the functions: tanh is odd and never falls, the
\* sine and the exponential may be any.
ASSUME TablesAssumption ==
  /\ \A s, t \in TanhArguments :
       /\ Tanh(s) \in Fraction /\ Fabs(Tanh(s)) \preceq One /\ Tanh(Minus(s)) = Minus(Tanh(s))
       /\ s \preceq t => Tanh(s) \preceq Tanh(t)
  /\ \A x \in Xs : {Sin(x), Sin(x \oplus Quarter), Sin(x \oplus x),
                    Sin(x \ominus Half), Sin(Half \oplus x)} \subseteq Fraction
  /\ \A y \in Ys :
       /\ Exp(SQR(y) \oslash SQR(R(1, 5))) \in Fraction
       /\ Exp(SQR(Fabs(y) \ominus Half) \oslash SQR(R(1, 10))) \in Fraction
       /\ \A z \in {z1, z2} : Exp(SQR(y \ominus z) \oslash R(1, 25)) \in Fraction
       /\ \A d \in KHDecks :
            d.iprob = 5 => Exp(SQR(Fabs(y) \ominus Quarter) \oslash SQR(d.sigma)) \in Fraction
  /\ \A o \in Offsets : Sqrt(SQR(o[1]) \oplus SQR(o[2]) \oplus SQR(o[3])) \in Fraction

\* Periodic domains centered about the origin.
ASSUME DomainAssumption ==
  /\ Xs \cup Ys \cup Draws \subseteq Fraction
  /\ \A x \in Xs \cup Draws : Fabs(x) \preceq Half
  /\ \A y \in Ys : Minus(y) \in Ys

\* Positive densities and pressures, and a blast denser and hotter inside.
ASSUME ProfilesAssumption ==
  /\ \A d \in KHDecks :
       /\ d.iprob \in 1 .. 5
       /\ {d.gamma, d.vflow, d.amp, d.problem_amp, d.drat, d.drho_rho0, d.vboost, d.a, d.sigma} \subseteq Fraction
       /\ One \prec d.gamma /\ Zero \prec d.drat /\ Zero \prec d.a /\ d.sigma # Zero
       /\ Zero \preceq d.drho_rho0 /\ Zero \preceq d.vflow /\ Zero \preceq d.amp
  /\ \A d \in BlastDecks :
       /\ {d.radius_outer, Log(d.damb), Log(d.pamb), Log(d.drat \otimes d.damb),
            Log(d.prat \otimes d.pamb)} \subseteq Fraction
       /\ Zero \preceq d.radius_outer
       /\ d.radius_inner # None => d.radius_inner \in Fraction /\ Zero \preceq d.radius_inner
       /\ Log(d.pamb) \preceq Log(d.prat \otimes d.pamb)

VARIABLE cell  \* the cell written, or None

-----------------------------------------------------------------------------
Kinetic(d, m1, m2) == (SQR(m1) \oplus SQR(m2)) \oslash d

\* The four variables of a cell whose pressure is p; the third momentum is zero.
Cell(d, m1, m2, p) ==
  [d |-> d, m1 |-> m1, m2 |-> m2,
   e |-> (p \oslash gm1) \oplus (Half \otimes Kinetic(d, m1, m2))]

\* The density of the stream is changed and its momenta are not.
SlipSurfaceUnscaled(y, r) ==
  LET v1(n) == deck.vflow \oplus (deck.amp \otimes r[n])
      inside == Fabs(y) \prec Quarter
  IN Cell(IF inside THEN deck.drat ELSE One, IF inside THEN Minus(v1(3)) ELSE v1(1),
          deck.amp \otimes r[IF inside THEN 4 ELSE 2], R(5, 2))

\* iprob=1: two draws for every cell, two more inside the stream.
SlipSurface(y, r) ==
  LET v1(n) == deck.vflow \oplus (deck.amp \otimes r[n])
  IN IF Fabs(y) \prec Quarter
     THEN Cell(deck.drat, Minus(deck.drat) \otimes v1(3),
               deck.drat \otimes deck.amp \otimes r[4], R(5, 2))
     ELSE Cell(One, v1(1), deck.amp \otimes r[2], R(5, 2))

\* iprob=2; the cosine is the sine a quarter period on.
ShearLayer(x, y) ==
  Cell(One, deck.vflow \otimes Tanh(y \oslash R(1, 50)),
       deck.amp \otimes Sin(x \oplus Quarter) \otimes Exp(SQR(y) \oslash SQR(R(1, 5))), One)

\* The energy from the velocities, before they are multiplied by the density.
BeckwithStoneEarly(x, y) ==
  LET z == Fabs(y) \ominus Half
      t == Tanh(z \oslash R(1, 100))
      d == R(101, 200) \oplus (R(99, 200) \otimes t)
      v1 == deck.vflow \otimes t
      v2 == deck.problem_amp \otimes deck.vflow \otimes Sin(x) \otimes Exp(SQR(z) \oslash SQR(R(1, 10)))
      s == IF y \prec Zero THEN Minus(v2) ELSE v2
  IN [Cell(d, v1, s, One) EXCEPT !.m1 = @ \otimes d, !.m2 = @ \otimes d]

\* iprob=3. Its amp is the one of the block problem, not of problem/kh.
BeckwithStone(x, y) ==
  LET z == Fabs(y) \ominus Half
      t == Tanh(z \oslash R(1, 100))
      d == R(101, 200) \oplus (R(99, 200) \otimes t)
      v1 == deck.vflow \otimes t
      v2 == deck.problem_amp \otimes deck.vflow \otimes Sin(x) \otimes Exp(SQR(z) \oslash SQR(R(1, 10)))
  IN Cell(d, v1 \otimes d, (IF y \prec Zero THEN Minus(v2) ELSE v2) \otimes d, One)

\* The sine as the library returns it.
AveSineLibrary(x) == Sin(x)

\* Averaged with the sample half a domain away, on the side that exists.
AveSine(x) ==
  Half \otimes (Sin(x) \ominus (IF Zero \prec x THEN Sin(x \ominus Half) ELSE Sin(Half \oplus x)))

\* iprob=4.
Lecoanet(x, y) ==
  LET t == Tanh((y \ominus z1) \oslash R(1, 20)) \ominus Tanh((y \ominus z2) \oslash R(1, 20))
      dens == One \oplus (Half \otimes deck.drho_rho0 \otimes t)
      v1 == (deck.vflow \otimes (t \ominus One)) \oplus deck.vboost
      v2 == Minus(deck.amp) \otimes AveSine(x) \otimes
              (Exp(SQR(y \ominus z1) \oslash R(1, 25)) \oplus Exp(SQR(y \ominus z2) \oslash R(1, 25)))
  IN Cell(dens, v1 \otimes dens, v2 \otimes dens, R(10, 1))

\* iprob=5; the factor of the kinetic energy is the code's.
ResolvedStreams(x, y) ==
  LET z == Fabs(y) \ominus Quarter
      w == (Tanh(z \oslash deck.a) \oplus One) \otimes Half
      d == w \oplus ((One \ominus w) \otimes deck.drat)
      m1 == (w \otimes deck.vflow) \ominus ((One \ominus w) \otimes deck.vflow \otimes deck.drat)
      m2 == d \otimes deck.amp \otimes Sin(x \oplus x) \otimes Exp(SQR(z) \oslash SQR(deck.sigma))
  IN [d |-> d, m1 |-> m1, m2 |-> m2,
      e |-> (R(5, 2) \oslash gm1) \oplus (Quarter \otimes Kinetic(d, m1, m2))]

KH(x, y, r) ==
  CASE deck.iprob = 1 -> SlipSurface(y, r)
    [] deck.iprob = 2 -> ShearLayer(x, y)
    [] deck.iprob = 3 -> BeckwithStone(x, y)
    [] deck.iprob = 4 -> Lecoanet(x, y)
    [] deck.iprob = 5 -> ResolvedStreams(x, y)

rout == deck.radius_outer
rin == rout \ominus (IF deck.radius_inner = None THEN rout ELSE deck.radius_inner)

Radius(o) == Sqrt(SQR(o[1]) \oplus SQR(o[2]) \oplus SQR(o[3]))

\* The ramp taken the other way.
BlastReversed(o) ==
  LET rad == Radius(o)
      f == IF rad \prec rin THEN Zero
           ELSE IF rad \prec rout THEN One \ominus ((rad \ominus rin) \oslash (rout \ominus rin)) ELSE One
      mix(inner, outer) == ((One \ominus f) \otimes Log(inner)) \oplus (f \otimes Log(outer))
  IN [log_den |-> mix(deck.drat \otimes deck.damb, deck.damb),
      log_pres |-> mix(deck.prat \otimes deck.pamb, deck.pamb)]

\* Density and pressure of a cell by their logarithms, the scale of the ramp; the
\* momenta are zero and the energy is that pressure over gamma - 1.
BlastCell(o) ==
  LET rad == Radius(o)
      f == IF rad \prec rin THEN Zero
           ELSE IF rad \prec rout THEN (rad \ominus rin) \oslash (rout \ominus rin) ELSE One
      mix(inner, outer) == ((One \ominus f) \otimes Log(inner)) \oplus (f \otimes Log(outer))
  IN [log_den |-> mix(deck.drat \otimes deck.damb, deck.damb),
      log_pres |-> mix(deck.prat \otimes deck.pamb, deck.pamb)]

-----------------------------------------------------------------------------
InitProfile == deck \in KHDecks \cup BlastDecks /\ cell = None /\ u = None

\* One cell of the loops, any one: no iteration reads what another wrote.
GenerateKH ==
  /\ u = None /\ deck \in KHDecks
  /\ \E x \in Xs, y \in Ys, r \in [1 .. 4 -> Draws] :
       cell' = <<x, y>> /\ u' = KH(x, y, r)
  /\ UNCHANGED deck

GenerateBlast ==
  /\ u = None /\ deck \in BlastDecks
  /\ \E o \in Offsets : cell' = o /\ u' = BlastCell(o)
  /\ UNCHANGED deck

Generate == GenerateKH \/ GenerateBlast

-----------------------------------------------------------------------------
Written == u # None
WrittenKH == Written /\ deck \in KHDecks
iprob(n) == WrittenKH /\ deck.iprob = n

Pressure(v) == gm1 \otimes (v.e \ominus (Half \otimes Kinetic(v.d, v.m1, v.m2)))

\* Density, momenta and energy belong together: what ConservedToPrimitive makes
\* of a cell, without its floors, is a positive density and, in the first four
\* problems, the one pressure the problem starts with, whatever the density
\* there, the perturbation and the random numbers. The fifth has no one pressure:
\* its energy holds half of the kinetic one, and its pressure falls short of 5/2
\* by just what that leaves out.
UniformPressure ==
  /\ WrittenKH => Zero \prec u.d
  /\ iprob(1) => Pressure(u) = R(5, 2)
  /\ iprob(2) \/ iprob(3) => Pressure(u) = One
  /\ iprob(4) => Pressure(u) = R(10, 1)
  /\ iprob(5) =>
       Pressure(u) = R(5, 2) \ominus (gm1 \otimes Quarter \otimes Kinetic(u.d, u.m1, u.m2))

\* The arguments of tanh in a cell's streams, one for each layer they meet in.
Layers(y) ==
  CASE deck.iprob = 1 -> {}
    [] deck.iprob = 2 -> {y \oslash R(1, 50)}
    [] deck.iprob = 3 -> {(Fabs(y) \ominus Half) \oslash R(1, 100)}
    [] deck.iprob = 4 -> {(y \ominus z1) \oslash R(1, 20), (y \ominus z2) \oslash R(1, 20)}
    [] deck.iprob = 5 -> {(Fabs(y) \ominus Quarter) \oslash deck.a}

\* In the stream between the two layers, or below the one layer of iprob=2.
Inside(y) ==
  CASE deck.iprob = 2 -> y \prec Zero
    [] deck.iprob \in {3, 4} -> Fabs(y) \prec Half
    [] deck.iprob \in {1, 5} -> Fabs(y) \prec Quarter

InsideDensity ==
  CASE deck.iprob = 2 -> One
    [] deck.iprob = 3 -> R(1, 100)
    [] deck.iprob = 4 -> One \oplus deck.drho_rho0
    [] deck.iprob \in {1, 5} -> deck.drat

\* The two streams move against each other at no more than vflow, in the frame of
\* the boost and apart from the random part. Outside the layers, where tanh is one
\* in size, each has its own density and all of vflow: forward outside, and with
\* the opposite signs in iprob=4.
StreamsOppose ==
  WrittenKH =>
    LET y == cell[2]
        v == (u.m1 \oslash u.d) \ominus (IF deck.iprob = 4 THEN deck.vboost ELSE Zero)
        noise == IF deck.iprob = 1 THEN Half \otimes deck.amp ELSE Zero
    IN /\ Fabs(v) \preceq deck.vflow \oplus noise
       /\ (\A t \in Layers(y) : Fabs(Tanh(t)) = One) =>
            /\ u.d = IF Inside(y) THEN InsideDensity ELSE One
            /\ IF Inside(y) <=> deck.iprob = 4 THEN deck.vflow \ominus noise \preceq v
               ELSE v \preceq Minus(deck.vflow \ominus noise)

\* The flow of iprob=4 is the same twice over: shifted by half the domain and
\* reflected it is its own mirror image, whatever the sine of the library
\* returns: to the last bit on meshes whose cell centers are exact.
ReflectShift ==
  iprob(4) =>
    LET x == cell[1]
        x_shifted == IF Zero \prec x THEN x \ominus Half ELSE Half \oplus x
    IN Zero \prec x =>
         Lecoanet(x_shifted, Minus(cell[2])) = [u EXCEPT !.m2 = Minus(@)]

\* The pressure of the blast never rises outward, from the full ratio in the
\* center to the ambient value at the outer radius.
RampFalls ==
  Written /\ deck \in BlastDecks =>
    LET Between(low, log, high) == low \preceq log /\ log \preceq high IN
    /\ Between(Log(deck.pamb), u.log_pres, Log(deck.prat \otimes deck.pamb))
    /\ rout \preceq Radius(cell) => u.log_pres = Log(deck.pamb) /\ u.log_den = Log(deck.damb)
    /\ \A o \in Offsets :
         Radius(o) \prec Radius(cell) => u.log_pres \preceq BlastCell(o).log_pres
=============================================================================
