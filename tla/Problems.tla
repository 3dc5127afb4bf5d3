------------------------------ MODULE Problems ------------------------------
(***************************************************************************)
(* A run of each problem main can dispatch to, from its deck to the data   *)
(* its generator writes and, for the linear wave, on to the errors row:    *)
(* Profiles and LinearWave over the deck and the data they share.          *)
(***************************************************************************)
EXTENDS Profiles, LinearWave

vars == <<deck, u, cell, pc, wave, todo, from, l1_err, max_err, row>>

\* Decks of different problems differ in their problem_id.
ASSUME DecksAssumption ==
  (KHDecks \cup BlastDecks) \cap WaveDecks = {} /\ KHDecks \cap BlastDecks = {}

-----------------------------------------------------------------------------
\* kh and blast install a generator and nothing that runs after the loop.
Init ==
  \/ /\ InitProfile
     /\ pc = "ProblemGenerator" /\ wave = None /\ todo = {}
     /\ from = None /\ l1_err = None /\ max_err = None /\ row = None
  \/ InitWave /\ cell = None

\* The callbacks of the deck's problem.
Next ==
  \/ /\ deck \in KHDecks \cup BlastDecks /\ Generate
     /\ UNCHANGED <<pc, wave, todo, from, l1_err, max_err, row>>
  \/ deck \in WaveDecks /\ NextWave /\ UNCHANGED cell

Spec == Init /\ [][Next]_vars

-----------------------------------------------------------------------------
\* Each Kelvin-Helmholtz flow is the two opposed streams its profile is written
\* for, whatever the perturbation and the random numbers, and the energy of a cell
\* belongs to the density and the momenta it ended up with: the first four are at
\* one pressure, the fifth falls short of one by the kinetic energy its factor
\* of a quarter leaves out.
ShearFlow == UniformPressure /\ StreamsOppose

\* Left and right eigenvectors are inverse, and the data the generator makes of
\* one of them, rotated into the mesh over a moving background, is carried at
\* that family's one speed: the solution the errors are measured against is one.
EigenvectorsFit == deck \in WaveDecks => Biorthogonal /\ CarriedAtOneSpeed

\* The row of the errors file says what happened in the cells of all ranks, in
\* whatever order MPI reduces: no error if and only if there was none, and a NaN
\* anywhere is one.
HonestRow == deck \in WaveDecks => RowMeasures /\ NaNReported
=============================================================================
