# A verification model of Parthenon-Hydro

TLA+ modules, TLC configurations and TLAPS proofs about the compressible
hydrodynamics code of this repository. The code is a thin physics package on
top of Parthenon (block-structured adaptive meshes, MPI, task lists) and Kokkos
(thread teams), which are submodules and not part of the sources here. What is
hard in it is first of all *when* things run: which state a flux, an update, a time
step or a refinement tag is computed from while packs, ranks and threads move at
their own pace, and what survives a restart; and then what its formulas do with
floors, NaNs, ties and the cases between their branches. Both are modelled.

## 1. The system

| Part | Code | State it keeps | Operations |
|---|---|---|---|
| HydroDriver | `src/hydro/hydro_driver.cpp` | none of its own: registers `base` (u0) and `u1` of each block, the integrator's stage | `MakeTaskCollection`, once per stage: regions of task lists per block or per pack |
| Flux kernels | `src/hydro/hydro.cpp` 243-378, `src/recon/plm_simple.hpp`, `src/hydro/rsolvers/hydro_hlle.hpp` | scratch pads of a thread team, the flux arrays | x1, x2, x3 sweeps: `Reconstruct`, barrier, `RiemannSolver` |
| Equation of state | `src/eos/adiabatic_hydro.cpp` | fields `cons`, `prim` | `ConservedToPrimitive` with density and pressure floors |
| Time step | `hydro.cpp` 194-241 | the pack's dt | `EstimateTimestep` |
| Hydro package | `hydro.cpp` 39-43, 93-192 | parameters, fields, callbacks | `Initialize`, `ProcessPackages` |
| History | `hydro.cpp` 45-81 | none | `HydroHst` sums |
| Refinement criteria | `src/refinement/` | none | `PressureGradient`, `VelocityGradient`, `MaxDensity` |
| main | `src/main.cpp` | the callbacks in `app_input` | dispatch on `problem_id`, start, run, finalize |
| Linear wave | `src/pgen/linear_wave.cpp` | globals, `linearwave-errors.dat`, `tlim` in the parameters | `InitUserMeshData`, `ProblemGenerator`, `UserWorkAfterLoop` |
| Kelvin-Helmholtz, blast | `src/pgen/kh.cpp`, `src/pgen/blast.cpp` | none | `ProblemGenerator` |
| Shock tube | `src/pgen/sod.cpp` | not built | |
| Convergence test | `tst/regression/` | the errors file of a series of runs | `Prepare`, `Analyse` |
| Parthenon, Kokkos | external | messages, task lists, restart dumps, teams | see below |

(Paths are relative to the repository root, as everywhere in this file.)

How they interact: `main` installs callbacks and hands over to Parthenon, which
calls `Initialize`, then `InitUserMeshData` while it builds the mesh, then the
problem generator, and then the driver's loop. In each cycle Parthenon asks
`HydroDriver` for one task collection per integrator stage and executes it on
every rank. Tasks share the fields of their blocks; blocks of different ranks
exchange flux corrections and ghost cells through message buffers. The flux task
launches kernels in which a team of threads shares scratch memory. At the end of
a cycle the ranks agree on the next time step, output and restart files are
written, and the mesh is refined by the tags.

What makes each part correct, and which behaviours are hard:

* **Driver.** Every update combines fluxes and ghost states of exactly one time
  level with the register of the cycle's start; fluxes at level jumps are the
  same on both sides; the new dt and the tags come from the final stage; nobody
  waits for ever. Hard: ranks and packs at arbitrary relative speed, finite
  buffers, no barrier between stages, only dependencies.
* **Kernels.** No data race on the scratch pads, no uninitialized or stale state
  reaches a flux, nothing is read or written outside the arrays. Hard: the left
  state of a face is written by the thread of another cell; double buffering by
  pointers each thread swaps for itself; barriers whose number depends on the row.
* **Start and restart.** What a callback reads has been set in this process; a
  parameter is found by the name it is looked up under; the errors file loses
  nothing; the time limit means the same before and after a restart.
* **Equation of state, time step, history.** Floors give positive density and
  pressure whatever an update left, NaN included; applied a second time, by a
  neighbour to a ghost or by a restarted process, they change nothing; the time
  step is the least limit; a NaN that floors and `fmin` hide still shows somewhere.
  Hard: comparisons that are false for NaN, and rounding.
* **Riemann solver.** No new extrema, the HLL flux, waves fast enough for a
  positive state. Hard: three index permutations, one division,
  wave speeds from an estimate that is not positive by itself.
* **Criteria.** A tag is that of the steepest cell in whatever order the reduction
  runs; a front is seen from both sides of a face; no stencil leaves the block; a
  block is not refined and derefined for ever.
* **Problems.** What a generator writes into density, momenta and energy belongs
  together; the analytic solution is one; the error row measures what the run did.
  Hard: angles, flags and extents that are used to compute one another, formulas
  that are written twice.

`PROJECT.json` lists the hazards line by line, with the properties that cover
them and those that nothing covers yet.

## 2. The modules

| Module | Models | Depends on |
|---|---|---|
| `HydroDriver` | the task collection, stages and cycles on several ranks | |
| `HydroDriverInv` | its inductive invariant | `HydroDriver` |
| `BulkSync` | what it promises: blocks advance level by level | |
| `HydroDriver_proofs` | theorems | `HydroDriverInv` |
| `FluxX1`, `FluxX2` | the x1 kernel; the x2 and x3 kernels | |
| `FaceFluxes` | what a kernel promises: every face solved once | |
| `FluxX1_proofs`, `FluxX2_proofs` | theorems | |
| `Startup`, `Startup_proofs` | the life of a process, kills and restarts | |
| `Floats` | what is assumed of `Real`: operations on a set with a NaN | |
| `MiniFloat` | a small floating point for TLC | |
| `Eos` | boundaries, floors, time step, history and restart of the cells of a block | `Floats` |
| `Criteria` | the three criteria on two neighbouring blocks | `Floats` |
| `Hysteresis` | what their tags do to the mesh over many cycles | |
| `Package_proofs` | theorems about these three | `Eos`, `Criteria`, `Hysteresis` |
| `Rationals`, `Rationals_proofs` | exact fractions; that they are an ordered field | |
| `Riemann`, `Riemann_proofs` | PLM and HLLE at one face | `Rationals` |
| `Pgen` | what the problem generators share | `Rationals` |
| `Profiles` | the Kelvin-Helmholtz and blast generators | `Pgen` |
| `LinearWave` | the linear wave's set-up, data and error norms | `Pgen` |
| `Problems`, `Problems_proofs` | the problems main dispatches, each from its deck to its data or errors | `Profiles`, `LinearWave` |
| `MC...` | values of the constants for TLC | |

Some operators in these modules are named variants of the definition that
follows them (`BlockTasksInitAlways` before `BlockTasks`): a mistake one could
make in that place of the code. No specification uses them. Each property was
seen to fail when its variant takes the definition's place; `mutants` in
`PROJECT.json` says which.

### HydroDriver

*State.* `cons`, `prim` and `u1` stand for the fields and the register `u1`. A
block's array is cut into zones: its interior, the ghosts copied from each
neighbour, and the ghosts at the physical boundary (`Phys`). The content of a
zone is abstracted to its *time level*, the number of stage updates it has been
through. A face flux is the resolution it was computed at and the two time
levels of the states on its sides; `applied` remembers the ones the last update
used. `fluxBuf` and `bndBuf` are the message queues, `bdone` and `pdone` the
tasks each list has completed, `stage` and `region` the position of each rank.
`newDt`, `dtFrom` and `tag` keep the time level the next time step, the present
one and the tags were computed from.

*Actions.* One per task, named after the function the task calls, guarded by
`RunBlock` or `RunPack`: the task belongs to the rank's present region
(`BlockTasks`, `PackTasks`) and the tasks it depends on (`Deps`) are complete.
`NumRegions` is the condition on the fifth region. `AddBoundaryExchangeTasks`
is three tasks, as Parthenon adds them: send, receive, set. A send or a receive
that cannot finish returns `TaskStatus::incomplete` (`Incomplete`) and is polled
again. `CompleteRegion`, `NextStage` and `EndCycle` are the loops around the
collection. Sending waits for room in a buffer of capacity `BufCap`; MPI
promises no more, and the invariant shows that a larger one is not used beyond
two messages.

*Choices.* Prolongation of ghosts at level jumps is part of setting them. A
physical ghost cell may copy the interior or, at a corner, a neighbour's ghost:
the model follows one cell and lets it be any. A tag may be decided by any zone,
because the criteria difference across ghosts. A block that is its own
neighbour (one block in a periodic direction) is excluded by an assumption on
the topology: its ghosts are copied inside one pack. The mesh does not change:
adaptivity appears as the tags, remeshing at the end of a cycle is not modelled.
The time limit is the cycle limit `MaxCycles`.

### FluxX1, FluxX2

*State.* Per thread the loop it is in (`pc`) and the iterations of that loop
left to it (`todo`); the scratch pads, `Garbage` until written; the fluxes. A
state is abstracted to the cell (x1) or row (x2, x3) it was reconstructed in, so
that a flux is the pair of cells it was computed from. `Share` divides the
iterations of each `par_for_inner` among the threads, separately for the two
loops: nothing in the code says that the thread which reconstructed a cell
solves its face. In `FluxX2` `wlb[t]` is the thread's own pointer, `row[t]` its
own loop counter, and `arrived[t]` counts the barriers it has reached: a
`team_barrier` lets a thread go when all have reached as many.

*Actions.* `Reconstruct` and `RiemannSolver` are one iteration each;
the barriers have an action for reaching and one for leaving; `Swap` is the exchange
of the pointers and the increment of the loop. The x3 kernel is the x2 kernel
with k for j. Several variables of a cell are handled together.

### Startup

*State.* What a process holds (`hooks`, `params`, `wave` for the globals of the
linear wave, `pin` for the parameters, `cells` for whose data is on the mesh)
and what outlives it (`dump`, `errors`). A deck is reduced to the keys the code
tests. `Dispatch` is the chain in `main`; `Initialize` has the checks in
their order, ending in `Abort` as `PARTHENON_FAIL`, `PARTHENON_REQUIRE` and a
missing key do; `InitUserMeshData` runs while the mesh is built, after a restart
too; a restart takes its parameters from the dump, as they were when it was
written. `OpenErrors` and `WriteErrors` are separate because the rows stay in the
stream's buffer until `fclose` and a kill may come between. `Kill` may come at
any point. Floating point time is a counter of steps and the period of the wave
a number; the loop may end after any cycle (`LeaveLoop`), at the time limit, at `nlim` or
on a signal. A generator that misses a key of its own block ends the process, which is a `Kill` here.
With the shipped deck the period happens to be one, which hides the repeated
scaling the run `tlim` shows.

### Eos

*State.* `cons` and `prim` of every cell of a block and its ghosts (`Owner` names
the interior cell a ghost shows), the accumulators of the two reductions (`min_dt`,
`hst`) with the cells left to them (`todo`), and the restart file. The numbers are
those of `Floats`: any deterministic operations with a NaN whose comparisons are
false; nothing else is assumed of them, so rounding is covered.

*Actions.* `Update` leaves anything in the interior; `SetBounds` copies it to the
ghosts before any floor was applied, as the task collection does; `FillDerived`
goes over the entire block. `EstimateTimestep` and `SumHistory` take one cell each,
in any order. A restart may come at any point after a dump: `cons` is the only
field that is written, so boundaries and floors are applied to it anew.

### Criteria, Hysteresis

`Criteria` has the loops of the three functions with their ranges (`Taken`) and
the cells each one reads (`Stencil`) on two neighbouring blocks that show the same
field; the reduction takes the cells in any order. `PressureGradient` returns
without looking in one dimension. `Hysteresis` follows one place of the
mesh: `LevelTag` and the checks of the thresholds are the code's, and what a criterion
measures on cells of another size is any value within bounds that are *assumed* of the
flow (`Finer`, `Coarser`): an undivided difference on cells half as wide is at least half and at most
all of what it was, a maximum does not fall when it is taken over finer cells. The criteria
do not imply the first bound: the pressure criterion divides by the local value
(`gradient.cpp` 39, 50), and restriction averages conserved variables, so that velocities
are weighted by density. It is met where density and pressure vary little within a cell
of the coarser level; where they do not, nothing is claimed. The
flow changes a bounded number of times, as otherwise nothing could settle.

### Riemann, Profiles, LinearWave, Problems

Formulas, in exact fractions, over a small set of states, cell centers or decks. The
elementary functions are parameters: a property that holds for any square root,
tanh or exponential is not about their values; what one does ask of them is an assumption
beside the parameter. `Riemann` reconstructs one face from
four cells and solves it, along each axis, with the code's index permutation
(`Order`). `Profiles` writes one cell of one deck per step. `LinearWave` has angles
as pairs of sine and cosine, so that `Angles` can say which of them is computed from
which; after the generator `Execute` leaves any of the drifts of the deck, NaN included, in
the cells, each rank adds up the errors of its own cells one by one (`SumErrors`), `Reduce` is
one step of `MPI_Reduce`, of any two ranks that are done with their cells, in any
order, and the rank that has the errors of all writes the row (`WriteRow`). `Problems` extends the two as `main` does: a run has the deck of
one problem and goes through the callbacks of that problem alone, on the deck and the
data they share (`Pgen`).

*Assumed of the decks* (and evaluated by TLC on those of the run): numbers are reduced
fractions, gamma is above one, a deck has densities, pressures, extents and
resolutions above zero; the domain of the shear flows is that of a periodic box about the
origin, and tanh is odd, never falls and stays within one; the logarithm of the pressure
is not lower inside the blast than outside; sine and cosine of an angle
belong together, a default angle is that of its tangent, and the root of one is one; an
angle of the deck's own is no right angle (see below for what one does) and, if its sine is
zero, the angle zero; a NaN is no number, and every cell has a rank.
Nothing is asked of the sine of the wave, nor of the sine and the exponential of the shear
flows but that they return numbers. `Eos` assumes positive floors, as the defaults are;
`Initialize` takes a deck's `dfloor` and `pfloor` unchecked (`hydro.cpp` 124-125), and with others
nothing is claimed.

`ShearFlow` speaks of each of the five profiles by itself. A cell is in its two streams where every tanh of
its profile (`Layers`) is one in size; between them only the limit on the speed holds.
`Inside` says which stream the cell is in and `InsideDensity` how dense that one is. The blast
is kept as the logarithms of density and pressure, the scale its ramp is linear in; its
momenta are zero and its energy is that pressure over gamma - 1.

## 3. The runs

| Run | Shows | Bounds |
|---|---|---|
| `jump` | one time level per update, conservation, bounded messages, cycle start, final decisions | two fine blocks in a pack beside a coarse one on another rank, two stages, two cycles, adaptive, buffers of three |
| `row` | the run completes; `BulkSync` is implemented | three blocks in a row, three packs, two ranks, one-message buffers |
| `x1` | no race, in bounds, `FaceFluxes` | two threads, five cells, iterations change hands |
| `x2` | the same, the pointers agree, the kernel ends | three threads, two columns, two rows; a thread idle in each loop |
| `startup` | callbacks and criteria find what they read, the errors file is kept | ten decks, three processes, four steps |
| `eos` | positive states, ghosts agree, least dt, NaN shows, restart is faithful | two cells with periodic ghosts, six contents, numbers of 81 values and NaN |
| `criteria` | tags, stencils, fronts on a face | two blocks of two cells with two ghosts, in two dimensions |
| `hysteresis` | no flip, the mesh settles | three levels, gradients up to nine, two changes of the flow |
| `riemann` | bounded reconstruction, HLL flux, positivity between the waves | six states in every place of the stencil, three directions |
| `problems` | streams of the five shear flows, and the pressure of each cell with the shortfall of the fifth; the symmetry of the fourth, a falling ramp; whole waves, eigenvectors that fit, honest rows | eight Kelvin-Helmholtz decks, three blasts, cells on and about every interface; fourteen waves, up to eight cells on two ranks, drifts of two cells in one of two variables |
| `threshold`, `tlim` | one disagreement each (below); expected to fail | as `startup`, with two processes |

The inductive invariants (`IInv`) are not in the runs: the proofs have them for all
values. They are invariants of the same configurations, which is how they were found.

Why the bounds are enough: two cycles of two stages reach every combination of
first and last stage, and a message left over from an earlier stage or cycle;
three mutually adjacent blocks have equal-level and jump faces, a face inside a
pack and faces across ranks. In `row` the middle block has to serve two
neighbours with full buffers, which is where a cycle of waits would close, and the
two packs of one rank are scheduled against each other. Two interior rows already
use both pads, and the first row is the one without a solve. For all safety
properties of driver and kernels the bounds do not matter in the end, as they are
proved for all values.

The numbers of `eos` and `criteria` are coarse on purpose: with rounding that large a
property that holds only in exact arithmetic fails, and an earlier form of
`RestartFaithful` did (the pressure of a cell at its floor may be set anew from the
energy). The states of `riemann` include both sides at rest, colliding and parting
faster than sound, and jumps of four in density and pressure. The waves of `problems`
have extents for which every angle is rational.

Deadlock is checked in every run but `problems` and `riemann`, whose program is a
function that returns: the end of a run is an explicit action
(`Terminated`, `Done`, `Stop`, `AllTagged`).

*Fairness.* `HydroDriver!Fairness`: a rank that can do something does something,
since `TaskCollection::Execute` polls its lists until all are complete; polling
includes `Incomplete`, so a rank whose tasks all wait may poll without
progress, and weak fairness of a rank must not be confused with fairness of a
task: while one task only is ready besides waiting ones, polling in turn gets to
it, which the model has as follows. `Incomplete` leaves every variable as it is,
so it is no step of `WF_vars(RankStep(r))`: the rank must eventually take one that
is. `EndCycle` is a collective that completes when every rank has entered it.
`FluxX2`: each thread of a team runs, as Kokkos guarantees for a team with
barriers. `Hysteresis`: the mesh adapts by its tags in some later cycle
(`WF_meshVars(Adapt)`), as Parthenon evaluates them periodically. The safety properties and refinements use no fairness.

*Findings.* 
1. `threshold`: `Initialize` reads `threshold_xyvelosity_gradient`; its message
   and the Kelvin-Helmholtz deck say `threshold_xyvelocity_gradient`. A deck that
   follows them is rejected. (The parameter is stored under the right name, so the
   criterion itself would find it: `CriterionHasParams` holds.)
2. `tlim`: with `test = true` the time limit is multiplied by the period and
   written back whenever a mesh is built; a restart multiplies it again. The guard
   against it is commented out in the source.

Seen while modelling, and stated by no run:

* `inputs/sod.in` names a problem `main` does not know; such a run starts on data no
  generator wrote, without a message.
* `VelocityGradient` has no case for one dimension, as `PressureGradient` has
  (`gradient.cpp` 54-56), and reads rows the block does not have; `StencilInBlock` and
  the proofs except it.
* The third Kelvin-Helmholtz profile has the thin medium in the middle, its description
  (`kh.cpp` 118) the dense one.
* The fifth adds a quarter of the squared momenta over the density (`kh.cpp` 264) where the others add
  half, so that its pressure is not the 5/2 of the comment above it but less wherever
  the gas moves. `ShearFlow` states this shortfall as an exception of the code; it does not
  say that the fifth flow has one pressure, and it has not.
* That comment, and the same one at the first profile (`kh.cpp` 82, 261), gives a sound speed of one with gamma
  1.4. With a pressure of 5/2 and a density of one it is the root of 3.5.
* The third profile reads `amp` from the block `problem` (`kh.cpp` 122), the others from
  `problem/kh`: a deck that gives it there stops with a missing key.
* `radius_inner` of the blast is subtracted from the outer radius (`blast.cpp` 51); the
  deck describes it as a radius.
* With `ang_3_vert` and no `ang_2` the wave vector is tilted out of x2, though the flag is
  there to "hardcode vertical (along x2 axis) wavevector" (`linear_wave.cpp` 103): half a
  wave fits x3, so that the data is not periodic there (`HalfTilted`, the exception of
  `WholeWaves`). On a plane mesh without angles the vector leaves the mesh (110-111).
* An angle of PI/2 from the deck, which the header of `linear_wave.cpp` suggests, gives a
  wavelength of zero; only the flags repair it.
* Families 1 to 3 stand still in a medium at rest, and the period is a division by
  their speed (`linear_wave.cpp` 165).
* The convergence test refuses the eight ranks its message allows (`convergence.py`
  70), and a NaN in its last row is not above the limit, so that it passes (140).

## 4. The proofs

All for every mesh topology, pack and rank layout, refinement levels, number of
stages and cycles and buffer size (`HydroDriver`), and for every block size, team
and division of the loops (`FluxX1`, `FluxX2`), from the named assumptions on the
constants: the neighbour relation is symmetric and irreflexive, every pack has a
rank and every block a pack; at least two ghost cells, as `Initialize` requires.

**HydroDriver.** The properties are not inductive: that an update sees one time
level depends on which messages are under way, and those on where two blocks of
different ranks are. The strengthening `IInv` uses one idea: everything the
program has computed is determined by how often each list has completed each
task since the start of the run. `Count(p, t)` is that number (the level the
rank's stage starts from, plus one if the task is done in this stage).
`Levels` says every zone's time level is the count of the task that writes it;
`Fluxes` says which level and resolution the flux arrays have; `BndMessages` and
`FluxMessages` say a buffer holds the messages sent and not yet unpacked, in
order, so its length is a difference of two counts; `Received` that a completed
receive has found a message in every buffer. `Order` says which tasks can be
done in the region the rank is in, which turns the dependencies into inequalities
between counts of one pack. The inequalities between neighbours come from the
buffers, whose length is not negative. From these follow `UpdateUsesOneTimeLevel`,
`Conservative` (the same count on both sides gives the same flux, at the finer
resolution), `BoundedInFlight` (two neighbours' counts differ by at most so
much), the two action properties, and the refinement of `BulkSync`.

**FluxX1.** `IInv`: no thread is past the barrier while one is before it, and
each pad entry and each flux is what the iterations already run put there.

**FluxX2.** `IInv`: the barriers a thread has reached are a function of its row
and position, and no thread is one ahead of another, so that while a thread
solves row j every other one is between the barriers of row j (`Together`); the
pad a pointer points to is a function of the row's parity; the pads of a column hold the last
two rows its thread reconstructed.

**Startup.** For every set of decks, any number of processes and any period. `IInv`
adds to the properties that the callbacks of a problem come together, that the
parameters stay once `Initialize` let the deck pass, that a restarted process has a
dump, that a process writes at most one row, and that a file which was just created is
empty. The rows are counted by a lemma on appending to a file (`OneMoreRow`).

**Eos.** For every number system with the three properties named in `Floats`, any
cells and ghosts, and any contents an update may leave. `SettledInv` is the idea:
what `FillDerived` has gone over is a fixed point of it, and gives back the same
density and velocities. It holds because the floors leave the momenta alone, the
floored density is not below its floor, and a floored energy either stays or is set
from the same kinetic energy to the same value. That a ghost agrees with its owner
follows from the functions being deterministic; the reductions are right about the
cells taken so far (`ReductionInv`).

**Criteria.** For every size of the block, number of dimensions (one or more), two
ghost cells and number system; the velocity criterion in more than one dimension
(section 3). The maximum is not below any cell taken and is attained by
one, so it is above the threshold exactly if a cell is. `WithinBlock` is arithmetic
on the ranges; `BothSides` says that the two columns at the face are in both loops.

**Hysteresis.** For all thresholds that pass the checks, all levels and values:
after an adaptation the measured value stays on its side of the gap between the two
thresholds (`GapInv`), because a factor of four, of two for the velocity and the
order of the two densities are no less than what a change of level does under the
assumption on the flow named in section 2.

**Rationals.** The other modules calculate with reduced fractions, which the prover does
not know. `Rationals_proofs` brings a statement about them to one about integers: a
fraction stands `Over` a pair of integers if it is their ratio in lowest terms, every
operation acts on such pairs as on fractions that are not reduced, and two fractions over one
pair are equal (`OverPlus`, `OverTimes`, `OverLess`, `OverEqual`). Beneath this is that
Euclid's recursion has a value for every pair of naturals and that it is the greatest
divisor. The library's induction cannot be cited; a least counterexample stands for it:
the greatest common divisor, as the definition of a function, satisfies the recursion,
and any function that does agrees with it, as the least pair on which it did not would
have an even lower one. Then `Field` and `Ordered` are arithmetic, by numerators over a
common denominator.

**Riemann.** For all states of positive density and pressure, every gamma above one, every
direction and every root that is right within a factor of two (`SqrtAssumption`).
`IInv` says a face holds what PLM and the solver make of its cells. `NoNewExtrema` is one case
for each sign of the two differences. The waves are apart (`WavesApart`) because a
shock can only add to the sound speed; so the difference the flux divides by is not zero
(`HLLFlux`). That the state between them is positive (`StateBetweenWaves`) follows from a
cone: densities, momenta and energies with a positive pressure are closed under sums, and
a wave which is at least as fast as sound carries either side into it.

**Problems.** For all decks, domains and tables with the assumptions of section 2.
`ProfileInv` and `WaveInv` say that what was written is that of one deck by the
formulas of its generator. `ShearFlow` goes profile by profile: the momenta are what they
are whatever the density, and the pressure one gets back is the one that went in, since
kinetic energy is subtracted as it was added, but for the quarter that the fifth leaves out
(`QuarterLeftOut`); the streams follow one tanh, or two, with the weight it gives to
either side, and where it is one in size its sign is that of its argument
(`Sides`, `Driven`). `ReflectShift` says that the average pairs x with
the same partner from either side (`AveSineShifted`), so that nothing is asked of the sine. It is about exact cell centers:
in the machine the mirror image is one to the last bit on the meshes whose centers are exact, for
most numbers of cells that are powers of two (`kh.cpp` 202-204).
`RampFalls` is monotone in the radius because the ramp's denominator has one
sign. `WholeWaves` is a case distinction on flags and default angles: a wave along the
diagonal has the same projection on every edge, and the switches override it.
`EigenvectorsFit` has two halves. Rows times columns: the sound speed of the
background is one, whatever gamma, so that its root is exact, and each product is a sum over
one common denominator. And the data: the perturbation is split along and across the wave,
the flux of a vector turned by the angles is the turned flux (`FluxAlong`, `FluxAcross`), and
what is left are three sums for each family, of which only sound has pressure.
`HonestRow` is about sums over all cells, in an order chosen as they are taken, which
no recursion over the cells defines here. Instead `RowInv` says what a sum and a maximum
tell of the cells they are of (`Tells`): a NaN among those has made the sum one; otherwise the
sum is zero exactly if no cell differs, and at most as large as the maximum times the
volume of that many cells. `Joined` shows that two ranks whose cells are disjoint tell
the same of the cells of both, of which counting a cell (`CellCounted`) and a step of the
reduction (`RanksReduced`) are instances; the ranks a rank speaks for (`from`) are disjoint
and include no other one whose loop still runs. The rank that writes speaks for all, the
cells fill the mesh (`MeshVolume`), and the columns follow. That the data compared is
a number at all needs a wavelength that is not zero, for every deck (`LambdaApart`).

Only model-checked: the liveness properties `RunCompletes`, `KernelEnds` and
`MeshSettles`, as liveness under fairness is outside what the prover handles. Every other
property of a passing run has its theorem.

## 5. Not modelled, and the plan

Not modelled: the rounding of PLM, HLLE and the generators (they are exact here); the
shock tube generator, which is not built; the registration of fields and parameters
nothing changes later; `MaxV2` in `linear_wave.cpp`, which nothing calls; the
convergence test, a script that runs the program and reads the rows whose content
`HonestRow` and `ErrorsFileKept` are about; the build; the mesh's remeshing and load balancing, which are
Parthenon's.

What the plan had and is done: `HydroDriver`, the kernels, `Startup`, `Eos`, PLM and
HLLE, the criteria and their hysteresis, the generators, and the proofs above. What it
has left:

1. Remeshing between cycles composed with `HydroDriver`: the tags the mesh adapts by
   are those of the cycle that ends, and a block that is created has the time
   level of its parent.
2. `Criteria` within `HydroDriver`: the zone a tag is decided by, now any zone of a
   block, taken from `Taken`.
3. The convergence test: the blocks it gives to a number of ranks, and its judgement
   over files of runs that failed.
4. The rounding of the error sums: in the machine the row of two runs on different
   numbers of ranks may differ in its last digits, and how much is not stated here.
