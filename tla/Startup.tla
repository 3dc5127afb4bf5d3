------------------------------ MODULE Startup ------------------------------
(***************************************************************************)
(* The life of a simulation process and what outlives it.  main reads an   *)
(* input deck or a restart dump, picks the callbacks of the problem, has   *)
(* Parthenon call Initialize, InitUserMeshData and the problem generator,  *)
(* runs the driver and calls UserWorkAfterLoop.  A process may be killed   *)
(* at any point; the restart dump and linearwave-errors.dat stay, and the  *)
(* next process starts from them.                                          *)
(***************************************************************************)
EXTENDS Integers, Sequences, FiniteSets

CONSTANTS
  Decks,    \* the input decks in use, records (see DeckType)
  Period,   \* lambda / |ev[wave_flag]|, in units of time
  MaxJobs,  \* bound: processes started
  MaxTime,  \* bound: no time limit beyond it is followed
  None

Problems == {"linear_wave", "blast", "kh"}
Callbacks == {"InitUserMeshData", "ProblemGenerator", "UserWorkAfterLoop"}

\* What the code tells decks apart by: "has" names the keys read without a
\* default, "keys" the refinement thresholds the deck sets.
Thresholds ==
  {"threshold_pressure_gradient", "threshold_xyvelocity_gradient", "threshold_xyvelosity_gradient",
   "maxdensity_deref_below", "maxdensity_refine_above"}
DeckType ==
  [problem : STRING, refinement : STRING, has : SUBSET {"nghost", "gamma", "linear_wave"},
   keys : [Thresholds -> Int \cup {None}],
   nghost : Nat, tlim : Nat, test : BOOLEAN, compute_error : BOOLEAN]

ASSUME DecksAssumption == Decks \subseteq DeckType
ASSUME NoneAssumption ==
  None \notin Problems /\ None \notin Seq({"header", "row"})
  /\ None \notin [deck : Decks, pin : DeckType, time : 0 .. MaxTime, cells : Problems \cup {None}]
ASSUME BoundsAssumption == Period \in Nat /\ MaxJobs \in Nat /\ MaxTime \in Nat

VARIABLES
  pc,      \* the function the process is about to call, or "idle"
  jobs,    \* how many processes have been started
  fresh,   \* the process was started from a deck, not from a restart dump
  deck,    \* the deck the job goes back to
  pin,     \* ParameterInput: the deck as the process has changed it
  hooks,   \* app_input: per callback, the problem it belongs to
  params,  \* names of the refinement parameters of the Hydro package
  wave,    \* the globals of linear_wave.cpp are set
  cells,   \* the problem that generated the data on the mesh
  time,    \* SimTime::time
  dump,    \* the restart file, or None
  errors,  \* linearwave-errors.dat, or None: its lines
  finished \* runs that were to append to it and returned from main

process == <<fresh, deck, pin, hooks, params, wave, cells, time>>
disk == <<dump, errors, finished>>
vars == <<pc, jobs, process, disk>>

NoHooks == [c \in Callbacks |-> None]

Init ==
  /\ pc = "idle" /\ jobs = 0 /\ fresh = TRUE
  /\ deck \in Decks /\ pin = deck
  /\ hooks = NoHooks /\ params = {} /\ wave = FALSE
  /\ cells = None /\ time = 0
  /\ dump = None /\ errors = None /\ finished = 0

-----------------------------------------------------------------------------
(* Starting a process: nothing in memory survives the one before.          *)

Start ==
  /\ pc = "idle" /\ jobs < MaxJobs
  /\ pc' = "main" /\ jobs' = jobs + 1
  /\ hooks' = NoHooks /\ params' = {} /\ wave' = FALSE /\ cells' = None
  /\ UNCHANGED disk

Launch ==
  /\ Start
  /\ fresh' = TRUE
  /\ \E d \in Decks : deck' = d /\ pin' = d
  /\ time' = 0

\* The parameters come from the dump, as the process that wrote it held them.
Restart ==
  /\ Start
  /\ dump # None
  /\ fresh' = FALSE
  /\ deck' = dump.deck /\ pin' = dump.pin /\ time' = dump.time

\* PARTHENON_FAIL, PARTHENON_REQUIRE, a missing key, or a kill.
Abort ==
  /\ pc' = "idle"
  /\ UNCHANGED <<jobs, process, disk>>

Kill == pc # "idle" /\ Abort

-----------------------------------------------------------------------------
\* main: the chain of problem_id comparisons, which falls through silently.
Dispatch ==
  /\ pc = "main"
  /\ pc' = "Initialize"
  /\ hooks' = [c \in Callbacks |->
       IF \/ pin.problem = "linear_wave"
          \/ pin.problem \in {"blast", "kh"} /\ c = "ProblemGenerator"
       THEN pin.problem ELSE None]
  /\ UNCHANGED <<jobs, fresh, deck, pin, params, wave, cells, time, disk>>

\* The keys Initialize reads for a criterion, as it spells them.
ThresholdKeys(type) ==
  CASE type = "pressure_gradient" -> {"threshold_pressure_gradient"}
    [] type = "xyvelocity_gradient" -> {"threshold_xyvelosity_gradient"}
    [] type = "maxdensity" -> {"maxdensity_deref_below", "maxdensity_refine_above"}
    [] OTHER -> {}

GetOrAddReal(key, default) == IF pin.keys[key] # None THEN pin.keys[key] ELSE default

ThresholdsValid ==
  /\ \A k \in ThresholdKeys(pin.refinement) : GetOrAddReal(k, 0) > 0
  /\ pin.refinement = "maxdensity" =>
       GetOrAddReal("maxdensity_deref_below", 0) < GetOrAddReal("maxdensity_refine_above", 0)

DeckValid ==
  /\ {"nghost", "gamma"} \subseteq pin.has
  /\ pin.nghost >= 2
  /\ ThresholdsValid

\* AddParam under the key that was read.
ParamsAddedAsRead(type) == ThresholdKeys(type)

\* AddParam: the names the parameters are stored under.
ParamsAdded(type) ==
  IF type = "xyvelocity_gradient" THEN {"threshold_xyvelocity_gradient"} ELSE ThresholdKeys(type)

\* The parameters the criterion of this type looks up each time it runs.
ParamsRead(type) ==
  CASE type = "pressure_gradient" -> {"threshold_pressure_gradient"}
    [] type = "xyvelocity_gradient" -> {"threshold_xyvelocity_gradient"}
    [] type = "maxdensity" -> {"maxdensity_deref_below", "maxdensity_refine_above"}
    [] OTHER -> {}

Initialize ==
  /\ pc = "Initialize"
  /\ \/ /\ DeckValid
        /\ pc' = "InitUserMeshData"
        /\ params' = ParamsAdded(pin.refinement)
        /\ UNCHANGED <<jobs, fresh, deck, pin, hooks, wave, cells, time, disk>>
     \/ ~DeckValid /\ Abort

\* The globals and the time limit only for a new run.
InitUserMeshDataNewRun ==
  /\ pc = "InitUserMeshData"
  /\ pc' = "ProblemGenerator"
  /\ IF hooks["InitUserMeshData"] = None \/ ~fresh
     THEN UNCHANGED process
     ELSE /\ wave' = TRUE
          /\ pin' = [pin EXCEPT !.tlim = IF pin.test THEN Period * @ ELSE @]
          /\ UNCHANGED <<fresh, deck, hooks, params, cells, time>>
  /\ UNCHANGED <<jobs, disk>>

\* Called while the mesh is constructed, for a new run and for a restart alike.
\* With "test", tlim is read as a number of periods and the product written back.
InitUserMeshData ==
  /\ pc = "InitUserMeshData"
  /\ IF hooks["InitUserMeshData"] = None
     THEN /\ pc' = "ProblemGenerator"
          /\ UNCHANGED <<jobs, process, disk>>
     ELSE \/ "linear_wave" \notin pin.has /\ Abort
          \/ /\ "linear_wave" \in pin.has
             /\ pc' = "ProblemGenerator" /\ wave' = TRUE
             /\ IF pin.test
                THEN pin' = [pin EXCEPT !.tlim = Period * @]
                ELSE UNCHANGED pin
             /\ UNCHANGED <<jobs, fresh, deck, hooks, params, cells, time, disk>>

\* The deck's word taken for what is on the mesh.
ProblemGeneratorNamed ==
  /\ pc = "ProblemGenerator"
  /\ pc' = "Execute"
  /\ cells' = IF fresh THEN pin.problem ELSE dump.cells
  /\ UNCHANGED <<jobs, fresh, deck, pin, hooks, params, wave, time, disk>>

\* A new run calls the generator, if there is one; a restart reads the dump. A
\* generator that misses a key of its own block ends the process as Kill does.
ProblemGenerator ==
  /\ pc = "ProblemGenerator"
  /\ pc' = "Execute"
  /\ cells' = IF fresh THEN hooks["ProblemGenerator"] ELSE dump.cells
  /\ UNCHANGED <<jobs, fresh, deck, pin, hooks, params, wave, time, disk>>

-----------------------------------------------------------------------------
\* The driver's loop; the last step is shortened to end at tlim.
Cycle ==
  /\ pc = "Execute" /\ time < pin.tlim /\ time < MaxTime
  /\ time' = time + 1
  /\ UNCHANGED <<pc, jobs, fresh, deck, pin, hooks, params, wave, cells, disk>>

WriteRestart ==
  /\ pc = "Execute"
  /\ dump' = [deck |-> deck, pin |-> pin, time |-> time, cells |-> cells]
  /\ UNCHANGED <<pc, jobs, process, errors, finished>>

\* At tlim, at parthenon/time/nlim or on a signal: after any cycle.
LeaveLoop ==
  /\ pc = "Execute"
  /\ pc' = IF hooks["UserWorkAfterLoop"] # None /\ pin.compute_error THEN "fopen" ELSE "exit"
  /\ UNCHANGED <<jobs, process, disk>>

\* Rank 0 always opens the file for writing from its start.
OpenErrorsAnew ==
  /\ pc = "fopen"
  /\ errors' = <<>>
  /\ pc' = "fprintf header"
  /\ UNCHANGED <<jobs, process, dump, finished>>

\* Rank 0 reopens the file to append, or creates it: its lines stay in the
\* stream's buffer until fclose.
OpenErrors ==
  /\ pc = "fopen"
  /\ errors' = IF errors = None THEN <<>> ELSE errors
  /\ pc' = IF errors = None THEN "fprintf header" ELSE "fprintf"
  /\ UNCHANGED <<jobs, process, dump, finished>>

\* The row, after the header in a new file, up to fclose.
WriteErrors ==
  /\ pc \in {"fprintf header", "fprintf"}
  /\ errors' = errors \o (IF pc = "fprintf header" THEN <<"header">> ELSE <<>>) \o <<"row">>
  /\ pc' = "exit"
  /\ finished' = finished + 1
  /\ UNCHANGED <<jobs, process, dump>>

\* ParthenonFinalize and return 0.
Exit == pc = "exit" /\ Abort

Stop == pc = "idle" /\ jobs = MaxJobs /\ UNCHANGED vars

Next ==
  \/ Launch \/ Restart \/ Kill
  \/ Dispatch \/ Initialize \/ InitUserMeshData \/ ProblemGenerator
  \/ Cycle \/ WriteRestart \/ LeaveLoop \/ OpenErrors \/ WriteErrors \/ Exit \/ Stop

Spec == Init /\ [][Next]_vars

-----------------------------------------------------------------------------
Running == pc \in {"Execute", "fopen", "fprintf header", "fprintf", "exit"}

\* Every variable has the type its declaration says.
TypeOK ==
  /\ pc \in {"idle", "main", "Initialize", "InitUserMeshData", "ProblemGenerator",
             "Execute", "fopen", "fprintf header", "fprintf", "exit"}
  /\ jobs \in 0 .. MaxJobs /\ fresh \in BOOLEAN
  /\ deck \in Decks /\ pin \in DeckType
  /\ hooks \in [Callbacks -> Problems \cup {None}]
  /\ params \in SUBSET Thresholds /\ wave \in BOOLEAN
  /\ cells \in Problems \cup {None}
  /\ time \in 0 .. MaxTime
  /\ dump # None => dump \in [deck : Decks, pin : DeckType, time : 0 .. MaxTime, cells : Problems \cup {None}]
  /\ errors # None => errors \in Seq({"header", "row"})
  /\ finished \in 0 .. MaxJobs

\* The analytic solution UserWorkAfterLoop compares with, and the generator
\* starts from, is held in globals of the process: a restarted process, which
\* runs no generator, has set them again before either reads them.
WaveReady ==
  (pc = "ProblemGenerator" \/ Running) /\ hooks["UserWorkAfterLoop"] = "linear_wave" => wave

\* The refinement criterion, which the cycles of this process call, finds every
\* parameter it looks up by name, whatever deck or dump the process came from.
CriterionHasParams == Running => ParamsRead(pin.refinement) \subseteq params

\* The errors file has one row for every run that got to write it, however many
\* were killed or restarted in between, and no header but in its first line.
ErrorsFileKept ==
  /\ finished > 0 => errors # None
  /\ errors # None =>
       /\ \A i \in 1 .. Len(errors) : errors[i] = "header" => i = 1
       /\ Cardinality({i \in 1 .. Len(errors) : errors[i] = "row"}) = finished

-----------------------------------------------------------------------------
(* The inductive invariant.                                                *)

\* The callbacks of a problem come together.
HooksInv ==
  hooks["UserWorkAfterLoop"] # None => hooks["InitUserMeshData"] # None

\* Once Initialize has let the deck pass, its parameters stay.
ParamsInv ==
  pc \in {"InitUserMeshData", "ProblemGenerator"} => ParamsRead(pin.refinement) \subseteq params

\* A restarted process has a dump to go back to.
DumpInv == fresh \/ dump # None

\* A process adds to the file at most once.
CountInv ==
  /\ finished <= jobs
  /\ pc \notin {"idle", "exit"} => finished < jobs

\* A file that was just created is empty, and one that is open exists.
FileInv ==
  /\ pc = "fprintf header" => errors = <<>>
  /\ pc = "fprintf" => errors # None

IInv ==
  /\ TypeOK /\ WaveReady /\ CriterionHasParams /\ ErrorsFileKept
  /\ HooksInv /\ ParamsInv /\ DumpInv /\ CountInv /\ FileInv

-----------------------------------------------------------------------------
(* What the decks and the comments say, and the code does not do.          *)

\* A deck that sets the threshold the failure message and the shipped deck name
\* is not rejected: its run never ends in Initialize.
DocumentedThresholdAccepted ==
  pc = "Initialize" /\ {"nghost", "gamma"} \subseteq pin.has /\ pin.nghost >= 2
      /\ pin.refinement = "xyvelocity_gradient"
      /\ GetOrAddReal("threshold_xyvelocity_gradient", 0) > 0
    => DeckValid

\* With "test" the time limit of a run is the deck's number of periods, in a
\* restarted run too.
TlimInPeriods ==
  Running /\ hooks["InitUserMeshData"] = "linear_wave" /\ pin.test
    => pin.tlim = Period * deck.tlim
=============================================================================
