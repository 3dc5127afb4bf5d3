------------------------------- MODULE FluxX1 -------------------------------
(***************************************************************************)
(* The "x1 flux" kernel of CalculateFluxes: one team of threads sweeps a   *)
(* row of cells.  Reconstruct writes, for every cell, the right state of   *)
(* its lower face and the left state of its upper face into scratch pads   *)
(* the team shares; after a barrier RiemannSolver reads both states of a   *)
(* face.  Teams of different rows and blocks share nothing they write.     *)
(*                                                                         *)
(* States are abstracted to the cell they were reconstructed in.  The pads *)
(* are uninitialized memory: Garbage until written.                        *)
(***************************************************************************)
EXTENDS Integers

CONSTANTS
  Threads,   \* the threads of the team
  NGhost,    \* parthenon/mesh/nghost
  NX1,       \* interior cells of the row
  Share,     \* which thread runs iteration i of which loop
  Garbage    \* the content of memory nobody has written

is == NGhost
ie == NGhost + NX1 - 1
nx1 == NX1 + 2 * NGhost             \* ncellsi(IndexDomain::entire)
Cells == 0 .. nx1 - 1
Faces == is .. ie + 1               \* face i is the lower face of cell i

ASSUME SizeAssumption == NGhost \in Nat /\ NGhost >= 2 /\ NX1 \in Nat \ {0}
ASSUME ShareAssumption == Share \in [{"reconstruct", "riemann"} -> [Cells -> Threads]]
ASSUME GarbageAssumption == Garbage \notin Cells /\ Garbage \notin Cells \X Cells

VARIABLES
  pc,     \* per thread: the loop it is in
  todo,   \* per thread: the iterations of that loop it has still to run
  wl,     \* scratch pad: left state of each face
  wr,     \* scratch pad: right state of each face
  flux    \* cons.flux(IV1, ...): the two states each flux was computed from

vars == <<pc, todo, wl, wr, flux>>

\* par_for_inner divides the iterations among the threads of the team.
Iterations(loop, range, t) == {i \in range : Share[loop][i] = t}

\* One iteration too many on the right.
ReconstructRangeWide == is - 1 .. ie + 2
RiemannRangeWide == is .. ie + 2

ReconstructRange == is - 1 .. ie + 1
RiemannRange == is .. ie + 1

Init ==
  /\ pc = [t \in Threads |-> "reconstruct"]
  /\ todo = [t \in Threads |-> Iterations("reconstruct", ReconstructRange, t)]
  /\ wl = [i \in Cells |-> Garbage]
  /\ wr = [i \in Cells |-> Garbage]
  /\ flux = [i \in Faces |-> Garbage]

\* The left state stored at the lower face of its own cell.
ReconstructUnshifted(t) ==
  /\ pc[t] = "reconstruct"
  /\ \E i \in todo[t] :
       /\ todo' = [todo EXCEPT ![t] = @ \ {i}]
       /\ wl' = [wl EXCEPT ![i] = i]
       /\ wr' = [wr EXCEPT ![i] = i]
  /\ UNCHANGED <<pc, flux>>

\* PLM in cell i, from cells i - 1, i and i + 1: ql(n, i + 1) and qr(n, i).
Reconstruct(t) ==
  /\ pc[t] = "reconstruct"
  /\ \E i \in todo[t] :
       /\ todo' = [todo EXCEPT ![t] = @ \ {i}]
       /\ wl' = [wl EXCEPT ![i + 1] = i]
       /\ wr' = [wr EXCEPT ![i] = i]
  /\ UNCHANGED <<pc, flux>>

EnterBarrier(t) ==
  /\ pc[t] = "reconstruct" /\ todo[t] = {}
  /\ pc' = [pc EXCEPT ![t] = "barrier"]
  /\ UNCHANGED <<todo, wl, wr, flux>>

\* No barrier: a thread goes on as soon as its own share is done.
LeaveBarrierAlone(t) ==
  /\ pc[t] = "barrier"
  /\ pc' = [pc EXCEPT ![t] = "riemann"]
  /\ todo' = [todo EXCEPT ![t] = Iterations("riemann", RiemannRange, t)]
  /\ UNCHANGED <<wl, wr, flux>>

\* member.team_barrier(): a thread leaves it when all have reached it.
LeaveBarrier(t) ==
  /\ pc[t] = "barrier" /\ \A u \in Threads : pc[u] # "reconstruct"
  /\ pc' = [pc EXCEPT ![t] = "riemann"]
  /\ todo' = [todo EXCEPT ![t] = Iterations("riemann", RiemannRange, t)]
  /\ UNCHANGED <<wl, wr, flux>>

\* The Riemann problem of face i.
RiemannSolver(t) ==
  /\ pc[t] = "riemann"
  /\ \E i \in todo[t] :
       /\ todo' = [todo EXCEPT ![t] = @ \ {i}]
       /\ flux' = [flux EXCEPT ![i] = <<wl[i], wr[i]>>]
  /\ UNCHANGED <<pc, wl, wr>>

Finish(t) ==
  /\ pc[t] = "riemann" /\ todo[t] = {}
  /\ pc' = [pc EXCEPT ![t] = "done"]
  /\ UNCHANGED <<todo, wl, wr, flux>>

KernelOver == \A t \in Threads : pc[t] = "done"
Done == KernelOver /\ UNCHANGED vars

ThreadStep(t) ==
  \/ Reconstruct(t) \/ EnterBarrier(t) \/ LeaveBarrier(t) \/ RiemannSolver(t) \/ Finish(t)

Next == (\E t \in Threads : ThreadStep(t)) \/ Done

Spec == Init /\ [][Next]_vars

-----------------------------------------------------------------------------
(* What a thread may still touch before it meets the others again.         *)

Reads(t) ==
  IF pc[t] = "reconstruct" THEN {<<"prim", i + d>> : i \in todo[t], d \in {-1, 0, 1}}
  ELSE IF pc[t] = "riemann" THEN {<<"wl", i>> : i \in todo[t]} \cup {<<"wr", i>> : i \in todo[t]}
  ELSE {}

Writes(t) ==
  IF pc[t] = "reconstruct" THEN {<<"wl", i + 1>> : i \in todo[t]} \cup {<<"wr", i>> : i \in todo[t]}
  ELSE IF pc[t] = "riemann" THEN {<<"flux", i>> : i \in todo[t]}
  ELSE {}

\* Prims and scratch pads span the row with its ghost cells, fluxes its faces.
Allocated == ({"prim", "wl", "wr"} \X Cells) \cup ({"flux"} \X Faces)

\* Every variable has the type its declaration says.
TypeOK ==
  /\ pc \in [Threads -> {"reconstruct", "barrier", "riemann", "done"}]
  /\ todo \in [Threads -> SUBSET ReconstructRange]
  /\ wl \in [Cells -> Cells \cup {Garbage}]
  /\ wr \in [Cells -> Cells \cup {Garbage}]
  /\ flux \in [Faces -> ((Cells \cup {Garbage}) \X (Cells \cup {Garbage})) \cup {Garbage}]

\* No two threads race on a scratch pad or a flux: nothing one may write before
\* the next barrier is read or written by another, although Reconstruct writes
\* wl(i + 1) from the iteration of cell i.
NoDataRace ==
  \A t, u \in Threads : t # u => Writes(t) \cap (Reads(u) \cup Writes(u)) = {}

\* With the two ghost cells Initialize insists on, the loop limits, one cell
\* wider than the interior on each side, stay within every array.
InBounds == \A t \in Threads : Reads(t) \cup Writes(t) \subseteq Allocated

\* Each face's flux comes from the cells on its two sides, never from scratch
\* memory another thread has not filled yet, and at the end none is missing.
FaceStates ==
  /\ \A i \in Faces : flux[i] # Garbage => flux[i] = <<i - 1, i>>
  /\ KernelOver => \A i \in Faces : flux[i] # Garbage

\* A thread in a loop has only iterations of its own share left.
Shares ==
  \A t \in Threads :
    /\ pc[t] = "reconstruct" => todo[t] \subseteq Iterations("reconstruct", ReconstructRange, t)
    /\ pc[t] = "riemann" => todo[t] \subseteq Iterations("riemann", RiemannRange, t)
    /\ pc[t] \in {"barrier", "done"} => todo[t] = {}

\* No thread is beyond the barrier while another has not reached it.
BarrierHolds ==
  (\E u \in Threads : pc[u] = "reconstruct") => \A t \in Threads : pc[t] \in {"reconstruct", "barrier"}

\* Iteration i of a loop is still to be run by the thread whose share it is.
Ahead(loop, i) == LET t == Share[loop][i] IN pc[t] = loop /\ i \in todo[t]

PadsFilled ==
  \A i \in ReconstructRange : ~Ahead("reconstruct", i) => wl[i + 1] = i /\ wr[i] = i

FluxesSolved ==
  \A i \in Faces :
    flux[i] = IF pc[Share["riemann"][i]] \in {"reconstruct", "barrier"} \/ Ahead("riemann", i)
              THEN Garbage ELSE <<i - 1, i>>

\* The inductive invariant: what is in the pads and the fluxes is what the
\* iterations that have been run put there.
IInv == TypeOK /\ Shares /\ BarrierHolds /\ PadsFilled /\ FluxesSolved

\* The kernel solves each face once: it implements FaceFluxes.
Abstract == INSTANCE FaceFluxes WITH
  Unsolved <- Garbage, Solution <- [i \in Faces |-> <<i - 1, i>>]

ImplementsFaceFluxes == Abstract!Spec
=============================================================================
