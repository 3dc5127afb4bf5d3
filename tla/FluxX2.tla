------------------------------- MODULE FluxX2 -------------------------------
(***************************************************************************)
(* The "x2 flux" and "x3 flux" kernels of CalculateFluxes (the same code   *)
(* with j or k as the outer index; j here).  A team marches through the    *)
(* rows j = js - 1 .. je + 1.  At each row Reconstruct writes the right    *)
(* state of the row's lower face to wr and the left state of its upper     *)
(* face to wlb; after a barrier RiemannSolver solves the lower face from   *)
(* wl, which holds what the previous row wrote, and wr; after another each *)
(* thread swaps ITS OWN pointers to the two left pads, and goes on.        *)
(*                                                                         *)
(* States are abstracted to the row they were reconstructed in, and the    *)
(* pads are uninitialized memory: Garbage until written.                   *)
(***************************************************************************)
EXTENDS Integers

CONSTANTS
  Threads,   \* the threads of the team
  Columns,   \* il .. iu, the iterations of the inner loops
  NGhost,    \* parthenon/mesh/nghost
  NX2,       \* interior rows of the block
  Share,     \* which thread runs column i of which inner loop
  Garbage    \* the content of memory nobody has written

js == NGhost
je == NGhost + NX2 - 1
Cells == 0 .. NX2 + 2 * NGhost - 1  \* the rows with their ghosts
Rows == js - 1 .. je + 1
Faces == (js .. je + 1) \X Columns  \* face <<j, i>> is the lower face of cell j, i

ASSUME SizeAssumption == NGhost \in Nat /\ NGhost >= 2 /\ NX2 \in Nat \ {0}
ASSUME ShareAssumption == Share \in [{"reconstruct", "riemann"} -> [Columns -> Threads]]
ASSUME GarbageAssumption == Garbage \notin Cells /\ Garbage \notin Cells \X Cells

Pads == {"p0", "p1"}                \* the two left pads wl and wlb point to

VARIABLES
  pc,       \* per thread: what it does next
  row,      \* per thread: its j
  todo,     \* per thread: the iterations of its inner loop it has still to run
  arrived,  \* per thread: how many barriers it has reached
  wlb,      \* per thread: the pad its wlb points to; its wl points to the other
  left,     \* the two left pads
  wr,       \* the right pad
  flux      \* cons.flux(IV2, ...): the two states each flux was computed from

vars == <<pc, row, todo, arrived, wlb, left, wr, flux>>

Other(p) == CHOOSE q \in Pads : q # p
wl(t) == Other(wlb[t])

\* par_for_inner divides the columns among the threads of the team.
Iterations(loop, t) == {i \in Columns : Share[loop][i] = t}

Init ==
  /\ pc = [t \in Threads |-> "reconstruct"]
  /\ row = [t \in Threads |-> js - 1]
  /\ todo = [t \in Threads |-> Iterations("reconstruct", t)]
  /\ arrived = [t \in Threads |-> 0]
  /\ wlb = [t \in Threads |-> "p0"]
  /\ left = [p \in Pads |-> [i \in Columns |-> Garbage]]
  /\ wr = [i \in Columns |-> Garbage]
  /\ flux = [f \in Faces |-> Garbage]

-----------------------------------------------------------------------------
(* Both states in the pads the barrier before the last loop protects.      *)
ReconstructInPlace(t) ==
  /\ pc[t] = "reconstruct"
  /\ \E i \in todo[t] :
       /\ todo' = [todo EXCEPT ![t] = @ \ {i}]
       /\ left' = [left EXCEPT ![wl(t)][i] = row[t]]
       /\ wr' = [wr EXCEPT ![i] = row[t]]
  /\ UNCHANGED <<pc, row, arrived, wlb, flux>>

\* PLM in row j, from rows j - 1, j and j + 1: ql(n, i) and qr(n, i).
Reconstruct(t) ==
  /\ pc[t] = "reconstruct"
  /\ \E i \in todo[t] :
       /\ todo' = [todo EXCEPT ![t] = @ \ {i}]
       /\ left' = [left EXCEPT ![wlb[t]][i] = row[t]]
       /\ wr' = [wr EXCEPT ![i] = row[t]]
  /\ UNCHANGED <<pc, row, arrived, wlb, flux>>

Arrive(t) ==
  /\ arrived' = [arrived EXCEPT ![t] = @ + 1]
  /\ UNCHANGED <<row, todo, wlb, left, wr, flux>>

ReachFirstBarrier(t) ==
  /\ pc[t] = "reconstruct" /\ todo[t] = {}
  /\ pc' = [pc EXCEPT ![t] = "barrier1"]
  /\ Arrive(t)

\* A thread leaves the barrier when every thread has reached as many as it has.
Open(t) == \A u \in Threads : arrived[u] >= arrived[t]

\* The first barrier, and the test of j > js - 1: the first row has no solve.
LeaveFirstBarrier(t) ==
  /\ pc[t] = "barrier1" /\ Open(t)
  /\ IF row[t] > js - 1
     THEN /\ pc' = [pc EXCEPT ![t] = "riemann"]
          /\ todo' = [todo EXCEPT ![t] = Iterations("riemann", t)]
     ELSE /\ pc' = [pc EXCEPT ![t] = "swap"]
          /\ UNCHANGED todo
  /\ UNCHANGED <<row, arrived, wlb, left, wr, flux>>

\* The Riemann problem of face j, i.
RiemannSolver(t) ==
  /\ pc[t] = "riemann"
  /\ \E i \in todo[t] :
       /\ todo' = [todo EXCEPT ![t] = @ \ {i}]
       /\ flux' = [flux EXCEPT ![<<row[t], i>>] = <<left[wl(t)][i], wr[i]>>]
  /\ UNCHANGED <<pc, row, arrived, wlb, left, wr>>

\* The second barrier left out: a thread goes straight to the swap.
SkipSecondBarrier(t) ==
  /\ pc[t] = "riemann" /\ todo[t] = {}
  /\ pc' = [pc EXCEPT ![t] = "swap"]
  /\ UNCHANGED <<row, todo, arrived, wlb, left, wr, flux>>

\* The second barrier only for a thread that had a face to solve.
ReachSecondBarrierBusy(t) ==
  /\ pc[t] = "riemann" /\ todo[t] = {}
  /\ IF Iterations("riemann", t) # {}
     THEN pc' = [pc EXCEPT ![t] = "barrier2"] /\ Arrive(t)
     ELSE pc' = [pc EXCEPT ![t] = "swap"]
          /\ UNCHANGED <<row, todo, arrived, wlb, left, wr, flux>>

ReachSecondBarrier(t) ==
  /\ pc[t] = "riemann" /\ todo[t] = {}
  /\ pc' = [pc EXCEPT ![t] = "barrier2"]
  /\ Arrive(t)

LeaveSecondBarrier(t) ==
  /\ pc[t] = "barrier2" /\ Open(t)
  /\ pc' = [pc EXCEPT ![t] = "swap"]
  /\ UNCHANGED <<row, todo, arrived, wlb, left, wr, flux>>

\* One row too many.
SwapOneMore(t) ==
  /\ pc[t] = "swap"
  /\ wlb' = [wlb EXCEPT ![t] = wl(t)]
  /\ row' = [row EXCEPT ![t] = @ + 1]
  /\ IF row[t] = je + 2
     THEN pc' = [pc EXCEPT ![t] = "done"] /\ UNCHANGED todo
     ELSE /\ pc' = [pc EXCEPT ![t] = "reconstruct"]
          /\ todo' = [todo EXCEPT ![t] = Iterations("reconstruct", t)]
  /\ UNCHANGED <<arrived, left, wr, flux>>

\* assign_data: the thread's wl and wlb change places, and j is incremented.
Swap(t) ==
  /\ pc[t] = "swap"
  /\ wlb' = [wlb EXCEPT ![t] = wl(t)]
  /\ row' = [row EXCEPT ![t] = @ + 1]
  /\ IF row[t] = je + 1
     THEN pc' = [pc EXCEPT ![t] = "done"] /\ UNCHANGED todo
     ELSE /\ pc' = [pc EXCEPT ![t] = "reconstruct"]
          /\ todo' = [todo EXCEPT ![t] = Iterations("reconstruct", t)]
  /\ UNCHANGED <<arrived, left, wr, flux>>

KernelOver == \A t \in Threads : pc[t] = "done"
Done == KernelOver /\ UNCHANGED vars

ThreadStep(t) ==
  \/ Reconstruct(t) \/ ReachFirstBarrier(t) \/ LeaveFirstBarrier(t)
  \/ RiemannSolver(t) \/ ReachSecondBarrier(t) \/ LeaveSecondBarrier(t) \/ Swap(t)

Next == (\E t \in Threads : ThreadStep(t)) \/ Done

Spec == Init /\ [][Next]_vars /\ \A t \in Threads : WF_vars(ThreadStep(t))

-----------------------------------------------------------------------------
(* What a thread may still touch in the loop it is in.  Prims are only     *)
(* read, from rows j - 1 to j + 1: the ghosts FluxX1!InBounds is about.    *)

Reads(t) == IF pc[t] = "riemann" THEN {wl(t), "wr"} \X todo[t] ELSE {}

Writes(t) ==
  IF pc[t] = "reconstruct" THEN {wlb[t], "wr"} \X todo[t]
  ELSE IF pc[t] = "riemann" THEN {"flux"} \X ({row[t]} \X todo[t])
  ELSE {}

\* Every variable has the type its declaration says.
TypeOK ==
  /\ pc \in [Threads -> {"reconstruct", "barrier1", "riemann", "barrier2", "swap", "done"}]
  /\ row \in [Threads -> js - 1 .. je + 2]
  /\ todo \in [Threads -> SUBSET Columns]
  /\ arrived \in [Threads -> 0 .. 2 * (je - js) + 5]
  /\ wlb \in [Threads -> Pads]
  /\ left \in [Pads -> [Columns -> Rows \cup {Garbage}]]
  /\ wr \in [Columns -> Rows \cup {Garbage}]
  /\ flux \in [Faces -> (((Rows \cup {Garbage}) \X (Rows \cup {Garbage})) \cup {Garbage})]

\* No two threads race on a pad or a flux, although they swap their pointers
\* at different times and one may reconstruct the next row while another has
\* not left the barrier of this one.
NoDataRace ==
  \A t, u \in Threads : t # u => Writes(t) \cap (Reads(u) \cup Writes(u)) = {}

\* Two threads of a team in the same loop of the sweep are in the same row and
\* agree which of the two left pads is which.
PointersAgree ==
  \A t, u \in Threads :
    (pc[t] = pc[u] /\ pc[t] \in {"reconstruct", "riemann"}) => row[t] = row[u] /\ wlb[t] = wlb[u]

\* Each face's flux comes from the rows on its two sides, never from a stale or
\* an uninitialized pad, and at the end none is missing.
FaceStates ==
  /\ \A f \in Faces : flux[f] # Garbage => flux[f] = <<f[1] - 1, f[1]>>
  /\ KernelOver => \A f \in Faces : flux[f] # Garbage

\* A thread in a loop has only columns of its own share left.
Shares ==
  \A t \in Threads :
    /\ pc[t] \in {"reconstruct", "riemann"} => todo[t] \subseteq Iterations(pc[t], t)
    /\ pc[t] \in {"riemann", "barrier2"} => row[t] >= js
    /\ pc[t] = "done" <=> row[t] = je + 2

\* The barriers a thread has reached when it begins row j.
Before(j) == IF j < js THEN 0 ELSE 2 * (j - js) + 1

\* A thread in or beyond a barrier counts it, and a thread beyond one has been
\* followed there by all the others.
BarriersHold ==
  /\ \A t \in Threads :
       arrived[t] = Before(row[t]) + CASE pc[t] \in {"reconstruct", "done"} -> 0
                                       [] pc[t] \in {"barrier1", "riemann"} -> 1
                                       [] pc[t] = "barrier2" -> 2
                                       [] pc[t] = "swap" -> IF row[t] < js THEN 1 ELSE 2
  /\ \A t, u \in Threads :
       arrived[u] >= arrived[t] - IF pc[t] \in {"barrier1", "barrier2"} THEN 1 ELSE 0

\* The left pad that row j is reconstructed in.
LeftPad(j) == IF (j - js) % 2 = 1 THEN "p0" ELSE "p1"

\* The last row column i has been reconstructed in.
LastRow(i) ==
  LET t == Share["reconstruct"][i] IN
  IF pc[t] = "done" \/ (pc[t] = "reconstruct" /\ i \in todo[t]) THEN row[t] - 1 ELSE row[t]

PadsFilled ==
  /\ \A t \in Threads : wlb[t] = LeftPad(row[t])
  /\ \A i \in Columns :
       /\ LastRow(i) >= js - 1 => wr[i] = LastRow(i) /\ left[LeftPad(LastRow(i))][i] = LastRow(i)
       /\ LastRow(i) >= js => left[LeftPad(LastRow(i) - 1)][i] = LastRow(i) - 1

\* The thread whose share column i is has solved face <<j, i>>.
Solved(j, i) ==
  LET t == Share["riemann"][i] IN
  \/ j < row[t]
  \/ j = row[t] /\ (pc[t] \in {"barrier2", "swap"} \/ (pc[t] = "riemann" /\ i \notin todo[t]))

FluxesSolved ==
  \A j \in js .. je + 1, i \in Columns :
    flux[<<j, i>>] = IF Solved(j, i) THEN <<j - 1, j>> ELSE Garbage

\* The inductive invariant: pads and fluxes follow from where each thread is,
\* and no thread is a barrier ahead of another.
IInv == TypeOK /\ Shares /\ BarriersHold /\ PadsFilled /\ FluxesSolved

\* The kernel ends: the barriers, one in the first row and two in the others,
\* never leave a thread waiting.
KernelEnds == <>KernelOver

\* The kernel solves each face once: it implements FaceFluxes.
Abstract == INSTANCE FaceFluxes WITH
  Unsolved <- Garbage, Solution <- [f \in Faces |-> <<f[1] - 1, f[1]>>]

ImplementsFaceFluxes == Abstract!Spec
=============================================================================
