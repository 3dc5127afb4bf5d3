---------------------------- MODULE FluxX1_proofs ----------------------------
(***************************************************************************)
(* The x1 kernel is correct for every row, team and division of the loops: *)
(* FluxX1!IInv is inductive, and implies that threads do not race, stay    *)
(* within the arrays, and solve each face once from its own two cells.     *)
(***************************************************************************)
EXTENDS FluxX1, TLAPS

LEMMA SizeFacts ==
  /\ is \in Nat /\ ie \in Nat /\ nx1 \in Nat /\ is >= 2 /\ is <= ie /\ nx1 >= ie + 3
  /\ Cells \subseteq Nat /\ ReconstructRange \subseteq Cells
  /\ RiemannRange = Faces /\ Faces \subseteq ReconstructRange
  /\ \A i \in ReconstructRange : i + 1 \in Cells /\ i - 1 \in Cells
  /\ ReconstructRange \subseteq Int /\ \A i \in ReconstructRange : i + (-1) \in Cells /\ i + 0 = i
  /\ \A i \in Faces : i \in Int /\ i - 1 \in ReconstructRange /\ (i - 1) + 1 = i
BY SizeAssumption DEF is, ie, nx1, Cells, Faces, ReconstructRange, RiemannRange

LEMMA ShareFacts ==
  \A i \in Cells : Share["reconstruct"][i] \in Threads /\ Share["riemann"][i] \in Threads
BY ShareAssumption

\* The initial state satisfies the invariant.
LEMMA InitInv == Init => IInv
<1> SUFFICES ASSUME Init PROVE IInv
  OBVIOUS
<1>1. TypeOK
  BY SizeFacts DEF Init, TypeOK, Iterations
<1>2. Shares /\ BarrierHolds
  BY DEF Init, Shares, BarrierHolds
<1>3. PadsFilled
  BY SizeFacts, ShareFacts DEF Init, PadsFilled, Ahead, Iterations
<1>4. FluxesSolved
  BY SizeFacts, ShareFacts DEF Init, FluxesSolved
<1> QED BY <1>1, <1>2, <1>3, <1>4 DEF IInv

LEMMA StepInv == IInv /\ [Next]_vars => IInv'
<1> SUFFICES ASSUME IInv, [Next]_vars PROVE IInv'
  OBVIOUS
<1> USE SizeFacts, ShareFacts
<1>1. ASSUME NEW t \in Threads, Reconstruct(t) PROVE IInv'
  <2> PICK i \in todo[t] : /\ todo' = [todo EXCEPT ![t] = @ \ {i}]
                           /\ wl' = [wl EXCEPT ![i + 1] = i]
                           /\ wr' = [wr EXCEPT ![i] = i]
    BY <1>1 DEF Reconstruct
  <2>1. pc[t] = "reconstruct" /\ pc' = pc /\ flux' = flux
    BY <1>1 DEF Reconstruct
  <2>2. i \in ReconstructRange /\ Share["reconstruct"][i] = t
    BY <2>1 DEF IInv, Shares, Iterations
  <2>3. TypeOK'
    BY <2>1, <2>2 DEF IInv, TypeOK
  <2>4. Shares' /\ BarrierHolds'
    BY <2>1 DEF IInv, TypeOK, Shares, BarrierHolds
  <2>5. PadsFilled'
    <3> SUFFICES ASSUME NEW k \in ReconstructRange, ~Ahead("reconstruct", k)'
                 PROVE (wl[k + 1] = k /\ wr[k] = k)'
      BY DEF PadsFilled
    <3>1. CASE k = i
      BY <2>2, <3>1 DEF IInv, TypeOK
    <3>2. CASE k # i
      <4>1. ~Ahead("reconstruct", k)
        BY <2>1, <3>2 DEF Ahead, IInv, TypeOK
      <4>2. k \in Nat /\ i \in Nat /\ k + 1 # i + 1
        BY <2>2, <3>2
      <4> QED BY <4>1, <4>2, <2>2 DEF IInv, TypeOK, PadsFilled
    <3> QED BY <3>1, <3>2
  <2>6. FluxesSolved'
    <3> SUFFICES ASSUME NEW f \in Faces
                 PROVE Ahead("riemann", f)' <=> Ahead("riemann", f)
      BY <2>1 DEF FluxesSolved, IInv
    <3> QED BY <2>1 DEF Ahead, IInv, TypeOK
  <2> QED BY <2>3, <2>4, <2>5, <2>6 DEF IInv
<1>2. ASSUME NEW t \in Threads, EnterBarrier(t) PROVE IInv'
  <2>1. /\ pc[t] = "reconstruct" /\ todo[t] = {} /\ pc' = [pc EXCEPT ![t] = "barrier"]
        /\ todo' = todo /\ wl' = wl /\ wr' = wr /\ flux' = flux
    BY <1>2 DEF EnterBarrier
  <2>2. TypeOK' /\ Shares' /\ BarrierHolds'
    BY <2>1 DEF IInv, TypeOK, Shares, BarrierHolds
  <2>3. PadsFilled'
    BY <2>1 DEF IInv, TypeOK, PadsFilled, Ahead
  <2>4. FluxesSolved'
    BY <2>1 DEF IInv, TypeOK, FluxesSolved, Ahead
  <2> QED BY <2>2, <2>3, <2>4 DEF IInv
<1>3. ASSUME NEW t \in Threads, LeaveBarrier(t) PROVE IInv'
  <2>1. /\ pc[t] = "barrier" /\ pc' = [pc EXCEPT ![t] = "riemann"]
        /\ todo' = [todo EXCEPT ![t] = Iterations("riemann", RiemannRange, t)]
        /\ wl' = wl /\ wr' = wr /\ flux' = flux
        /\ \A u \in Threads : pc[u] # "reconstruct"
    BY <1>3 DEF LeaveBarrier
  <2>5. Iterations("riemann", RiemannRange, t) \subseteq ReconstructRange
    BY DEF Iterations
  <2>6. TypeOK'
    BY <2>1, <2>5 DEF IInv, TypeOK
  <2>7. Shares' /\ BarrierHolds'
    BY <2>1 DEF IInv, TypeOK, Shares, BarrierHolds
  <2>2. TypeOK' /\ Shares' /\ BarrierHolds'
    BY <2>6, <2>7
  <2>3. PadsFilled'
    BY <2>1 DEF IInv, TypeOK, PadsFilled, Ahead
  <2>4. FluxesSolved'
    BY <2>1 DEF IInv, TypeOK, FluxesSolved, Ahead, Iterations
  <2> QED BY <2>2, <2>3, <2>4 DEF IInv
<1>4. ASSUME NEW t \in Threads, RiemannSolver(t) PROVE IInv'
  <2> PICK i \in todo[t] : /\ todo' = [todo EXCEPT ![t] = @ \ {i}]
                           /\ flux' = [flux EXCEPT ![i] = <<wl[i], wr[i]>>]
    BY <1>4 DEF RiemannSolver
  <2>1. pc[t] = "riemann" /\ pc' = pc /\ wl' = wl /\ wr' = wr
    BY <1>4 DEF RiemannSolver
  <2>2. i \in Faces /\ Share["riemann"][i] = t
    BY <2>1 DEF IInv, Shares, Iterations
  <2>3. wl[i] = i - 1 /\ wr[i] = i
    <3>1. \A k \in ReconstructRange : ~Ahead("reconstruct", k)
      BY <2>1 DEF IInv, BarrierHolds, Ahead
    <3>2. wl[(i - 1) + 1] = i - 1 /\ (i - 1) + 1 = i
      BY <2>2, <3>1 DEF IInv, PadsFilled
    <3> QED BY <2>2, <3>1, <3>2 DEF IInv, PadsFilled
  <2>4. TypeOK'
    BY <2>1, <2>2 DEF IInv, TypeOK
  <2>5. Shares' /\ BarrierHolds'
    BY <2>1 DEF IInv, TypeOK, Shares, BarrierHolds
  <2>6. PadsFilled'
    BY <2>1 DEF IInv, TypeOK, PadsFilled, Ahead
  <2>7. FluxesSolved'
    BY <2>1, <2>2, <2>3 DEF IInv, TypeOK, FluxesSolved, Ahead
  <2> QED BY <2>4, <2>5, <2>6, <2>7 DEF IInv
<1>5. ASSUME NEW t \in Threads, Finish(t) PROVE IInv'
  <2>1. /\ pc[t] = "riemann" /\ todo[t] = {} /\ pc' = [pc EXCEPT ![t] = "done"]
        /\ todo' = todo /\ wl' = wl /\ wr' = wr /\ flux' = flux
    BY <1>5 DEF Finish
  <2>2. TypeOK' /\ Shares' /\ BarrierHolds'
    BY <2>1 DEF IInv, TypeOK, Shares, BarrierHolds
  <2>3. PadsFilled'
    BY <2>1 DEF IInv, TypeOK, PadsFilled, Ahead
  <2>4. FluxesSolved'
    BY <2>1 DEF IInv, TypeOK, FluxesSolved, Ahead
  <2> QED BY <2>2, <2>3, <2>4 DEF IInv
<1>6. CASE UNCHANGED vars
  BY <1>6 DEF IInv, TypeOK, Shares, BarrierHolds, PadsFilled, FluxesSolved, Ahead, vars
<1> QED BY <1>1, <1>2, <1>3, <1>4, <1>5, <1>6 DEF Next, ThreadStep, Done

\* In every reachable state the pads and fluxes hold what the iterations run
\* so far put there, and no thread is beyond a barrier another has not reached.
THEOREM Inductive == Spec => []IInv
BY InitInv, StepInv, PTL DEF Spec

\* Every variable keeps its type.
THEOREM TypeCorrect == Spec => []TypeOK
BY Inductive, PTL DEF IInv

-----------------------------------------------------------------------------
LEMMA InvRace == IInv => NoDataRace
<1> SUFFICES ASSUME IInv, NEW t \in Threads, NEW u \in Threads, t # u
             PROVE Writes(t) \cap (Reads(u) \cup Writes(u)) = {}
  BY DEF NoDataRace
<1>1. CASE pc[t] = "reconstruct"
  <2>1. pc[u] \in {"reconstruct", "barrier"}
    BY <1>1 DEF IInv, BarrierHolds
  <2>2. CASE pc[u] = "reconstruct"
    <3>1. todo[t] \subseteq Int /\ todo[u] \subseteq Int
      BY SizeFacts DEF IInv, TypeOK
    <3>2. \A i \in todo[t], k \in todo[u] : i # k
      BY <1>1, <2>2 DEF IInv, Shares, Iterations
    <3> QED BY <1>1, <2>2, <3>1, <3>2 DEF Reads, Writes
  <2> QED BY <2>1, <2>2 DEF Reads, Writes
<1>2. CASE pc[t] = "riemann"
  <2>1. pc[u] # "reconstruct"
    BY <1>2 DEF IInv, BarrierHolds
  <2>2. CASE pc[u] = "riemann"
    <3>1. \A i \in todo[t], k \in todo[u] : i # k
      BY <1>2, <2>2 DEF IInv, Shares, Iterations
    <3> QED BY <1>2, <2>2, <3>1 DEF Reads, Writes
  <2> QED BY <2>1, <2>2 DEF Reads, Writes
<1>3. CASE pc[t] \notin {"reconstruct", "riemann"}
  BY <1>3 DEF Writes
<1> QED BY <1>1, <1>2, <1>3

\* No two threads race on a scratch pad or a flux, for every team and every
\* division of the two loops among its threads.
THEOREM RaceFree == Spec => []NoDataRace
BY Inductive, InvRace, PTL

LEMMA InvBounds == IInv => InBounds
<1> SUFFICES ASSUME IInv, NEW t \in Threads PROVE Reads(t) \cup Writes(t) \subseteq Allocated
  BY DEF InBounds
<1>1. CASE pc[t] = "reconstruct"
  <2>1. todo[t] \subseteq ReconstructRange
    BY DEF IInv, TypeOK
  <2>2. \A i \in ReconstructRange :
          i \in Cells /\ i + 1 \in Cells /\ i + (-1) \in Cells /\ i + 0 \in Cells
    BY SizeFacts
  <2>3. \A i \in todo[t], d \in {-1, 0, 1} : i + d \in Cells
    BY <2>1, <2>2
  <2>4. Reads(t) \subseteq Allocated
    BY <1>1, <2>3 DEF Reads, Allocated
  <2>5. Writes(t) \subseteq Allocated
    BY <1>1, <2>1, <2>2 DEF Writes, Allocated
  <2> QED BY <2>4, <2>5
<1>2. CASE pc[t] = "riemann"
  <2>1. \A i \in todo[t] : i \in Faces /\ i \in Cells
    BY <1>2, SizeFacts DEF IInv, Shares, Iterations
  <2> QED BY <1>2, <2>1 DEF Reads, Writes, Allocated
<1>3. CASE pc[t] \notin {"reconstruct", "riemann"}
  BY <1>3 DEF Reads, Writes
<1> QED BY <1>1, <1>2, <1>3

\* Two ghost cells are enough for every row length.
THEOREM WithinArrays == Spec => []InBounds
BY Inductive, InvBounds, PTL

LEMMA InvFaces == IInv => FaceStates
<1> SUFFICES ASSUME IInv PROVE FaceStates
  OBVIOUS
<1>1. \A i \in Faces : flux[i] # Garbage => flux[i] = <<i - 1, i>>
  BY DEF IInv, FluxesSolved
<1>2. ASSUME KernelOver, NEW i \in Faces PROVE flux[i] # Garbage
  <2>1. flux[i] = <<i - 1, i>>
    BY <1>2, SizeFacts, ShareFacts DEF KernelOver, IInv, FluxesSolved, Ahead
  <2>2. <<i - 1, i>> \in Cells \X Cells
    BY SizeFacts
  <2> QED BY <2>1, <2>2, GarbageAssumption
<1> QED BY <1>1, <1>2 DEF FaceStates

\* Every face is solved from the cells on its two sides, and none is missing.
THEOREM FacesSolved == Spec => []FaceStates
BY Inductive, InvFaces, PTL

LEMMA StepAbstract == IInv /\ [Next]_vars => [Abstract!Next]_flux
<1> SUFFICES ASSUME IInv, [Next]_vars, flux' # flux PROVE Abstract!Next
  OBVIOUS
<1>1. PICK t \in Threads : RiemannSolver(t)
  BY DEF Next, ThreadStep, Done, Reconstruct, EnterBarrier, LeaveBarrier, Finish, vars
<1>2. PICK i \in todo[t] : flux' = [flux EXCEPT ![i] = <<wl[i], wr[i]>>]
  BY <1>1 DEF RiemannSolver
<1>3. pc[t] = "riemann" /\ i \in Faces /\ Share["riemann"][i] = t
  BY <1>1, SizeFacts DEF RiemannSolver, IInv, Shares, Iterations
<1>4. flux[i] = Garbage
  BY <1>3 DEF IInv, FluxesSolved, Ahead
<1>5. wl[i] = i - 1 /\ wr[i] = i
  <2>1. \A k \in ReconstructRange : ~Ahead("reconstruct", k)
    BY <1>3, SizeFacts, ShareFacts DEF IInv, BarrierHolds, Ahead
  <2>2. wl[(i - 1) + 1] = i - 1 /\ (i - 1) + 1 = i
    BY <1>3, <2>1, SizeFacts DEF IInv, PadsFilled
  <2> QED BY <1>3, <2>1, <2>2, SizeFacts DEF IInv, PadsFilled
<1> QED BY <1>2, <1>3, <1>4, <1>5 DEF Abstract!Next, Abstract!Solve

\* The x1 kernel implements FaceFluxes: each face is solved once and for good.
THEOREM Implementation == Spec => ImplementsFaceFluxes
<1>1. Init => Abstract!Init
  BY DEF Init, Abstract!Init
<1> QED BY <1>1, Inductive, StepAbstract, PTL DEF Spec, ImplementsFaceFluxes, Abstract!Spec
=============================================================================
