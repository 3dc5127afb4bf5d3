-------------------------------- MODULE Eos --------------------------------
(***************************************************************************)
(* The numbers of the cells between two updates: boundaries, the equation  *)
(* of state with its floors, the estimate of the time step, the history    *)
(* row, and the restart that starts from the conserved variables alone.    *)
(***************************************************************************)
EXTENDS Floats

CONSTANTS
  Max,                                     \* DBL_MAX
  DFloor, PFloor, Gamma, Cfl,              \* parameters of the Hydro package
  Cells, Interior, Owner,                  \* Owner[c]: the interior cell c shows
  NDim, Dx, Volume,
  ConsValues,                              \* what an update may leave in a cell
  None

Dims == 1 .. 3
Cons == [d : FP, m : [Dims -> FP], e : FP]
Prim == [d : FP, v : [Dims -> FP], p : FP]
Columns == {"mass", "1-mom", "2-mom", "3-mom", "KE", "tot-E"}

\* Positive floors, as the defaults are: Initialize takes a deck's unchecked.
ASSUME ParamsAssumption ==
  /\ {Max, DFloor, PFloor, Gamma, Cfl, Volume} \subseteq FP
  /\ Gt(DFloor, Zero) /\ Gt(PFloor, Zero) /\ Max # NaN
  /\ \A x \in FP \ {NaN} : Mul(Cfl, x) # NaN

ASSUME MeshAssumption ==
  /\ Interior \subseteq Cells /\ Owner \in [Cells -> Interior]
  /\ \A c \in Interior : Owner[c] = c
  /\ NDim \in Dims /\ Dx \in [Dims -> FP]
  /\ ConsValues \subseteq Cons
  /\ None \notin [cons : [Cells -> Cons], prim : [Cells -> Prim]]

VARIABLES
  pc,      \* the task about to run
  cons, prim,
  todo,    \* interior cells the running reduction has not taken yet
  min_dt,  \* accumulator of EstimateTimestep
  hst,     \* accumulators of the history row
  dump,    \* restart file, with what the process had when it wrote it, or None
  resumed  \* nothing was updated since the process started from dump

vars == <<pc, cons, prim, todo, min_dt, hst, dump, resumed>>

SqrSum(m) == Add(Add(Sqr(m[1]), Sqr(m[2])), Sqr(m[3]))

-----------------------------------------------------------------------------
Gm1 == Sub(Gamma, One)

\* The floors compared the other way round: a NaN passes.
ConservedToPrimitiveLess(u) ==
  LET u_d == IF Gt(DFloor, u.d) THEN DFloor ELSE u.d
      di == Div(One, u_d)
      e_k == Mul(Mul(Half, di), SqrSum(u.m))
      w_p == Mul(Gm1, Sub(u.e, e_k))
      cold == Gt(PFloor, w_p)
  IN [cons |-> [u EXCEPT !.d = u_d, !.e = IF cold THEN Add(Div(PFloor, Gm1), e_k) ELSE @],
      prim |-> [d |-> u_d, v |-> [n \in Dims |-> Mul(u.m[n], di)],
                p |-> IF cold THEN PFloor ELSE w_p]]

\* The energy lifted by the floor instead of set from it.
ConservedToPrimitiveAdded(u) ==
  LET u_d == IF Gt(u.d, DFloor) THEN u.d ELSE DFloor
      di == Div(One, u_d)
      e_k == Mul(Mul(Half, di), SqrSum(u.m))
      w_p == Mul(Gm1, Sub(u.e, e_k))
      warm == Gt(w_p, PFloor)
  IN [cons |-> [u EXCEPT !.d = u_d, !.e = IF warm THEN @ ELSE Add(@, Div(PFloor, Gm1))],
      prim |-> [d |-> u_d, v |-> [n \in Dims |-> Mul(u.m[n], di)],
                p |-> IF warm THEN w_p ELSE PFloor]]

\* The cell's conserved variables with the floors applied, and its primitive ones.
ConservedToPrimitive(u) ==
  LET u_d == IF Gt(u.d, DFloor) THEN u.d ELSE DFloor
      di == Div(One, u_d)
      e_k == Mul(Mul(Half, di), SqrSum(u.m))
      w_p == Mul(Gm1, Sub(u.e, e_k))
      warm == Gt(w_p, PFloor)
  IN [cons |-> [u EXCEPT !.d = u_d, !.e = IF warm THEN @ ELSE Add(Div(PFloor, Gm1), e_k)],
      prim |-> [d |-> u_d, v |-> [n \in Dims |-> Mul(u.m[n], di)],
                p |-> IF warm THEN w_p ELSE PFloor]]

SoundSpeed(w) == Sqrt(Div(Mul(Gamma, w.p), w.d))

\* The limit one direction of one cell sets to the time step.
Rate(w, n) == Div(Dx[n], Add(Abs(w.v[n]), SoundSpeed(w)))

\* std::min in the place of fmin.
StdMin(x, y) == IF Gt(x, y) \/ y = NaN THEN y ELSE x

\* fmin: a NaN loses against a number.
FMin(x, y) ==
  CASE x = NaN -> y
    [] y = NaN -> x
    [] OTHER -> IF Gt(x, y) THEN y ELSE x

\* The limits of one cell taken into the accumulator.
CellDt(acc, w) ==
  LET x == FMin(acc, Rate(w, 1))
      y == IF NDim > 1 THEN FMin(x, Rate(w, 2)) ELSE x
  IN IF NDim > 2 THEN FMin(y, Rate(w, 3)) ELSE y

\* The kinetic energy of the first momentum alone.
HydroHstFirst(col, u) ==
  Mul(CASE col = "mass" -> u.d
        [] col = "1-mom" -> u.m[1]
        [] col = "2-mom" -> u.m[2]
        [] col = "3-mom" -> u.m[3]
        [] col = "KE" -> Mul(Div(Half, u.d), Sqr(u.m[1]))
        [] col = "tot-E" -> u.e,
      Volume)

\* What a cell adds to a column of the history.
HydroHst(col, u) ==
  Mul(CASE col = "mass" -> u.d
        [] col = "1-mom" -> u.m[1]
        [] col = "2-mom" -> u.m[2]
        [] col = "3-mom" -> u.m[3]
        [] col = "KE" -> Mul(Div(Half, u.d), SqrSum(u.m))
        [] col = "tot-E" -> u.e,
      Volume)

\* The value EstimateTimestep returns.
NewDt == Mul(Cfl, min_dt)

-----------------------------------------------------------------------------
\* The problem generator has filled the interior; nothing else is set.
Init ==
  /\ pc = "SetBounds"
  /\ \E f \in [Interior -> ConsValues] : cons = [c \in Cells |-> f[Owner[c]]]
  /\ prim = [c \in Cells |-> [d |-> Zero, v |-> [n \in Dims |-> Zero], p |-> Zero]]
  /\ todo = {} /\ min_dt = Max
  /\ hst = [col \in Columns |-> Zero]
  /\ dump = None /\ resumed = FALSE

\* A stage's averaging and flux divergence: it may leave anything, a NaN too.
\* The accumulators of the reductions, locals of their functions, are gone.
Update ==
  /\ pc \in {"stage", "cycle"}
  /\ \E f \in [Interior -> ConsValues] :
       cons' = [c \in Cells |-> IF c \in Interior THEN f[c] ELSE cons[c]]
  /\ pc' = "SetBounds" /\ resumed' = FALSE
  /\ min_dt' = Max /\ hst' = [col \in Columns |-> Zero]
  /\ UNCHANGED <<prim, todo, dump>>

\* Ghosts are sent as the update left them: no floor was applied to them yet.
SetBounds ==
  /\ pc = "SetBounds"
  /\ cons' = [c \in Cells |-> cons[Owner[c]]]
  /\ pc' = "FillDerived"
  /\ UNCHANGED <<prim, todo, min_dt, hst, dump, resumed>>

\* Over the interior only.
FillDerivedInterior ==
  /\ pc = "FillDerived"
  /\ cons' = [c \in Cells |-> IF c \in Interior THEN ConservedToPrimitive(cons[c]).cons ELSE cons[c]]
  /\ prim' = [c \in Cells |-> IF c \in Interior THEN ConservedToPrimitive(cons[c]).prim ELSE prim[c]]
  /\ pc' = "stage"
  /\ UNCHANGED <<todo, min_dt, hst, dump, resumed>>

\* Over the entire block, ghosts included.
FillDerived ==
  /\ pc = "FillDerived"
  /\ cons' = [c \in Cells |-> ConservedToPrimitive(cons[c]).cons]
  /\ prim' = [c \in Cells |-> ConservedToPrimitive(cons[c]).prim]
  /\ pc' = "stage"
  /\ UNCHANGED <<todo, min_dt, hst, dump, resumed>>

\* The last stage: the reduction takes the cells in any order.
StartEstimate ==
  /\ pc = "stage"
  /\ pc' = "EstimateTimestep" /\ todo' = Interior /\ min_dt' = Max
  /\ UNCHANGED <<cons, prim, hst, dump, resumed>>

EstimateTimestep ==
  /\ pc = "EstimateTimestep"
  /\ \E c \in todo :
       /\ min_dt' = CellDt(min_dt, prim[c])
       /\ todo' = todo \ {c}
  /\ UNCHANGED <<pc, cons, prim, hst, dump, resumed>>

\* The estimate is known; outputs follow, a history row among them.
EndEstimate ==
  /\ pc = "EstimateTimestep" /\ todo = {}
  /\ pc' = "HydroHst" /\ todo' = Interior
  /\ hst' = [col \in Columns |-> Zero]
  /\ UNCHANGED <<cons, prim, min_dt, dump, resumed>>

SumHistory ==
  /\ pc = "HydroHst"
  /\ \E c \in todo :
       /\ hst' = [col \in Columns |-> Add(hst[col], HydroHst(col, cons[c]))]
       /\ todo' = todo \ {c}
  /\ UNCHANGED <<pc, cons, prim, min_dt, dump, resumed>>

EndHistory ==
  /\ pc = "HydroHst" /\ todo = {}
  /\ pc' = "cycle"
  /\ UNCHANGED <<cons, prim, todo, min_dt, hst, dump, resumed>>

\* cons is the only field a restart file holds; prim is kept here to compare with.
WriteRestart ==
  /\ pc = "cycle"
  /\ dump' = [cons |-> cons, prim |-> prim]
  /\ UNCHANGED <<pc, cons, prim, todo, min_dt, hst, resumed>>

\* A process killed anywhere, and another started from the file.
Restart ==
  /\ dump # None
  /\ cons' = [c \in Cells |-> dump.cons[Owner[c]]]
  /\ prim' = [c \in Cells |-> [d |-> Zero, v |-> [n \in Dims |-> Zero], p |-> Zero]]
  /\ pc' = "SetBounds" /\ resumed' = TRUE
  /\ todo' = {} /\ min_dt' = Max /\ hst' = [col \in Columns |-> Zero]
  /\ UNCHANGED dump

Next ==
  \/ Update \/ SetBounds \/ FillDerived
  \/ StartEstimate \/ EstimateTimestep \/ EndEstimate
  \/ SumHistory \/ EndHistory \/ WriteRestart \/ Restart

Spec == Init /\ [][Next]_vars

-----------------------------------------------------------------------------
\* Every variable has the type its declaration says.
TypeOK ==
  /\ pc \in {"SetBounds", "FillDerived", "stage", "EstimateTimestep", "HydroHst", "cycle"}
  /\ cons \in [Cells -> Cons] /\ prim \in [Cells -> Prim]
  /\ todo \in SUBSET Interior
  /\ min_dt \in FP
  /\ hst \in [Columns -> FP]
  /\ dump = None \/ dump \in [cons : [Cells -> Cons], prim : [Cells -> Prim]]
  /\ resumed \in BOOLEAN

Derived == pc \in {"stage", "EstimateTimestep", "HydroHst", "cycle"}

\* Whatever an update left, a NaN, a negative density or an energy below the
\* kinetic one, the Riemann solver and the time step see a positive density and
\* a positive pressure in every cell, the ghosts included.
PositiveStates ==
  Derived => \A c \in Cells :
    /\ Gt(prim[c].d, Zero) /\ Gt(prim[c].p, Zero)
    /\ cons[c].d = prim[c].d

\* A ghost, floored where it is shown, and the cell it shows, floored by its
\* owner, hold the same numbers: the two sides of a face compute one flux.
GhostsAgree ==
  Derived => \A c \in Cells : cons[c] = cons[Owner[c]] /\ prim[c] = prim[Owner[c]]

\* The time step is a number whatever the cells hold; it is the least of the
\* limits the cells set, in whatever order the reduction takes them, and a cell
\* that sets no valid limit neither spoils it nor shortens it.
DtIsMinimum ==
  /\ min_dt # NaN /\ NewDt # NaN
  /\ pc \in {"HydroHst", "cycle"} =>
       /\ \A c \in Interior, n \in 1 .. NDim : ~Gt(min_dt, Rate(prim[c], n))
       /\ \/ min_dt = Max
          \/ \E c \in Interior, n \in 1 .. NDim : min_dt = Rate(prim[c], n)

\* A NaN that the floors and the time step hide still shows: the kinetic energy
\* of the history is a NaN as soon as one momentum of one cell is.
PoisonShows ==
  pc = "cycle" =>
    ((\E c \in Cells, n \in Dims : cons[c].m[n] = NaN) => hst["KE"] = NaN)

\* The floors of a restarted process change nothing they had changed before it:
\* it has the conserved variables of the process that wrote the file bit by
\* bit, in the ghosts too, and the primitive ones except for the pressure of
\* a cell that was at its floor, which rounding may set anew.
RestartFaithful ==
  resumed /\ Derived => \A c \in Cells :
    /\ cons[c] = dump.cons[c]
    /\ prim[c].d = dump.prim[c].d /\ prim[c].v = dump.prim[c].v
    /\ prim[c].p # dump.prim[c].p => dump.prim[c].p = PFloor

-----------------------------------------------------------------------------
(* The inductive invariant: what the equation of state has gone over, it     *)
(* would not change again, and a half-done reduction is right about the      *)
(* cells it has taken.                                                       *)

\* The conserved variables u are their own floored ones, and give back w.
Settled(u, w) ==
  LET r == ConservedToPrimitive(u) IN
  /\ r.cons = u /\ r.prim.d = w.d /\ r.prim.v = w.v
  /\ r.prim.p # w.p => w.p = PFloor

SettledInv ==
  /\ Derived => \A c \in Cells : Settled(cons[c], prim[c])
  /\ dump # None => \A c \in Cells :
       /\ Settled(dump.cons[c], dump.prim[c])
       /\ dump.cons[c] = dump.cons[Owner[c]] /\ dump.prim[c] = dump.prim[Owner[c]]

GhostInv == pc = "FillDerived" => \A c \in Cells : cons[c] = cons[Owner[c]]

ResumedInv ==
  resumed => dump # None /\ (~Derived => cons = dump.cons)

ReductionInv ==
  /\ pc = "EstimateTimestep" =>
       /\ \A c \in Interior \ todo, n \in 1 .. NDim : ~Gt(min_dt, Rate(prim[c], n))
       /\ \/ min_dt = Max
          \/ \E c \in Interior, n \in 1 .. NDim : min_dt = Rate(prim[c], n)
  /\ pc = "HydroHst" => \A c \in Interior \ todo :
       (\E n \in Dims : cons[c].m[n] = NaN) => hst["KE"] = NaN

\* All of what a step needs to know of the state before it.
IInv ==
  /\ TypeOK /\ PositiveStates /\ GhostsAgree /\ DtIsMinimum /\ RestartFaithful
  /\ SettledInv /\ GhostInv /\ ResumedInv /\ ReductionInv
  /\ pc = "cycle" => \A c \in Interior :
       (\E n \in Dims : cons[c].m[n] = NaN) => hst["KE"] = NaN
=============================================================================
