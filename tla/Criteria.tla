------------------------------ MODULE Criteria ------------------------------
(***************************************************************************)
(* The refinement criteria of refinement/gradient.cpp and other.cpp over   *)
(* two blocks that share a face: the stencil each reads, the reduction     *)
(* over it in any order, and the tag that comes of it.  The ghosts are     *)
(* filled, so a cell has one value for both blocks and is named by its     *)
(* place <<k, j, i>> in the mesh; block b starts at b * nx in x.           *)
(***************************************************************************)
EXTENDS Floats

CONSTANTS
  Quarter,          \* 0.25
  ndim,             \* Mesh::ndim
  nx, ny, nz, ng,   \* interior cells of a block per direction, ghosts
  Threshold,        \* the parameter of the criterion that runs
  DerefBelow,       \* maxdensity_deref_below
  Fields,           \* primitives a run may meet, per variable and cell
  Types             \* refinement/type of the runs

Blocks == {0, 1}
Criterion == {"pressure_gradient", "xyvelocity_gradient", "maxdensity"}

\* Directions the mesh does not have are one cell thick and have no ghosts.
Bounds(n, d) == IF d <= ndim THEN [s |-> 0, e |-> n - 1] ELSE [s |-> 0, e |-> 0]
Ghosts(d) == IF d <= ndim THEN ng ELSE 0
ib(b) == [s |-> b * nx, e |-> b * nx + nx - 1]
jb == Bounds(ny, 2)
kb == Bounds(nz, 3)

\* The cells a loop from k1 to k2, j1 to j2 and i1 to i2 runs over.
Loop(k1, k2, j1, j2, i1, i2) == (k1 .. k2) \X (j1 .. j2) \X (i1 .. i2)

\* The cells block b has in its arrays.
Entire(b) == Loop(kb.s - Ghosts(3), kb.e + Ghosts(3), jb.s - Ghosts(2), jb.e + Ghosts(2),
                  ib(b).s - ng, ib(b).e + ng)
AllCells == Entire(0) \cup Entire(1)
BlockCells(b) == Loop(kb.s, kb.e, jb.s, jb.e, ib(b).s, ib(b).e)

ASSUME SizeAssumption ==
  /\ ndim \in 1 .. 3 /\ {nx, ny, nz} \subseteq Nat \ {0}
  /\ ng \in Nat /\ ng >= 2                       \* Initialize requires it

ASSUME CriteriaAssumption ==
  /\ {Quarter, Threshold, DerefBelow} \subseteq FP
  /\ Gt(Threshold, Zero) /\ Types \subseteq Criterion
  /\ Fields \subseteq [{"d", "v1", "v2", "p"} -> [AllCells -> FP]]

VARIABLES
  criterion, w,   \* fixed by the run
  phase, block,      \* the block whose criterion runs
  pending,           \* cells its reduction has not taken yet
  maxeps,         \* accumulator
  tag

taggingVars == <<criterion, w, phase, block, pending, maxeps, tag>>

-----------------------------------------------------------------------------
\* A neighbour of a cell, di, dj and dk away.
Shift(c, dk, dj, di) == <<c[1] + dk, c[2] + dj, c[3] + di>>

\* Half the difference of the two neighbours.
Central(f, hi, lo) == Mul(Half, Sub(f[hi], f[lo]))

\* eps of PressureGradient, in two or three dimensions.
PressureEps(c) ==
  LET x == Sqr(Central(w["p"], Shift(c, 0, 0, 1), Shift(c, 0, 0, -1)))
      y == Sqr(Central(w["p"], Shift(c, 0, 1, 0), Shift(c, 0, -1, 0)))
      z == Sqr(Central(w["p"], Shift(c, 1, 0, 0), Shift(c, -1, 0, 0)))
  IN Div(Sqrt(IF ndim = 3 THEN Add(Add(x, y), z) ELSE Add(x, y)), w["p"][c])

\* vg of VelocityGradient.
VelocityEps(c) ==
  LET vgy == Mul(Abs(Sub(w["v2"][Shift(c, 0, 0, 1)], w["v2"][Shift(c, 0, 0, -1)])), Half)
      vgx == Mul(Abs(Sub(w["v1"][Shift(c, 0, 1, 0)], w["v1"][Shift(c, 0, -1, 0)])), Half)
  IN Sqrt(Add(Sqr(vgx), Sqr(vgy)))

Eps(c) ==
  CASE criterion = "pressure_gradient" -> PressureEps(c)
    [] criterion = "xyvelocity_gradient" -> VelocityEps(c)
    [] criterion = "maxdensity" -> w["d"][c]

\* Over the interior alone.
TakenBlockCells(b) == BlockCells(b)

\* One cell too far in x.
TakenOneMore(b) == Loop(kb.s, kb.e, jb.s - 1, jb.e + 1, ib(b).s - 1, ib(b).e + 2)

\* The cells whose gradient, or density, the criterion of block b takes.
Taken(b) ==
  CASE criterion = "pressure_gradient" ->
         LET g == IF ndim = 3 THEN 1 ELSE 0
         IN Loop(kb.s - g, kb.e + g, jb.s - 1, jb.e + 1, ib(b).s - 1, ib(b).e + 1)
    [] criterion = "xyvelocity_gradient" ->
         Loop(kb.s, kb.e, jb.s - 1, jb.e + 1, ib(b).s - 1, ib(b).e + 1)
    [] criterion = "maxdensity" ->
         Loop(kb.s, kb.e, jb.s, jb.e, ib(b).s, ib(b).e + 1)

\* The cells read to get the value of c.
Stencil(c) ==
  CASE criterion = "pressure_gradient" ->
         {c, Shift(c, 0, 0, 1), Shift(c, 0, 0, -1), Shift(c, 0, 1, 0), Shift(c, 0, -1, 0)}
           \cup (IF ndim = 3 THEN {Shift(c, 1, 0, 0), Shift(c, -1, 0, 0)} ELSE {})
    [] criterion = "xyvelocity_gradient" ->
         {Shift(c, 0, 0, 1), Shift(c, 0, 0, -1), Shift(c, 0, 1, 0), Shift(c, 0, -1, 0)}
    [] criterion = "maxdensity" -> {c}

\* std::max with the arguments exchanged: a NaN stays.
MaxSwapped(x, y) == IF Gt(x, y) THEN x ELSE y

\* std::max(lmax, eps), and "if (vg > lvgmax)": a NaN is not taken.
MaxOf(lmax, eps) == IF Gt(eps, lmax) THEN eps ELSE lmax

-----------------------------------------------------------------------------
TaggingInit ==
  /\ criterion \in Types /\ w \in Fields
  /\ phase = "start" /\ block = 0
  /\ pending = {} /\ maxeps = Zero
  /\ tag = [b \in Blocks |-> "same"]

\* The reduction begins at zero; a pressure gradient in one dimension tags
\* nothing and reads nothing.
Start ==
  /\ phase = "start"
  /\ \/ /\ criterion = "pressure_gradient" /\ ndim = 1
        /\ phase' = "tagged" /\ tag' = [tag EXCEPT ![block] = "same"]
        /\ UNCHANGED <<pending, maxeps>>
     \/ /\ ~(criterion = "pressure_gradient" /\ ndim = 1)
        /\ phase' = "reduce" /\ pending' = Taken(block) /\ maxeps' = Zero
        /\ UNCHANGED tag
  /\ UNCHANGED <<criterion, w, block>>

\* par_reduce takes the cells in any order.
Reduce ==
  /\ phase = "reduce"
  /\ \E c \in pending : maxeps' = MaxOf(maxeps, Eps(c)) /\ pending' = pending \ {c}
  /\ UNCHANGED <<criterion, w, phase, block, tag>>

\* A tag for each of the criteria's three ends.
TagOf(eps) ==
  LET low == CASE criterion = "pressure_gradient" -> Mul(Quarter, Threshold)
               [] criterion = "xyvelocity_gradient" -> Mul(Half, Threshold)
               [] criterion = "maxdensity" -> DerefBelow
  IN IF Gt(eps, Threshold) THEN "refine" ELSE IF Gt(low, eps) THEN "derefine" ELSE "same"

Tag ==
  /\ phase = "reduce" /\ pending = {}
  /\ phase' = "tagged" /\ tag' = [tag EXCEPT ![block] = TagOf(maxeps)]
  /\ UNCHANGED <<criterion, w, block, pending, maxeps>>

NextBlock ==
  /\ phase = "tagged" /\ block = 0
  /\ phase' = "start" /\ block' = 1
  /\ UNCHANGED <<criterion, w, pending, maxeps, tag>>

AllTagged == phase = "tagged" /\ block = 1 /\ UNCHANGED taggingVars

TaggingNext == Start \/ Reduce \/ Tag \/ NextBlock \/ AllTagged

TaggingSpec == TaggingInit /\ [][TaggingNext]_taggingVars

-----------------------------------------------------------------------------
\* Every variable has the type its declaration says.
TaggingTypeOK ==
  /\ criterion \in Types /\ w \in Fields
  /\ phase \in {"start", "reduce", "tagged"} /\ block \in Blocks
  /\ pending \in SUBSET AllCells /\ maxeps \in FP
  /\ tag \in [Blocks -> {"refine", "derefine", "same"}]

\* No criterion reads beyond the ghosts of its block; a 2D velocity gradient is
\* asked for in a mesh of at least two dimensions.
StencilInBlock ==
  phase = "reduce" /\ (criterion = "xyvelocity_gradient" => ndim > 1) =>
    \A c \in pending : Stencil(c) \subseteq Entire(block)

Done(b) ==
  /\ b < block \/ (phase = "tagged" /\ b = block)
  /\ ~(criterion = "pressure_gradient" /\ ndim = 1)

\* In whatever order the reduction takes the cells, and whatever NaN is among
\* them, a block is refined if and only if a gradient it looks at is above the
\* threshold: an invalid cell hides no steep one and makes none.
RefinedIffSteep ==
  \A b \in Blocks : Done(b) =>
    (tag[b] = "refine" <=> \E c \in Taken(b) : Gt(Eps(c), Threshold))

\* A gradient above the threshold in a cell at the face of two blocks has both
\* of them refined: neither lags a level behind a front that crosses the face.
FrontSeenFromBothSides ==
  criterion # "maxdensity" /\ Done(0) /\ Done(1) =>
    ((\E k \in kb.s .. kb.e, j \in jb.s .. jb.e, i \in {ib(0).e, ib(1).s} : Gt(Eps(<<k, j, i>>), Threshold))
       => \A b \in Blocks : tag[b] = "refine")

\* The reduction is right about the cells it has taken; with RefinedIffSteep,
\* which a tag keeps to once it is set, an inductive invariant.
MaxInv ==
  phase = "reduce" =>
    /\ pending \subseteq Taken(block) /\ maxeps # NaN
    /\ ~(criterion = "pressure_gradient" /\ ndim = 1)
    /\ \A c \in Taken(block) \ pending : ~Gt(Eps(c), maxeps)
    /\ maxeps = Zero \/ \E c \in Taken(block) : maxeps = Eps(c)

TaggingInv == TaggingTypeOK /\ MaxInv /\ RefinedIffSteep
=============================================================================
