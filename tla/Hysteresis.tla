----------------------------- MODULE Hysteresis -----------------------------
(***************************************************************************)
(* What the tags of the three criteria do to the mesh over many cycles.    *)
(* One place of the mesh is refined and derefined between the root level   *)
(* and MaxLevel; each time, the criterion measures the same flow on cells  *)
(* of another size.  All criteria take undivided differences, or no        *)
(* difference at all.                                                      *)
(***************************************************************************)
EXTENDS Integers

CONSTANTS
  MaxLevel,  \* refinement/numlevel - 1
  MaxEps,    \* bound on a measured gradient, in units
  MaxFlow    \* bound on how often the flow changes

ASSUME BoundsAssumption == {MaxLevel, MaxEps, MaxFlow} \subseteq Nat

VARIABLES
  type, thr, low, \* refinement/type; the threshold; maxdensity_deref_below
  level,          \* refinement level of the place
  eps,            \* largest value the criterion measures there
  flow,           \* changes of the flow so far
  last            \* what changed last: "flow", "refine" or "derefine"

meshVars == <<type, thr, low, level, eps, flow, last>>

RefinementTypes == {"pressure_gradient", "xyvelocity_gradient", "maxdensity"}

\* The checks of Initialize.
ParamsValid ==
  /\ thr > 0
  /\ type = "maxdensity" => low > 0 /\ low < thr

\* A gap of a quarter instead of three.
DerefineNarrow ==
  CASE type = "pressure_gradient" -> 4 * eps < 3 * thr
    [] type = "xyvelocity_gradient" -> 2 * eps < thr
    [] type = "maxdensity" -> eps < low

\* The three lines a criterion ends with.
Derefine ==
  CASE type = "pressure_gradient" -> 4 * eps < thr
    [] type = "xyvelocity_gradient" -> 2 * eps < thr
    [] type = "maxdensity" -> eps < low

LevelTag == IF eps > thr THEN "refine" ELSE IF Derefine THEN "derefine" ELSE "same"

\* What is assumed of the flow.  On cells of half the size the steepest of the
\* new blocks measures from half of an undivided difference, in a smooth flow, to
\* all of it, at a jump; on cells of twice the size, from all of it to twice as
\* much.  The largest density is kept or grows on smaller cells, and falls by
\* averaging on larger.  The criteria do not imply these bounds: the pressure
\* criterion divides by the local pressure, and averaging conserved variables
\* weights velocities by density, so a strong enough change within a cell of the
\* coarser level can break them.
Finer(e) == {f \in 0 .. MaxEps : IF type = "maxdensity" THEN f >= e ELSE 2 * f >= e /\ f <= e}
Coarser(e) == {f \in 0 .. MaxEps : IF type = "maxdensity" THEN f <= e ELSE f >= e /\ f <= 2 * e}

MeshInit ==
  /\ type \in RefinementTypes /\ thr \in 0 .. MaxEps /\ low \in 0 .. MaxEps /\ ParamsValid
  /\ level = 0 /\ eps \in 0 .. MaxEps /\ flow = 0 /\ last = "flow"

\* The blocks are adapted to their tags, as far as there are levels.
AdaptFiner ==
  /\ LevelTag = "refine" /\ level < MaxLevel
  /\ level' = level + 1 /\ eps' \in Finer(eps) /\ last' = "refine"
  /\ UNCHANGED <<type, thr, low, flow>>

AdaptCoarser ==
  /\ LevelTag = "derefine" /\ level > 0
  /\ level' = level - 1 /\ eps' \in Coarser(eps) /\ last' = "derefine"
  /\ UNCHANGED <<type, thr, low, flow>>

\* The flow moves on: the criterion measures anything.
Flow ==
  /\ flow < MaxFlow /\ flow' = flow + 1
  /\ eps' \in 0 .. MaxEps /\ last' = "flow"
  /\ UNCHANGED <<type, thr, low, level>>

\* A cycle whose tag has no effect.
Stay ==
  /\ ~(LevelTag = "refine" /\ level < MaxLevel) /\ ~(LevelTag = "derefine" /\ level > 0)
  /\ UNCHANGED meshVars

Adapt == AdaptFiner \/ AdaptCoarser
MeshNext == Adapt \/ Flow \/ Stay

\* Every cycle of an adaptive run tags and adapts.
MeshSpec == MeshInit /\ [][MeshNext]_meshVars /\ WF_meshVars(Adapt)

-----------------------------------------------------------------------------
\* Every variable has the type its declaration says.
MeshTypeOK ==
  /\ type \in RefinementTypes /\ thr \in 0 .. MaxEps /\ low \in 0 .. MaxEps
  /\ level \in 0 .. MaxLevel /\ eps \in 0 .. MaxEps
  /\ flow \in 0 .. MaxFlow /\ last \in {"flow", "refine", "derefine"}

\* A block that was refined because of what its criterion measured is not
\* derefined because of what the same flow measures on the finer cells, nor the
\* other way round, whichever criterion, thresholds and cells in between.
NoFlip ==
  [][/\ level' < level => last # "refine"
     /\ level' > level => last # "derefine"]_meshVars

\* Once the flow stands still the mesh comes to rest.
MeshSettles ==
  <>[](/\ LevelTag = "refine" => level = MaxLevel
       /\ LevelTag = "derefine" => level = 0)

\* The value a criterion measured after an adaptation is still on its side of
\* the gap between the two thresholds.
GapInv ==
  /\ ParamsValid
  /\ last = "refine" =>
       IF type = "maxdensity" THEN eps > low ELSE 2 * eps > thr
  /\ last = "derefine" =>
       CASE type = "pressure_gradient" -> 2 * eps < thr
         [] type = "xyvelocity_gradient" -> eps < thr
         [] type = "maxdensity" -> eps < thr

MeshInv == MeshTypeOK /\ GapInv
=============================================================================
