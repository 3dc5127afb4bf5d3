------------------------------- MODULE BulkSync -------------------------------
(***************************************************************************)
(* What the stages of an integrator promise, without tasks or messages: a  *)
(* set of blocks advances by one time level, each from its own state and   *)
(* its neighbours' states at one and the same level.  No block runs ahead  *)
(* of a neighbour it still needs, and no state is used before or after its *)
(* level.  HydroDriver is shown to implement this module.                  *)
(***************************************************************************)
EXTENDS Integers

CONSTANTS Blocks, Nbrs

VARIABLES
  level,   \* time level of each block's solution
  used     \* the time levels of the states the last advance of a block used

Init ==
  /\ level = [b \in Blocks |-> 0]
  /\ used = [b \in Blocks |-> {-1}]

Advance(S) ==
  /\ \A b \in S : \A n \in Nbrs[b] : level[n] >= level[b]
  /\ level' = [b \in Blocks |-> IF b \in S THEN level[b] + 1 ELSE level[b]]
  /\ used' = [b \in Blocks |-> IF b \in S THEN {level[b]} ELSE used[b]]

Next == \E S \in SUBSET Blocks : Advance(S)

Spec == Init /\ [][Next]_<<level, used>>
=============================================================================
