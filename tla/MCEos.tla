------------------------------- MODULE MCEos -------------------------------
(***************************************************************************)
(* A row of two cells with periodic ghosts.                                *)
(***************************************************************************)
EXTENDS Eos

CONSTANTS Unit, Big
INSTANCE MiniFloat

MCCells == 0 .. 3
MCInterior == {1, 2}
MCOwner == [c \in MCCells |-> IF c = 0 THEN 2 ELSE IF c = 3 THEN 1 ELSE c]
MCDx == [n \in 1 .. 3 |-> 12 + 6 * n]

U(d, m1, m2, e) == [d |-> d, m |-> <<m1, m2, 0>>, e |-> e]
\* Smooth, empty and fast, cold, hot, and invalid in the density or in a momentum.
MCConsValues ==
  {U(6, 3, -3, 20), U(-3, 7, 0, 6), U(6, 0, 6, 2), U(2, 0, 0, 35), U(NaN, 3, 0, NaN), U(6, 0, NaN, 20)}
=============================================================================
