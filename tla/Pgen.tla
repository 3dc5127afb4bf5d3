-------------------------------- MODULE Pgen --------------------------------
(***************************************************************************)
(* What the problem generators share: the deck of the run, the data they   *)
(* write, and gamma - 1.                                                   *)
(***************************************************************************)
EXTENDS Rationals

CONSTANTS Sqrt(_), None

VARIABLES
  deck,  \* the deck of the run
  u      \* what was written, or None

gm1 == deck.gamma \ominus One
=============================================================================
