----------------------------- MODULE FaceFluxes -----------------------------
(***************************************************************************)
(* What a flux kernel promises: every face is solved once, from the state  *)
(* reconstructed in the cell on its left and the one in the cell on its    *)
(* right, and what was written is never overwritten.  FluxX1 and FluxX2    *)
(* are shown to implement this module.                                     *)
(***************************************************************************)
CONSTANTS
  Faces,      \* the faces the kernel is called for
  Unsolved,   \* what a face holds before
  Solution    \* per face, the pair of cells its flux is computed from

VARIABLE flux

Init == flux = [f \in Faces |-> Unsolved]

Solve(f) ==
  /\ flux[f] = Unsolved
  /\ flux' = [flux EXCEPT ![f] = Solution[f]]

Next == \E f \in Faces : Solve(f)

Spec == Init /\ [][Next]_flux
=============================================================================
