------------------------------ MODULE MCFluxX1 ------------------------------
(***************************************************************************)
(* One row of FluxX1 with a small team.  The two loops have different      *)
(* ranges, so an iteration moves from one thread to another between them.  *)
(***************************************************************************)
EXTENDS FluxX1, TLC

CONSTANTS t0, t1

Dealt == <<t0, t1>>

\* Iterations are dealt out in turn, counted from the start of the loop.
RoundRobin ==
  [loop \in {"reconstruct", "riemann"} |->
     [i \in 0 .. NX1 + 2 * NGhost - 1 |->
        Dealt[((i - (IF loop = "riemann" THEN NGhost ELSE NGhost - 1)) % 2) + 1]]]
=============================================================================
