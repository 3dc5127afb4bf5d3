------------------------------ MODULE MCFluxX2 ------------------------------
(***************************************************************************)
(* FluxX2 with three threads and two columns: one thread has no column of  *)
(* the first loop, another none of the second, and no column stays with    *)
(* the thread that reconstructed it.                                       *)
(***************************************************************************)
EXTENDS FluxX2, TLC

CONSTANTS t0, t1, t2

Uneven == [reconstruct |-> <<t0, t1>>, riemann |-> <<t2, t0>>]
=============================================================================
