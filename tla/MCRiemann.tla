----------------------------- MODULE MCRiemann -----------------------------
(***************************************************************************)
(* Riemann over states at rest and against each other, faster than sound   *)
(* too, whose speed of sound is a whole number; any other root is rough.   *)
(***************************************************************************)
EXTENDS Riemann

Whole(s) == {n \in 1 .. 8 : R(n * n, 1) = s}
Rough(s) == {n \in 1 .. 96 : s \preceq R(n * n, 64) /\ R(n * n, 64) \preceq R(2, 1) \otimes s}
MCSqrt(s) == IF Whole(s) # {} THEN R(CHOOSE n \in Whole(s) : TRUE, 1)
             ELSE R(CHOOSE n \in Rough(s) : TRUE, 8)
W(d, v1, v2, v3, p) == <<R(d, 1), R(v1, 1), R(v2, 1), R(v3, 1), R(p, 1)>>
MCGamma == R(2, 1)
MCStates ==
  {W(2, 0, 0, 0, 4), W(8, 8, -2, 2, 16), W(2, -8, 0, 2, 16), W(2, 8, 2, 8, 4), W(8, -8, 0, 8, 16), W(2, 0, 2, 8, 16)}
=============================================================================
