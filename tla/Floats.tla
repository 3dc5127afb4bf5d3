------------------------------- MODULE Floats -------------------------------
(***************************************************************************)
(* The arithmetic of parthenon::Real: any deterministic operations on a    *)
(* set with a NaN, rounded as they may be.  The modules that compute with  *)
(* the state of a cell take nothing else from it.                          *)
(***************************************************************************)
EXTENDS Integers

CONSTANTS
  FP, NaN, Zero, Half, One,
  Add(_, _), Sub(_, _), Mul(_, _), Div(_, _), Sqrt(_), Abs(_), Gt(_, _)

ASSUME FPAssumption ==
  /\ {NaN, Zero, Half, One} \subseteq FP /\ Zero # NaN
  /\ \A x \in FP : Sqrt(x) \in FP /\ Abs(x) \in FP
  /\ \A x, y \in FP : /\ Add(x, y) \in FP /\ Sub(x, y) \in FP
                      /\ Mul(x, y) \in FP /\ Div(x, y) \in FP
                      /\ Gt(x, y) \in BOOLEAN

\* Comparisons with a NaN are false; on the other values > is a strict
\* weak order (two zeros differ and neither is greater).
ASSUME OrderAssumption ==
  /\ \A x \in FP : ~Gt(x, NaN) /\ ~Gt(NaN, x) /\ ~Gt(x, x)
  /\ \A x, y, z \in FP : Gt(x, y) /\ Gt(y, z) => Gt(x, z)
  /\ \A x, y, z \in FP \ {NaN} : Gt(x, z) => Gt(x, y) \/ Gt(y, z)

\* A sum and a product with a NaN is one.
ASSUME NaNAssumption ==
  \A x \in FP : /\ Add(x, NaN) = NaN /\ Add(NaN, x) = NaN
                /\ Mul(x, NaN) = NaN /\ Mul(NaN, x) = NaN

Sqr(x) == Mul(x, x)
=============================================================================
