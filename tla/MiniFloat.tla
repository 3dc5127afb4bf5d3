----------------------------- MODULE MiniFloat -----------------------------
(***************************************************************************)
(* A floating point small enough to enumerate, for the MC modules: the     *)
(* multiples of 1 / Unit rounded to the nearest, with an infinity at Big   *)
(* and a NaN.  Its rounding is coarse, so that what holds only in exact    *)
(* arithmetic does not hold in it.                                         *)
(***************************************************************************)
EXTENDS Integers

CONSTANTS Unit, Big, NaN

MCFP == ((0 - Big) .. Big) \cup {NaN}

Sat(x) == IF x > Big THEN Big ELSE IF x < -Big THEN -Big ELSE x
Inf(x) == x \in {-Big, Big}
Nearest(a, b) == IF b > 0 THEN (2 * a + b) \div (2 * b) ELSE (2 * (-a) - b) \div (2 * (-b))
Sign(x) == IF x < 0 THEN -1 ELSE 1

MCAdd(x, y) ==
  CASE x = NaN \/ y = NaN -> NaN
    [] OTHER -> IF Inf(x) \/ Inf(y)
                THEN IF x = -y THEN NaN ELSE IF Inf(x) THEN x ELSE y
                ELSE Sat(x + y)
MCSub(x, y) == IF y = NaN THEN NaN ELSE MCAdd(x, -y)
MCMul(x, y) ==
  CASE x = NaN \/ y = NaN -> NaN
    [] OTHER -> IF Inf(x) \/ Inf(y)
                THEN IF x = 0 \/ y = 0 THEN NaN ELSE Big * Sign(x) * Sign(y)
                ELSE Sat(Nearest(x * y, Unit))
MCDiv(x, y) ==
  CASE x = NaN \/ y = NaN -> NaN
    [] OTHER -> IF (x = 0 /\ y = 0) \/ (Inf(x) /\ Inf(y)) THEN NaN
                ELSE IF y = 0 \/ Inf(x) THEN Big * Sign(x) * Sign(y)
                ELSE IF Inf(y) THEN 0 ELSE Sat(Nearest(x * Unit, y))
MCSqrt(x) ==
  CASE x = NaN -> NaN
    [] OTHER -> IF x < 0 THEN NaN ELSE IF Inf(x) THEN x
                ELSE CHOOSE r \in 0 .. Big * Unit : r * r <= x * Unit /\ (r + 1) * (r + 1) > x * Unit
MCAbs(x) == IF x = NaN THEN NaN ELSE IF x < 0 THEN -x ELSE x
MCGt(x, y) == IF x = NaN \/ y = NaN THEN FALSE ELSE x > y
=============================================================================
