----------------------------- MODULE MCCriteria -----------------------------
(***************************************************************************)
(* Two blocks and fields with a front or a spike anywhere, and a NaN       *)
(* next to it.                                                             *)
(***************************************************************************)
EXTENDS Criteria

CONSTANTS Unit, Big
INSTANCE MiniFloat

Vars == {"d", "v1", "v2", "p"}
Low(q) == IF q = "d" THEN 1 ELSE 6
High(q, h) == IF q = "d" THEN 3 ELSE h

\* All four variables high from column i on, or in one cell.
Front(s, h) == [q \in Vars |-> [c \in AllCells |-> IF c[3] >= s THEN High(q, h) ELSE Low(q)]]
Spike(s, h) == [q \in Vars |-> [c \in AllCells |-> IF c = s THEN High(q, h) ELSE Low(q)]]

\* The floors keep a NaN out of density and pressure.
WithNaN(f, s) == [q \in Vars |->
                    [c \in AllCells |-> IF c = s /\ q \in {"v1", "v2"} THEN NaN ELSE f[q][c]]]

Columns == {c[3] : c \in AllCells}
Faces == Columns \cap (1 .. 4)
MCFields ==
  {Front(i, 14) : i \in Faces} \cup {Front(2, 9)}
  \cup {Spike(<<0, j, 1>>, 14) : j \in {c[2] : c \in AllCells} \cap {-1, 0, 2}}
  \cup {WithNaN(Front(i, 14), <<0, 0, i - 1>>) : i \in Faces}
=============================================================================
