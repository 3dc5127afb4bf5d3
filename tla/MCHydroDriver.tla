---------------------------- MODULE MCHydroDriver ----------------------------
(***************************************************************************)
(* Small meshes for HydroDriver: the operators below are the values the    *)
(* configurations give to its constants.                                   *)
(***************************************************************************)
EXTENDS HydroDriverInv, TLC

CONSTANTS a, b, c,   \* blocks
          p, q, t,   \* packs
          r, s       \* ranks

\* Two fine blocks in one pack next to a coarse block on another rank, all
\* three meeting, as blocks around an edge of the mesh do.
JumpBlocks == {a, b, c}
JumpPartOf == (a :> p) @@ (b :> p) @@ (c :> q)
JumpRankOf == (p :> r) @@ (q :> s)
JumpNbrs == [x \in JumpBlocks |-> JumpBlocks \ {x}]
JumpLevel == (a :> 1) @@ (b :> 1) @@ (c :> 0)

\* Three blocks in a row.  Rank r holds the left one and the coarse middle
\* one in two packs, rank s the fine one on the right.
RowPartOf == (a :> p) @@ (b :> q) @@ (c :> t)
RowRankOf == (p :> r) @@ (q :> r) @@ (t :> s)
RowNbrs == (a :> {b}) @@ (b :> {a, c}) @@ (c :> {b})
RowLevel == (a :> 0) @@ (b :> 0) @@ (c :> 1)
=============================================================================
