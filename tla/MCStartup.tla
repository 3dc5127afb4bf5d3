----------------------------- MODULE MCStartup -----------------------------
(***************************************************************************)
(* Startup with the decks of inputs/, reduced to what the code reads, and  *)
(* a few a user would write from them.                                     *)
(***************************************************************************)
EXTENDS Startup

Plain ==
  [problem |-> "blast", has |-> {"nghost", "gamma"}, nghost |-> 2, refinement |-> "unset",
   keys |-> [k \in Thresholds |-> None], test |-> FALSE, compute_error |-> FALSE, tlim |-> 1]

linear_wave3d ==
  [Plain EXCEPT !.problem = "linear_wave", !.has = @ \cup {"linear_wave"},
                !.test = TRUE, !.compute_error = TRUE]
blast ==
  [Plain EXCEPT !.refinement = "pressure_gradient", !.keys["threshold_pressure_gradient"] = 1]
kh == [Plain EXCEPT !.problem = "kh", !.keys["threshold_xyvelocity_gradient"] = 1]
sod == [Plain EXCEPT !.problem = "sod"]

\* kh with its commented line in place, and with the key the code reads.
kh_amr == [kh EXCEPT !.refinement = "xyvelocity_gradient"]
kh_amr_read ==
  [kh_amr EXCEPT !.keys["threshold_xyvelosity_gradient"] = 1, !.keys["threshold_xyvelocity_gradient"] = None]

\* Density thresholds in order and swapped; too few ghosts; no wave block.
dense ==
  [blast EXCEPT !.refinement = "maxdensity",
                !.keys["maxdensity_deref_below"] = 1, !.keys["maxdensity_refine_above"] = 2]
dense_swapped ==
  [dense EXCEPT !.keys["maxdensity_deref_below"] = 2, !.keys["maxdensity_refine_above"] = 1]
one_ghost == [Plain EXCEPT !.nghost = 1]
no_wave == [linear_wave3d EXCEPT !.has = {"nghost", "gamma"}]

Shipped == {linear_wave3d, blast, kh, sod}
AllDecks == Shipped \cup {kh_amr, kh_amr_read, dense, dense_swapped, one_ghost, no_wave}
=============================================================================
