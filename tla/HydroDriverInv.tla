--------------------------- MODULE HydroDriverInv ---------------------------
(***************************************************************************)
(* The inductive invariant of HydroDriver.  Its idea: everything the       *)
(* program computes is determined by how often each list has completed     *)
(* each of its tasks since the beginning of the run.                       *)
(***************************************************************************)
EXTENDS HydroDriver

\* The time level a rank's current stage starts from.
StageLevel(r) == base + stage[r] - 1

\* How often pack p has completed task t, and block b task t, in all stages.
Count(p, t) == StageLevel(RankOf[p]) + IF t \in pdone[p] THEN 1 ELSE 0
BCount(b, t) == StageLevel(Rank(b)) + IF t \in bdone[b] THEN 1 ELSE 0
CountB(b, t) == Count(PartOf[b], t)

\* Which tasks can have completed in the region a rank is in.
PackOrder(p) ==
  LET reg == region[RankOf[p]] IN
  /\ \A t \in pdone[p] : Deps(t) \subseteq pdone[p]
  /\ reg = 1 => pdone[p] = {}
  /\ reg < 4 => pdone[p] \subseteq FluxTask
  /\ reg > 2 => FluxTask \subseteq pdone[p]
  /\ reg > 4 => "fill_derived" \in pdone[p]
  /\ reg > 4 /\ LastStage(RankOf[p]) => "new_dt" \in pdone[p]
  /\ "new_dt" \in pdone[p] => LastStage(RankOf[p])

BlockOrder(b) ==
  LET reg == region[Rank(b)] IN
  /\ "init_u1" \in bdone[b] => stage[Rank(b)] = 1
  /\ stage[Rank(b)] = 1 /\ reg > 1 => "init_u1" \in bdone[b]
  /\ reg < 3 => "set_bc" \notin bdone[b]
  /\ reg > 3 => "set_bc" \in bdone[b]
  /\ "tag_refine" \in bdone[b] => reg >= 5 /\ LastStage(Rank(b))
  /\ reg > 5 => "tag_refine" \in bdone[b]

Order ==
  /\ \A r \in Ranks : region[r] <= NumRegions(r) + 1
  /\ \A p \in Parts : PackOrder(p)
  /\ \A b \in Blocks : BlockOrder(b)

\* The time level of every zone.
Levels(b) ==
  /\ cons[b][b] = CountB(b, "update")
  /\ \A n \in Nbrs[b] : cons[b][n] = CountB(b, "set_bnd")
  /\ cons[b][Phys] = BCount(b, "set_bc")
  /\ \A z \in Zones(b) : prim[b][z] = CountB(b, "fill_derived")

\* The resolution a face flux is applied at: that of the finer side.
FaceRes(b, f) == IF f \in Finer[b] THEN Level[f] ELSE Level[b]

FluxAt(res, lvl) == [res |-> res, own |-> lvl, nbr |-> lvl]

Fluxes(b) ==
  \A f \in Faces(b) :
    /\ CountB(b, "calc_flux") > 0 =>
         flux[b][f] = FluxAt(IF CountB(b, "set_flx") < CountB(b, "calc_flux")
                             THEN Level[b] ELSE FaceRes(b, f), CountB(b, "calc_flux") - 1)
    /\ applied[b][f] = IF CountB(b, "update") > 0
                       THEN FluxAt(FaceRes(b, f), CountB(b, "update") - 1)
                       ELSE NoFlux

\* A buffer holds the messages sent and not yet unpacked, in order.
BndMessages(b, n) ==
  IF n \in Nbrs[b]
  THEN /\ Len(bndBuf[b][n]) = CountB(b, "send_bnd") - CountB(n, "set_bnd")
       /\ \A i \in 1 .. Len(bndBuf[b][n]) : bndBuf[b][n][i] = CountB(n, "set_bnd") + i
  ELSE bndBuf[b][n] = << >>

FluxMessages(b, n) ==
  IF n \in Coarser[b]
  THEN /\ Len(fluxBuf[b][n]) = CountB(b, "send_flx") - CountB(n, "set_flx")
       /\ \A i \in 1 .. Len(fluxBuf[b][n]) :
            fluxBuf[b][n][i] = FluxAt(Level[b], CountB(n, "set_flx") + i - 1)
  ELSE fluxBuf[b][n] = << >>

\* A completed receive has found a message in every buffer.
Received(b) ==
  /\ CountB(b, "set_bnd") < CountB(b, "recv_bnd") => \A n \in Nbrs[b] : bndBuf[n][b] # << >>
  /\ CountB(b, "set_flx") < CountB(b, "recv_flx") => \A n \in Finer[b] : fluxBuf[n][b] # << >>

\* The registers and decisions of the cycle.
CycleData(b) ==
  /\ stage[Rank(b)] > 1 \/ "init_u1" \in bdone[b] => u1[b] = base
  /\ dtFrom[b] = base
  /\ "new_dt" \in pdone[PartOf[b]] => newDt[b] = base + NStages
  /\ "tag_refine" \in bdone[b] => tag[b] = base + NStages

\* All of it; HydroDriver_proofs shows that every step preserves it.
IInv ==
  /\ TypeOK
  /\ Order
  /\ \A b \in Blocks : Levels(b) /\ Fluxes(b) /\ Received(b) /\ CycleData(b)
  /\ \A b, n \in Blocks : BndMessages(b, n) /\ FluxMessages(b, n)
=============================================================================
