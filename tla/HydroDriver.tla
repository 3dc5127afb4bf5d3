----------------------------- MODULE HydroDriver -----------------------------
(***************************************************************************)
(* The task collection HydroDriver::MakeTaskCollection builds for every    *)
(* stage of an integration cycle, executed by several MPI ranks.           *)
(*                                                                         *)
(* A rank runs the regions of the collection one after the other; inside a *)
(* region every task list (one per block, or one per pack of blocks) runs  *)
(* its tasks in any order the AddTask dependencies allow.  Ranks meet only *)
(* at the end of a cycle; in between they are coupled by the flux          *)
(* correction and boundary buffers alone.                                  *)
(*                                                                         *)
(* Field data are abstracted to their time level: the number of stage      *)
(* updates the data went through.  A block's array holds several zones:    *)
(* its interior, the ghost cells copied from each neighbour, and the ghost *)
(* cells at the physical boundary.  A face flux is the resolution it was   *)
(* computed at and the time levels of the states on its two sides.         *)
(***************************************************************************)
EXTENDS Integers, Sequences

CONSTANTS
  Ranks,      \* the MPI processes
  Parts,      \* the packs of blocks (MeshData partitions) of all ranks
  Blocks,     \* the mesh blocks
  RankOf,     \* the rank that owns a pack
  PartOf,     \* the pack that holds a block
  Nbrs,       \* the neighbours of a block
  Level,      \* the refinement level of a block
  Phys,       \* the physical boundary, a zone that belongs to no block
  NStages,    \* integrator->nstages: rk1 1, vl2 and rk2 2, rk3 3
  Adaptive,   \* pmesh->adaptive
  BufCap,     \* messages a communication buffer holds before the sender waits
  MaxCycles   \* parthenon/time/nlim

ASSUME TopologyAssumption ==
  /\ RankOf \in [Parts -> Ranks]
  /\ PartOf \in [Blocks -> Parts]
  /\ Nbrs \in [Blocks -> SUBSET Blocks]
  /\ \A b \in Blocks : b \notin Nbrs[b] /\ \A n \in Nbrs[b] : b \in Nbrs[n]
  /\ Level \in [Blocks -> Nat]
  /\ Phys \notin Blocks

ASSUME ParameterAssumption ==
  /\ NStages \in Nat \ {0}
  /\ Adaptive \in BOOLEAN
  /\ BufCap \in Nat \ {0}
  /\ MaxCycles \in Nat

VARIABLES
  ncycle,   \* tm.ncycle, completed cycles
  base,     \* time level every block had when the current cycle began
  stage,    \* per rank, the stage whose task collection is executing
  region,   \* per rank, the region of that collection
  bdone,    \* per block list, the tasks completed in this stage
  pdone,    \* per pack list, the tasks completed in this stage
  cons,     \* register u0 ("base"), field "cons": time level of each zone
  u1,       \* register u1, field "cons": time level of the interior
  prim,     \* field "prim": time level of each zone
  flux,     \* flux arrays of u0, per face
  applied,  \* the face fluxes the last update of a block folded in
  fluxBuf,  \* flux correction messages, sender to receiver
  bndBuf,   \* boundary messages, sender to receiver
  dtFrom,   \* per block, the time level the dt in use was estimated from
  newDt,    \* per block, the time level the next dt is estimated from
  tag       \* per block, the time level the AMR tag was taken from

ctrlVars == <<ncycle, base, stage, region>>
fieldVars == <<cons, u1, prim>>
fluxVars == <<flux, applied>>
bufVars == <<fluxBuf, bndBuf>>
stepVars == <<dtFrom, newDt, tag>>
vars == <<ctrlVars, bdone, pdone, fieldVars, fluxVars, bufVars, stepVars>>

NoData == -1                        \* never written
TimeLevel == Nat \cup {NoData}
Flux == [res : Nat, own : TimeLevel, nbr : TimeLevel]
NoFlux == [res |-> 0, own |-> NoData, nbr |-> NoData]

BlockTask == {"init_u1", "set_bc", "tag_refine"}
FluxTask == {"start_recv_bnd", "start_recv_flx", "calc_flux", "send_flx",
             "recv_flx", "set_flx", "update", "send_bnd", "recv_bnd", "set_bnd"}
PackTask == FluxTask \cup {"fill_derived", "new_dt"}

Rank(b) == RankOf[PartOf[b]]
Faces(b) == Nbrs[b] \cup {Phys}
Zones(b) == Faces(b) \cup {b}
Finer == [b \in Blocks |-> {n \in Nbrs[b] : Level[n] > Level[b]}]
Coarser == [b \in Blocks |-> {n \in Nbrs[b] : Level[n] < Level[b]}]

-----------------------------------------------------------------------------
(* The collection: which tasks a region holds, and on what a task waits.   *)

LastStage(r) == stage[r] = NStages
NumRegions(r) == IF LastStage(r) /\ Adaptive THEN 5 ELSE 4

\* u1 is overwritten in every stage, not in the first one only.
BlockTasksInitAlways(r) ==
  CASE region[r] = 1 -> {"init_u1"}
    [] region[r] = 3 -> {"set_bc"}
    [] region[r] = 5 /\ NumRegions(r) = 5 -> {"tag_refine"}
    [] OTHER -> {}

BlockTasks(r) ==
  CASE region[r] = 1 -> IF stage[r] = 1 THEN {"init_u1"} ELSE {}
    [] region[r] = 3 -> {"set_bc"}
    [] region[r] = 5 /\ NumRegions(r) = 5 -> {"tag_refine"}
    [] OTHER -> {}

\* The next dt is estimated in the first stage instead of the last.
PackTasksFirstStageDt(r) ==
  CASE region[r] = 2 -> FluxTask
    [] region[r] = 4 -> {"fill_derived"} \cup IF stage[r] = 1 THEN {"new_dt"} ELSE {}
    [] OTHER -> {}

PackTasks(r) ==
  CASE region[r] = 2 -> FluxTask
    [] region[r] = 4 -> {"fill_derived"} \cup IF LastStage(r) THEN {"new_dt"} ELSE {}
    [] OTHER -> {}

Deps(t) ==
  CASE t \in {"send_flx", "recv_flx"} -> {"calc_flux"}
    [] t = "set_flx" -> {"recv_flx"}
    [] t = "update" -> {"set_flx"}
    [] t \in {"send_bnd", "recv_bnd"} -> {"update"}
    [] t = "set_bnd" -> {"recv_bnd"}
    [] t = "new_dt" -> {"fill_derived"}
    [] OTHER -> {}

\* One cycle too many.
KeepGoingOneMore == ncycle <= MaxCycles

KeepGoing == ncycle < MaxCycles

\* Block task t runs and completes; block tasks depend on `none'.
RunBlock(b, t) ==
  /\ KeepGoing
  /\ t \in BlockTasks(Rank(b)) \ bdone[b]
  /\ bdone' = [bdone EXCEPT ![b] = @ \cup {t}]
  /\ UNCHANGED <<ctrlVars, pdone>>

\* Pack task t runs and completes once its dependencies have completed.
RunPack(p, t) ==
  /\ KeepGoing
  /\ t \in PackTasks(RankOf[p]) \ pdone[p]
  /\ Deps(t) \subseteq pdone[p]
  /\ pdone' = [pdone EXCEPT ![p] = @ \cup {t}]
  /\ UNCHANGED <<ctrlVars, bdone>>

Init ==
  /\ ncycle = 0
  /\ base = 0
  /\ stage = [r \in Ranks |-> 1]
  /\ region = [r \in Ranks |-> 1]
  /\ bdone = [b \in Blocks |-> {}]
  /\ pdone = [p \in Parts |-> {}]
  /\ cons = [b \in Blocks |-> [z \in Zones(b) |-> 0]]
  /\ u1 = [b \in Blocks |-> NoData]
  /\ prim = [b \in Blocks |-> [z \in Zones(b) |-> 0]]
  /\ flux = [b \in Blocks |-> [f \in Faces(b) |-> NoFlux]]
  /\ applied = [b \in Blocks |-> [f \in Faces(b) |-> NoFlux]]
  /\ fluxBuf = [b \in Blocks |-> [n \in Blocks |-> << >>]]
  /\ bndBuf = [b \in Blocks |-> [n \in Blocks |-> << >>]]
  /\ dtFrom = [b \in Blocks |-> 0]
  /\ newDt = [b \in Blocks |-> NoData]
  /\ tag = [b \in Blocks |-> NoData]

-----------------------------------------------------------------------------
(* Region 1, async_region_1: one list per block.                           *)

\* Register u1 keeps the state the cycle starts from.
InitU1(b) ==
  /\ RunBlock(b, "init_u1")
  /\ u1' = [u1 EXCEPT ![b] = cons[b][b]]
  /\ UNCHANGED <<cons, prim, fluxVars, bufVars, stepVars>>

-----------------------------------------------------------------------------
(* Region 2, single_tasklist_per_pack_region: one list per pack.           *)

\* Posting the receives; nothing in the list waits for either task.
StartReceive(p) ==
  /\ \E t \in {"start_recv_bnd", "start_recv_flx"} : RunPack(p, t)
  /\ UNCHANGED <<fieldVars, fluxVars, bufVars, stepVars>>

\* The Riemann problem on face f of b, at b's resolution.
FaceFlux(b, f) == [res |-> Level[b], own |-> prim[b][b], nbr |-> prim[b][f]]

CalculateFluxes(p) ==
  /\ RunPack(p, "calc_flux")
  /\ flux' = [b \in Blocks |->
       IF PartOf[b] = p THEN [f \in Faces(b) |-> FaceFlux(b, f)] ELSE flux[b]]
  /\ UNCHANGED <<fieldVars, applied, bufVars, stepVars>>

\* All messages of pack p go out together, and only when every buffer has
\* room: the task is incomplete, and polled again, until then.
CanSend(p, buf, to) ==
  \A b \in Blocks : PartOf[b] = p => \A n \in to[b] : Len(buf[b][n]) < BufCap

Sent(p, buf, to, msg) ==
  [b \in Blocks |-> [n \in Blocks |->
     IF PartOf[b] = p /\ n \in to[b] THEN Append(buf[b][n], msg[b][n]) ELSE buf[b][n]]]

\* Something has arrived from every sender the pack expects a message from.
Arrived(p, buf, from) ==
  \A b \in Blocks : PartOf[b] = p => \A n \in from[b] : buf[n][b] # << >>

Consumed(p, buf, from) ==
  [n \in Blocks |-> [b \in Blocks |->
     IF PartOf[b] = p /\ n \in from[b] /\ buf[n][b] # << >>
     THEN Tail(buf[n][b]) ELSE buf[n][b]]]

\* Unpacking a buffer nothing arrived in reads what the buffer happens to hold.
Unpack(buf, garbage) == IF buf = << >> THEN garbage ELSE Head(buf)

\* Corrections go from coarse to fine.
LoadAndSendDownward(p) ==
  /\ RunPack(p, "send_flx")
  /\ CanSend(p, fluxBuf, Finer)
  /\ fluxBuf' = Sent(p, fluxBuf, Finer, flux)
  /\ UNCHANGED <<fieldVars, fluxVars, bndBuf, stepVars>>

LoadAndSendFluxCorrections(p) ==
  /\ RunPack(p, "send_flx")
  /\ CanSend(p, fluxBuf, Coarser)
  /\ fluxBuf' = Sent(p, fluxBuf, Coarser, flux)
  /\ UNCHANGED <<fieldVars, fluxVars, bndBuf, stepVars>>

\* Completes although corrections are still on their way.
ReceiveFluxCorrectionsEarly(p) ==
  /\ RunPack(p, "recv_flx")
  /\ UNCHANGED <<fieldVars, fluxVars, bufVars, stepVars>>

ReceiveFluxCorrections(p) ==
  /\ RunPack(p, "recv_flx")
  /\ Arrived(p, fluxBuf, Finer)
  /\ UNCHANGED <<fieldVars, fluxVars, bufVars, stepVars>>

\* A face flux seen from the other side of the face.
Mirror(f) == [res |-> f.res, own |-> f.nbr, nbr |-> f.own]

\* The fine flux replaces the coarse one on faces shared with finer blocks.
SetFluxCorrections(p) ==
  /\ RunPack(p, "set_flx")
  /\ flux' = [b \in Blocks |-> [f \in Faces(b) |->
       IF PartOf[b] = p /\ f \in Finer[b]
       THEN Mirror(Unpack(fluxBuf[f][b], NoFlux)) ELSE flux[b][f]]]
  /\ fluxBuf' = Consumed(p, fluxBuf, Finer)
  /\ UNCHANGED <<fieldVars, applied, bndBuf, stepVars>>

\* u0 = gam0 u0 + gam1 u1 + beta dt div F on the interior of every block.
Update(p) ==
  /\ RunPack(p, "update")
  /\ cons' = [b \in Blocks |-> [z \in Zones(b) |->
       IF PartOf[b] = p /\ z = b THEN cons[b][b] + 1 ELSE cons[b][z]]]
  /\ applied' = [b \in Blocks |-> IF PartOf[b] = p THEN flux[b] ELSE applied[b]]
  /\ UNCHANGED <<u1, prim, flux, bufVars, stepVars>>

SendBoundBufs(p) ==
  /\ RunPack(p, "send_bnd")
  /\ CanSend(p, bndBuf, Nbrs)
  /\ bndBuf' = Sent(p, bndBuf, Nbrs, [b \in Blocks |-> [n \in Nbrs[b] |-> cons[b][b]]])
  /\ UNCHANGED <<fieldVars, fluxVars, fluxBuf, stepVars>>

\* Completes although boundary data are still on their way.
ReceiveBoundBufsEarly(p) ==
  /\ RunPack(p, "recv_bnd")
  /\ UNCHANGED <<fieldVars, fluxVars, bufVars, stepVars>>

ReceiveBoundBufs(p) ==
  /\ RunPack(p, "recv_bnd")
  /\ Arrived(p, bndBuf, Nbrs)
  /\ UNCHANGED <<fieldVars, fluxVars, bufVars, stepVars>>

\* Ghost cells from the messages; prolongation at level jumps is part of it.
SetBounds(p) ==
  /\ RunPack(p, "set_bnd")
  /\ cons' = [b \in Blocks |-> [z \in Zones(b) |->
       IF PartOf[b] = p /\ z \in Nbrs[b] THEN Unpack(bndBuf[z][b], NoData)
       ELSE cons[b][z]]]
  /\ bndBuf' = Consumed(p, bndBuf, Nbrs)
  /\ UNCHANGED <<u1, prim, fluxVars, fluxBuf, stepVars>>

\* A send or receive that cannot complete yet reports TaskStatus::incomplete:
\* nothing changes, and the list is polled again.
Incomplete(p) ==
  /\ KeepGoing
  /\ \E t \in PackTasks(RankOf[p]) \ pdone[p] :
       /\ Deps(t) \subseteq pdone[p]
       /\ \/ t = "send_flx" /\ ~CanSend(p, fluxBuf, Coarser)
          \/ t = "recv_flx" /\ ~Arrived(p, fluxBuf, Finer)
          \/ t = "send_bnd" /\ ~CanSend(p, bndBuf, Nbrs)
          \/ t = "recv_bnd" /\ ~Arrived(p, bndBuf, Nbrs)
  /\ UNCHANGED vars

-----------------------------------------------------------------------------
(* Regions 3, 4 and 5.                                                     *)

\* A physical ghost cell (an arbitrary one is followed) repeats a cell of the
\* interior or, at a corner of the block, a ghost cell of some neighbour.
ApplyBoundaryConditions(b) ==
  /\ RunBlock(b, "set_bc")
  /\ \E z \in Nbrs[b] \cup {b} : cons' = [cons EXCEPT ![b][Phys] = cons[b][z]]
  /\ UNCHANGED <<u1, prim, fluxVars, bufVars, stepVars>>

\* ConservedToPrimitive over the interior only.
FillDerivedInterior(p) ==
  /\ RunPack(p, "fill_derived")
  /\ prim' = [b \in Blocks |->
       IF PartOf[b] = p THEN [prim[b] EXCEPT ![b] = cons[b][b]] ELSE prim[b]]
  /\ UNCHANGED <<cons, u1, fluxVars, bufVars, stepVars>>

\* ConservedToPrimitive over the entire domain of every block, ghosts included.
FillDerived(p) ==
  /\ RunPack(p, "fill_derived")
  /\ prim' = [b \in Blocks |-> IF PartOf[b] = p THEN cons[b] ELSE prim[b]]
  /\ UNCHANGED <<cons, u1, fluxVars, bufVars, stepVars>>

\* The minimum over the interior cells of the pack becomes each block's dt.
EstimateTimestep(p) ==
  /\ RunPack(p, "new_dt")
  /\ newDt' = [b \in Blocks |-> IF PartOf[b] = p THEN prim[b][b] ELSE newDt[b]]
  /\ UNCHANGED <<fieldVars, fluxVars, bufVars, dtFrom, tag>>

\* The cell that decides the tag may lie in any zone of the block: the
\* criteria difference across ghost cells.
TagRefine(b) ==
  /\ RunBlock(b, "tag_refine")
  /\ \E z \in Zones(b) : tag' = [tag EXCEPT ![b] = prim[b][z]]
  /\ UNCHANGED <<fieldVars, fluxVars, bufVars, dtFrom, newDt>>

-----------------------------------------------------------------------------
(* TaskCollection::Execute, MultiStageDriver::Step and the cycle loop.     *)

\* A region is over when every list in it is; then the next one starts.
CompleteRegion(r) ==
  /\ KeepGoing
  /\ region[r] <= NumRegions(r)
  /\ \A b \in Blocks : Rank(b) = r => BlockTasks(r) \subseteq bdone[b]
  /\ \A p \in Parts : RankOf[p] = r => PackTasks(r) \subseteq pdone[p]
  /\ region' = [region EXCEPT ![r] = @ + 1]
  /\ UNCHANGED <<ncycle, base, stage, bdone, pdone, fieldVars, fluxVars, bufVars, stepVars>>

StageOver(r) == region[r] = NumRegions(r) + 1

\* MakeTaskCollection for the next stage: new lists, no task done.
NextStage(r) ==
  /\ StageOver(r) /\ ~LastStage(r)
  /\ stage' = [stage EXCEPT ![r] = @ + 1]
  /\ region' = [region EXCEPT ![r] = 1]
  /\ bdone' = [b \in Blocks |-> IF Rank(b) = r THEN {} ELSE bdone[b]]
  /\ pdone' = [p \in Parts |-> IF RankOf[p] = r THEN {} ELSE pdone[p]]
  /\ UNCHANGED <<ncycle, base, fieldVars, fluxVars, bufVars, stepVars>>

\* The collective end of a cycle: the global minimum of the block time steps
\* becomes the dt of the next cycle, and the block time steps are reset.
EndCycle ==
  /\ KeepGoing
  /\ \A r \in Ranks : StageOver(r) /\ LastStage(r)
  /\ ncycle' = ncycle + 1
  /\ base' = base + NStages
  /\ stage' = [r \in Ranks |-> 1]
  /\ region' = [r \in Ranks |-> 1]
  /\ bdone' = [b \in Blocks |-> {}]
  /\ pdone' = [p \in Parts |-> {}]
  /\ dtFrom' = newDt
  /\ newDt' = [b \in Blocks |-> NoData]
  /\ UNCHANGED <<fieldVars, fluxVars, bufVars, tag>>

\* Execute has returned.
Terminated == ~KeepGoing /\ UNCHANGED vars

PackStep(p) ==
  \/ StartReceive(p) \/ CalculateFluxes(p)
  \/ LoadAndSendFluxCorrections(p) \/ ReceiveFluxCorrections(p) \/ SetFluxCorrections(p)
  \/ Update(p)
  \/ SendBoundBufs(p) \/ ReceiveBoundBufs(p) \/ SetBounds(p)
  \/ Incomplete(p)
  \/ FillDerived(p) \/ EstimateTimestep(p)

BlockStep(b) == InitU1(b) \/ ApplyBoundaryConditions(b) \/ TagRefine(b)

RankStep(r) ==
  \/ \E p \in Parts : RankOf[p] = r /\ PackStep(p)
  \/ \E b \in Blocks : Rank(b) = r /\ BlockStep(b)
  \/ CompleteRegion(r)
  \/ NextStage(r)

Next == (\E r \in Ranks : RankStep(r)) \/ EndCycle \/ Terminated

\* A rank keeps polling its task lists, and the collective completes once
\* every rank has entered it.
Fairness == (\A r \in Ranks : WF_vars(RankStep(r))) /\ WF_vars(EndCycle)

Spec == Init /\ [][Next]_vars /\ Fairness

-----------------------------------------------------------------------------
(* Properties.                                                             *)

CtrlType ==
  /\ ncycle \in 0 .. MaxCycles
  /\ base \in Nat
  /\ stage \in [Ranks -> 1 .. NStages]
  /\ region \in [Ranks -> 1 .. 6]
  /\ bdone \in [Blocks -> SUBSET BlockTask]
  /\ pdone \in [Parts -> SUBSET PackTask]

FieldType ==
  /\ DOMAIN cons = Blocks /\ DOMAIN prim = Blocks
  /\ \A b \in Blocks : /\ cons[b] \in [Zones(b) -> TimeLevel]
                       /\ prim[b] \in [Zones(b) -> TimeLevel]

FluxType ==
  /\ DOMAIN flux = Blocks /\ DOMAIN applied = Blocks
  /\ \A b \in Blocks : /\ flux[b] \in [Faces(b) -> Flux]
                       /\ applied[b] \in [Faces(b) -> Flux]

BufType ==
  /\ fluxBuf \in [Blocks -> [Blocks -> Seq(Flux)]]
  /\ bndBuf \in [Blocks -> [Blocks -> Seq(TimeLevel)]]

StepType ==
  /\ u1 \in [Blocks -> TimeLevel]
  /\ dtFrom \in [Blocks -> TimeLevel]
  /\ newDt \in [Blocks -> TimeLevel]
  /\ tag \in [Blocks -> TimeLevel]

\* Every variable has the type its declaration says.
TypeOK == CtrlType /\ FieldType /\ FluxType /\ BufType /\ StepType

\* Every update, and so every block's solution, is computed from one time
\* level: on each face both states are those the update started from, the
\* ghost state included.  This is what the regions and dependencies of
\* MakeTaskCollection are for, whatever the ranks' relative speed.
UpdateUsesOneTimeLevel ==
  \A b \in Blocks : cons[b][b] > 0 =>
    \A f \in Faces(b) : applied[b][f].own = cons[b][b] - 1 /\ applied[b][f].nbr = cons[b][b] - 1

\* "Correct for fluxes across levels (to maintain conservative nature of
\* update)": two neighbours that reached the same time level used the same
\* flux on their common face, at a level jump the one computed on the fine side.
Conservative ==
  \A b \in Blocks : \A n \in Nbrs[b] :
    cons[b][b] = cons[n][n] => applied[b][n] = Mirror(applied[n][b])

\* Whenever an update runs, register u1 holds the state its cycle began with,
\* and dt was estimated from that same state: the stages of a cycle all
\* combine the same u1 and the same dt.
UpdateUsesCycleStart ==
  [][\A b \in Blocks : cons'[b][b] # cons[b][b] => u1[b] = base /\ dtFrom[b] = base]_vars

\* The decisions taken at the end of a cycle, the next dt and the refinement
\* tags, come from the final state of every block, never from an
\* intermediate stage, a previous cycle, or a stale ghost zone.
DecisionsUseFinalState ==
  [][ncycle' # ncycle =>
       \A b \in Blocks :
         /\ cons[b][b] = base' /\ dtFrom'[b] = base'
         /\ Adaptive => tag[b] = base']_vars

\* No sender runs ahead of a receiver by more than two boundary messages or
\* one flux correction, however large the buffers: a stage needs the boundary
\* data of the stage before, which the receiver sends after its own update.
\* The driver never needs a deeper buffer to make progress.
BoundedInFlight ==
  \A b, n \in Blocks : Len(bndBuf[b][n]) <= 2 /\ Len(fluxBuf[b][n]) <= 1

\* Execute terminates: no rank waits for ever for a message or for a full
\* buffer, and all the cycles of the run are completed.
RunCompletes == <>(ncycle = MaxCycles)

\* The collection implements the stages of an integrator without tasks or
\* messages: blocks advance one level at a time, each from one time level.
Sync == INSTANCE BulkSync WITH
  level <- [b \in Blocks |-> cons[b][b]],
  used <- [b \in Blocks |-> {applied[b][f].own : f \in Faces(b)}
                              \cup {applied[b][f].nbr : f \in Faces(b)}]

ImplementsBulkSync == Sync!Spec
=============================================================================
