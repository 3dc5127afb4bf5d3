-------------------------- MODULE HydroDriver_proofs --------------------------
(***************************************************************************)
(* Theorems about HydroDriver for every mesh, every distribution of its    *)
(* blocks over packs and ranks, every number of stages and cycles, and     *)
(* every buffer capacity.                                                  *)
(***************************************************************************)
EXTENDS HydroDriverInv, TLAPS

USE TopologyAssumption, ParameterAssumption

-----------------------------------------------------------------------------
(* The collection.                                                         *)

LEMMA PackTasksByRegion ==
  ASSUME NEW r \in Ranks, NEW t \in PackTasks(r)
  PROVE  \/ region[r] = 2 /\ t \in FluxTask
         \/ region[r] = 4 /\ t = "fill_derived"
         \/ region[r] = 4 /\ LastStage(r) /\ t = "new_dt"
  BY DEF PackTasks

LEMMA BlockTasksByRegion ==
  ASSUME NEW r \in Ranks, NEW t \in BlockTasks(r)
  PROVE  \/ region[r] = 1 /\ stage[r] = 1 /\ t = "init_u1"
         \/ region[r] = 3 /\ t = "set_bc"
         \/ region[r] = 5 /\ NumRegions(r) = 5 /\ t = "tag_refine"
  BY DEF BlockTasks

LEMMA TaskTypes ==
  ASSUME NEW r \in Ranks
  PROVE  BlockTasks(r) \subseteq BlockTask /\ PackTasks(r) \subseteq PackTask
  BY PackTasksByRegion, BlockTasksByRegion DEF BlockTask, PackTask

-----------------------------------------------------------------------------
(* Type correctness.                                                       *)

LEMMA RunPackType ==
  ASSUME CtrlType, NEW p \in Parts, NEW t, RunPack(p, t)
  PROVE  CtrlType'
  <1>1. t \in PackTask
    BY TaskTypes DEF RunPack
  <1> QED
    BY <1>1 DEF CtrlType, RunPack, ctrlVars

LEMMA RunBlockType ==
  ASSUME CtrlType, NEW b \in Blocks, NEW t, RunBlock(b, t)
  PROVE  CtrlType'
  <1>1. t \in BlockTask
    BY TaskTypes DEF RunBlock, Rank
  <1> QED
    BY <1>1 DEF CtrlType, RunBlock, ctrlVars

LEMMA ZoneTypes ==
  ASSUME FieldType, FluxType, NEW b \in Blocks
  PROVE  /\ \A z \in Zones(b) : cons[b][z] \in TimeLevel /\ prim[b][z] \in TimeLevel
         /\ \A f \in Faces(b) : flux[b][f] \in Flux /\ applied[b][f] \in Flux
         /\ cons[b][b] \in TimeLevel /\ prim[b][b] \in TimeLevel
         /\ Nbrs[b] \subseteq Faces(b) /\ Faces(b) \subseteq Zones(b)
  <1>1. b \in Zones(b) /\ Nbrs[b] \subseteq Faces(b) /\ Faces(b) \subseteq Zones(b)
    BY DEF Zones, Faces
  <1> QED
    BY <1>1 DEF FieldType, FluxType

LEMMA LevelTypes == NoData \in TimeLevel /\ \A x \in TimeLevel : x + 1 \in TimeLevel
  BY DEF TimeLevel, NoData

LEMMA SentType ==
  ASSUME NEW S, NEW buf \in [Blocks -> [Blocks -> Seq(S)]], NEW p,
         NEW to \in [Blocks -> SUBSET Blocks], NEW msg,
         \A b \in Blocks : \A n \in to[b] : msg[b][n] \in S
  PROVE  Sent(p, buf, to, msg) \in [Blocks -> [Blocks -> Seq(S)]]
  BY DEF Sent

LEMMA ConsumedType ==
  ASSUME NEW S, NEW buf \in [Blocks -> [Blocks -> Seq(S)]], NEW p,
         NEW from \in [Blocks -> SUBSET Blocks]
  PROVE  Consumed(p, buf, from) \in [Blocks -> [Blocks -> Seq(S)]]
  <1>1. ASSUME NEW s \in Seq(S), s # << >> PROVE Tail(s) \in Seq(S)
    BY <1>1
  <1> QED
    BY <1>1 DEF Consumed

LEMMA UnpackType ==
  ASSUME NEW S, NEW s \in Seq(S), NEW g \in S
  PROVE  Unpack(s, g) \in S
  BY DEF Unpack

LEMMA Directions ==
  /\ Finer \in [Blocks -> SUBSET Blocks]
  /\ Coarser \in [Blocks -> SUBSET Blocks]
  /\ \A b \in Blocks : /\ Finer[b] \subseteq Nbrs[b]
                       /\ Coarser[b] \subseteq Nbrs[b]
                       /\ Finer[b] \cap Coarser[b] = {}
  /\ \A b \in Blocks : \A n \in Blocks : n \in Coarser[b] <=> b \in Finer[n]
  BY DEF Finer, Coarser

LEMMA TypeInit == Init => TypeOK
  <1> SUFFICES ASSUME Init PROVE TypeOK
    OBVIOUS
  <1>1. CtrlType
    BY DEF Init, CtrlType
  <1>2. FieldType
    BY DEF Init, FieldType, TimeLevel
  <1>3. FluxType
    BY DEF Init, FluxType, TimeLevel, Flux, NoFlux, NoData
  <1>4. BufType
    BY DEF Init, BufType
  <1>5. StepType
    BY DEF Init, StepType, TimeLevel, NoData
  <1> QED
    BY <1>1, <1>2, <1>3, <1>4, <1>5 DEF TypeOK

LEMMA TypeStep == TypeOK /\ [Next]_vars => TypeOK'
  <1> SUFFICES ASSUME CtrlType, FieldType, FluxType, BufType, StepType, [Next]_vars
               PROVE  CtrlType' /\ FieldType' /\ FluxType' /\ BufType' /\ StepType'
    BY DEF TypeOK
  <1> DEFINE Goal == CtrlType' /\ FieldType' /\ FluxType' /\ BufType' /\ StepType'
  <1> USE DEF fieldVars, fluxVars, bufVars, stepVars
  <1>1. ASSUME NEW b \in Blocks, InitU1(b) PROVE Goal
    <2>1. CtrlType'
      BY <1>1, RunBlockType DEF InitU1
    <2>2. StepType'
      BY <1>1, ZoneTypes DEF InitU1, StepType
    <2> QED
      BY <1>1, <2>1, <2>2 DEF InitU1, FieldType, FluxType, BufType
  <1>2. ASSUME NEW p \in Parts, StartReceive(p) PROVE Goal
    BY <1>2, RunPackType DEF StartReceive, FieldType, FluxType, BufType, StepType
  <1>3. ASSUME NEW p \in Parts, CalculateFluxes(p) PROVE Goal
    <2>1. CtrlType'
      BY <1>3, RunPackType DEF CalculateFluxes
    <2>2. \A b \in Blocks : \A f \in Faces(b) : FaceFlux(b, f) \in Flux
      BY ZoneTypes DEF FaceFlux, Flux
    <2>3. FluxType'
      BY <1>3, <2>2 DEF CalculateFluxes, FluxType
    <2> QED
      BY <1>3, <2>1, <2>3 DEF CalculateFluxes, FieldType, BufType, StepType
  <1>4. ASSUME NEW p \in Parts, LoadAndSendFluxCorrections(p) PROVE Goal
    <2>1. CtrlType'
      BY <1>4, RunPackType DEF LoadAndSendFluxCorrections
    <2>2. \A b \in Blocks : \A n \in Coarser[b] : flux[b][n] \in Flux
      BY Directions, ZoneTypes
    <2>3. BufType'
      BY <1>4, <2>2, SentType, Directions DEF LoadAndSendFluxCorrections, BufType
    <2> QED
      BY <1>4, <2>1, <2>3 DEF LoadAndSendFluxCorrections, FieldType, FluxType, StepType
  <1>5. ASSUME NEW p \in Parts, ReceiveFluxCorrections(p) PROVE Goal
    BY <1>5, RunPackType DEF ReceiveFluxCorrections, FieldType, FluxType, BufType, StepType
  <1>6. ASSUME NEW p \in Parts, SetFluxCorrections(p) PROVE Goal
    <2>1. CtrlType'
      BY <1>6, RunPackType DEF SetFluxCorrections
    <2>2. BufType'
      BY <1>6, ConsumedType, Directions DEF SetFluxCorrections, BufType
    <2>3. NoFlux \in Flux
      BY LevelTypes DEF NoFlux, Flux
    <2>4. \A b \in Blocks : \A f \in Blocks : Unpack(fluxBuf[f][b], NoFlux) \in Flux
      BY <2>3, UnpackType DEF BufType
    <2>5. \A x \in Flux : Mirror(x) \in Flux
      BY DEF Mirror, Flux
    <2>6. FluxType'
      BY <1>6, <2>4, <2>5, Directions, ZoneTypes DEF SetFluxCorrections, FluxType
    <2> QED
      BY <1>6, <2>1, <2>2, <2>6 DEF SetFluxCorrections, FieldType, StepType
  <1>7. ASSUME NEW p \in Parts, Update(p) PROVE Goal
    <2>1. CtrlType'
      BY <1>7, RunPackType DEF Update
    <2>2. FieldType'
      BY <1>7, ZoneTypes, LevelTypes DEF Update, FieldType
    <2> QED
      BY <1>7, <2>1, <2>2 DEF Update, FluxType, BufType, StepType
  <1>8. ASSUME NEW p \in Parts, SendBoundBufs(p) PROVE Goal
    <2>1. CtrlType'
      BY <1>8, RunPackType DEF SendBoundBufs
    <2>2. BufType'
      <3> DEFINE msg == [b \in Blocks |-> [n \in Nbrs[b] |-> cons[b][b]]]
      <3>1. \A b \in Blocks : \A n \in Nbrs[b] : msg[b][n] \in TimeLevel
        BY ZoneTypes
      <3>2. bndBuf' = Sent(p, bndBuf, Nbrs, msg)
        BY <1>8 DEF SendBoundBufs
      <3> HIDE DEF msg
      <3>3. bndBuf' \in [Blocks -> [Blocks -> Seq(TimeLevel)]]
        BY <3>1, <3>2, SentType DEF BufType
      <3> QED
        BY <1>8, <3>3 DEF BufType, SendBoundBufs
    <2> QED
      BY <1>8, <2>1, <2>2 DEF SendBoundBufs, FieldType, FluxType, StepType
  <1>9. ASSUME NEW p \in Parts, ReceiveBoundBufs(p) PROVE Goal
    BY <1>9, RunPackType DEF ReceiveBoundBufs, FieldType, FluxType, BufType, StepType
  <1>10. ASSUME NEW p \in Parts, SetBounds(p) PROVE Goal
    <2>1. CtrlType'
      BY <1>10, RunPackType DEF SetBounds
    <2>2. BufType'
      BY <1>10, ConsumedType DEF SetBounds, BufType
    <2>3. \A b \in Blocks : \A z \in Blocks : Unpack(bndBuf[z][b], NoData) \in TimeLevel
      BY UnpackType, LevelTypes DEF BufType
    <2>4. FieldType'
      BY <1>10, <2>3, ZoneTypes DEF SetBounds, FieldType
    <2> QED
      BY <1>10, <2>1, <2>2, <2>4 DEF SetBounds, FluxType, StepType
  <1>11. ASSUME NEW b \in Blocks, ApplyBoundaryConditions(b) PROVE Goal
    <2>1. CtrlType'
      BY <1>11, RunBlockType DEF ApplyBoundaryConditions
    <2>2. PICK z \in Nbrs[b] \cup {b} : cons' = [cons EXCEPT ![b][Phys] = cons[b][z]]
      BY <1>11 DEF ApplyBoundaryConditions
    <2>3. cons[b][z] \in TimeLevel
      BY ZoneTypes DEF Zones
    <2>4. FieldType'
      BY <1>11, <2>2, <2>3 DEF ApplyBoundaryConditions, FieldType
    <2> QED
      BY <1>11, <2>1, <2>4 DEF ApplyBoundaryConditions, FluxType, BufType, StepType
  <1>12. ASSUME NEW p \in Parts, FillDerived(p) PROVE Goal
    BY <1>12, RunPackType DEF FillDerived, FieldType, FluxType, BufType, StepType
  <1>13. ASSUME NEW p \in Parts, EstimateTimestep(p) PROVE Goal
    <2>1. CtrlType'
      BY <1>13, RunPackType DEF EstimateTimestep
    <2>2. StepType'
      BY <1>13, ZoneTypes DEF EstimateTimestep, StepType
    <2> QED
      BY <1>13, <2>1, <2>2 DEF EstimateTimestep, FieldType, FluxType, BufType
  <1>14. ASSUME NEW b \in Blocks, TagRefine(b) PROVE Goal
    <2>1. CtrlType'
      BY <1>14, RunBlockType DEF TagRefine
    <2>2. StepType'
      BY <1>14, ZoneTypes DEF TagRefine, StepType
    <2> QED
      BY <1>14, <2>1, <2>2 DEF TagRefine, FieldType, FluxType, BufType
  <1>15. ASSUME NEW r \in Ranks, CompleteRegion(r) PROVE Goal
    <2>1. CtrlType'
      BY <1>15 DEF CompleteRegion, NumRegions, CtrlType
    <2> QED
      BY <1>15, <2>1 DEF CompleteRegion, FieldType, FluxType, BufType, StepType
  <1>16. ASSUME NEW r \in Ranks, NextStage(r) PROVE Goal
    <2>1. CtrlType'
      BY <1>16 DEF NextStage, LastStage, CtrlType
    <2> QED
      BY <1>16, <2>1 DEF NextStage, FieldType, FluxType, BufType, StepType
  <1>17. CASE EndCycle
    <2>1. CtrlType'
      BY <1>17 DEF EndCycle, KeepGoing, CtrlType
    <2>2. StepType'
      BY <1>17, LevelTypes DEF EndCycle, StepType
    <2> QED
      BY <1>17, <2>1, <2>2 DEF EndCycle, FieldType, FluxType, BufType
  <1>18. CASE UNCHANGED vars
    BY <1>18 DEF vars, ctrlVars, CtrlType, FieldType, FluxType, BufType, StepType
  <1> QED
    BY <1>1, <1>2, <1>3, <1>4, <1>5, <1>6, <1>7, <1>8, <1>9, <1>10, <1>11, <1>12,
       <1>13, <1>14, <1>15, <1>16, <1>17, <1>18
       DEF Next, RankStep, PackStep, BlockStep, Incomplete, Terminated

\* The type invariant holds in every behaviour.
THEOREM TypeCorrect == Spec => []TypeOK
  BY TypeInit, TypeStep, PTL DEF Spec

-----------------------------------------------------------------------------
(* The order of the tasks.                                                 *)

\* What a step does to the task lists, whatever it does to the data.
LEMMA StepKinds ==
  ASSUME NEW r \in Ranks, RankStep(r)
  PROVE  \/ \E p \in Parts : \E t \in PackTask : RunPack(p, t)
         \/ \E b \in Blocks : \E t \in BlockTask : RunBlock(b, t)
         \/ CompleteRegion(r) \/ NextStage(r) \/ UNCHANGED vars
  <1>1. ASSUME NEW p \in Parts, PackStep(p), ~Incomplete(p)
        PROVE  \E t \in PackTask : RunPack(p, t)
    BY <1>1 DEF PackStep, StartReceive, CalculateFluxes, LoadAndSendFluxCorrections,
       ReceiveFluxCorrections, SetFluxCorrections, Update, SendBoundBufs, ReceiveBoundBufs,
       SetBounds, FillDerived, EstimateTimestep, PackTask, FluxTask
  <1>2. ASSUME NEW b \in Blocks, BlockStep(b)
        PROVE  \E t \in BlockTask : RunBlock(b, t)
    BY <1>2 DEF BlockStep, InitU1, ApplyBoundaryConditions, TagRefine, BlockTask
  <1> QED
    BY <1>1, <1>2 DEF RankStep, Incomplete

LEMMA DepsTypes == \A t \in PackTask : Deps(t) \subseteq PackTask /\ (t \in FluxTask => Deps(t) \subseteq FluxTask)
  BY DEF PackTask, FluxTask, Deps

LEMMA OrderInit == Init => Order
  <1> SUFFICES ASSUME Init PROVE Order
    OBVIOUS
  <1>0. region = [r \in Ranks |-> 1]
    BY DEF Init
  <1>1. ASSUME NEW r \in Ranks PROVE region[r] <= NumRegions(r) + 1
    <2>1. NumRegions(r) \in 4 .. 5
      BY DEF NumRegions
    <2>2. region[r] = 1
      BY <1>0
    <2> QED
      BY <2>1, <2>2
  <1>2. \A q \in Parts : PackOrder(q)
    BY DEF Init, PackOrder
  <1>3. \A b \in Blocks : BlockOrder(b)
    BY DEF Init, BlockOrder, Rank
  <1> QED
    BY <1>1, <1>2, <1>3 DEF Order

LEMMA OrderRunPack ==
  ASSUME CtrlType, Order, NEW p \in Parts, NEW t \in PackTask, RunPack(p, t)
  PROVE  Order'
  <1>1. UNCHANGED <<stage, region, bdone>>
    BY DEF RunPack, ctrlVars
  <1>2. \A b \in Blocks : BlockOrder(b)'
    BY <1>1 DEF Order, BlockOrder, Rank, LastStage
  <1>3. \A r \in Ranks : region'[r] <= NumRegions(r)' + 1
    BY <1>1 DEF Order, NumRegions, LastStage
  <1>4. ASSUME NEW q \in Parts PROVE PackOrder(q)'
    <2>1. CASE q # p
      BY <1>1, <2>1 DEF Order, PackOrder, RunPack, CtrlType, LastStage
    <2>2. CASE q = p
      <3>1. pdone'[p] = pdone[p] \cup {t} /\ Deps(t) \subseteq pdone[p]
        BY DEF RunPack, CtrlType
      <3>2. PackOrder(p)
        BY DEF Order
      <3>3. t \in PackTasks(RankOf[p])
        BY DEF RunPack
      <3> QED
        BY <1>1, <2>2, <3>1, <3>2, <3>3, PackTasksByRegion DEF PackOrder, FluxTask, LastStage
    <2> QED
      BY <2>1, <2>2
  <1> QED
    BY <1>2, <1>3, <1>4 DEF Order

LEMMA OrderRunBlock ==
  ASSUME CtrlType, Order, NEW c \in Blocks, NEW t \in BlockTask, RunBlock(c, t)
  PROVE  Order'
  <1>1. UNCHANGED <<stage, region, pdone>>
    BY DEF RunBlock, ctrlVars
  <1>2. \A q \in Parts : PackOrder(q)'
    BY <1>1 DEF Order, PackOrder, LastStage
  <1>3. \A r \in Ranks : region'[r] <= NumRegions(r)' + 1
    BY <1>1 DEF Order, NumRegions, LastStage
  <1>4. ASSUME NEW b \in Blocks PROVE BlockOrder(b)'
    <2>1. CASE b # c
      BY <1>1, <2>1 DEF Order, BlockOrder, RunBlock, CtrlType, LastStage, Rank
    <2>2. CASE b = c
      <3>1. bdone'[c] = bdone[c] \cup {t}
        BY DEF RunBlock, CtrlType
      <3>2. BlockOrder(c)
        BY DEF Order
      <3>3. t \in BlockTasks(Rank(c)) /\ Rank(c) \in Ranks
        BY DEF RunBlock, Rank
      <3>4. NumRegions(Rank(c)) = 5 => LastStage(Rank(c))
        BY DEF NumRegions
      <3> QED
        BY <1>1, <2>2, <3>1, <3>2, <3>3, <3>4, BlockTasksByRegion DEF BlockOrder, LastStage
    <2> QED
      BY <2>1, <2>2
  <1> QED
    BY <1>2, <1>3, <1>4 DEF Order

LEMMA OrderCompleteRegion ==
  ASSUME CtrlType, Order, NEW r \in Ranks, CompleteRegion(r)
  PROVE  Order'
  <1>1. UNCHANGED <<stage, pdone, bdone>> /\ region[r] <= NumRegions(r)
        /\ region' = [region EXCEPT ![r] = @ + 1]
    BY DEF CompleteRegion
  <1>2. \A q \in Ranks : region'[q] <= NumRegions(q)' + 1
    BY <1>1 DEF Order, NumRegions, LastStage, CtrlType
  <1>3. ASSUME NEW p \in Parts PROVE PackOrder(p)'
    <2>1. CASE RankOf[p] # r
      BY <1>1, <2>1 DEF Order, PackOrder, CtrlType, LastStage
    <2>2. CASE RankOf[p] = r
      <3>1. PackTasks(r) \subseteq pdone[p]
        BY <2>2 DEF CompleteRegion
      <3>2. /\ region[r] = 2 => PackTasks(r) = FluxTask
            /\ region[r] = 4 => "fill_derived" \in PackTasks(r)
            /\ region[r] = 4 /\ LastStage(r) => "new_dt" \in PackTasks(r)
        BY DEF PackTasks
      <3>3. PackOrder(p) /\ region[r] \in 1 .. 6 /\ region'[r] = region[r] + 1
        BY <1>1 DEF Order, CtrlType
      <3> QED
        BY <1>1, <2>2, <3>1, <3>2, <3>3 DEF PackOrder, LastStage
    <2> QED
      BY <2>1, <2>2
  <1>4. ASSUME NEW b \in Blocks PROVE BlockOrder(b)'
    <2>1. CASE Rank(b) # r
      BY <1>1, <2>1 DEF Order, BlockOrder, CtrlType, LastStage, Rank
    <2>2. CASE Rank(b) = r
      <3>1. BlockTasks(r) \subseteq bdone[b]
        BY <2>2 DEF CompleteRegion
      <3>2. /\ region[r] = 1 /\ stage[r] = 1 => "init_u1" \in BlockTasks(r)
            /\ region[r] = 3 => "set_bc" \in BlockTasks(r)
            /\ region[r] = 5 => "tag_refine" \in BlockTasks(r)
        BY <1>1 DEF BlockTasks, NumRegions
      <3>3. BlockOrder(b) /\ region[r] \in 1 .. 6 /\ region'[r] = region[r] + 1
        BY <1>1 DEF Order, CtrlType
      <3> QED
        BY <1>1, <2>2, <3>1, <3>2, <3>3 DEF BlockOrder, LastStage, Rank
    <2> QED
      BY <2>1, <2>2
  <1> QED
    BY <1>2, <1>3, <1>4 DEF Order

\* When a stage is over every task of its collection has completed.
LEMMA StageComplete ==
  ASSUME CtrlType, Order, NEW r \in Ranks, StageOver(r)
  PROVE  /\ \A p \in Parts : RankOf[p] = r =>
              /\ FluxTask \cup {"fill_derived"} \subseteq pdone[p]
              /\ LastStage(r) => "new_dt" \in pdone[p]
         /\ \A b \in Blocks : Rank(b) = r =>
              /\ "set_bc" \in bdone[b]
              /\ stage[r] = 1 => "init_u1" \in bdone[b]
              /\ LastStage(r) /\ Adaptive => "tag_refine" \in bdone[b]
  <1>1. region[r] > 4 /\ (LastStage(r) /\ Adaptive => region[r] > 5)
    BY DEF StageOver, NumRegions
  <1> QED
    BY <1>1 DEF Order, PackOrder, BlockOrder, CtrlType

LEMMA OrderNextStage ==
  ASSUME CtrlType, Order, NEW r \in Ranks, NextStage(r)
  PROVE  Order'
  <1>1. /\ stage' = [stage EXCEPT ![r] = @ + 1]
        /\ region' = [region EXCEPT ![r] = 1]
        /\ bdone' = [b \in Blocks |-> IF Rank(b) = r THEN {} ELSE bdone[b]]
        /\ pdone' = [p \in Parts |-> IF RankOf[p] = r THEN {} ELSE pdone[p]]
    BY DEF NextStage
  <1>2. \A q \in Ranks : region'[q] <= NumRegions(q)' + 1
    BY <1>1 DEF Order, NumRegions, LastStage, CtrlType
  <1>3. \A p \in Parts : PackOrder(p)'
    BY <1>1 DEF Order, PackOrder, CtrlType, LastStage
  <1>4. \A b \in Blocks : BlockOrder(b)'
    BY <1>1 DEF Order, BlockOrder, CtrlType, LastStage, Rank
  <1> QED
    BY <1>2, <1>3, <1>4 DEF Order

LEMMA OrderEndCycle ==
  ASSUME EndCycle
  PROVE  Order'
  <1>1. /\ stage' = [r \in Ranks |-> 1] /\ region' = [r \in Ranks |-> 1]
        /\ bdone' = [b \in Blocks |-> {}] /\ pdone' = [p \in Parts |-> {}]
    BY DEF EndCycle
  <1>2. \A r \in Ranks : region'[r] <= NumRegions(r)' + 1
    BY <1>1 DEF NumRegions
  <1>3. \A p \in Parts : PackOrder(p)'
    BY <1>1 DEF PackOrder
  <1>4. \A b \in Blocks : BlockOrder(b)'
    BY <1>1 DEF BlockOrder, Rank
  <1> QED
    BY <1>2, <1>3, <1>4 DEF Order

LEMMA OrderStep == CtrlType /\ Order /\ [Next]_vars => Order'
  <1> SUFFICES ASSUME CtrlType, Order, [Next]_vars PROVE Order'
    OBVIOUS
  <1>1. CASE UNCHANGED vars
    BY <1>1 DEF vars, ctrlVars, Order, PackOrder, BlockOrder, NumRegions, LastStage
  <1>2. CASE EndCycle
    BY <1>2, OrderEndCycle
  <1>3. ASSUME NEW r \in Ranks, RankStep(r) PROVE Order'
    BY <1>1, <1>3, StepKinds, OrderRunPack, OrderRunBlock, OrderCompleteRegion, OrderNextStage
  <1> QED
    BY <1>1, <1>2, <1>3 DEF Next, Terminated

-----------------------------------------------------------------------------
(* How often the tasks have completed.                                     *)

LEMMA CountTypes ==
  ASSUME CtrlType, NEW b \in Blocks
  PROVE  /\ StageLevel(Rank(b)) \in Nat
         /\ \A t : CountB(b, t) \in {StageLevel(Rank(b)), StageLevel(Rank(b)) + 1}
         /\ \A t : BCount(b, t) \in {StageLevel(Rank(b)), StageLevel(Rank(b)) + 1}
         /\ \A t : CountB(b, t) > StageLevel(Rank(b)) <=> t \in pdone[PartOf[b]]
         /\ \A t : BCount(b, t) > StageLevel(Rank(b)) <=> t \in bdone[b]
  <1>1. StageLevel(Rank(b)) \in Nat
    BY DEF StageLevel, CtrlType, Rank
  <1> QED
    BY <1>1 DEF CountB, Count, BCount, Rank

\* The dependencies, as inequalities between the counts of one block.
LEMMA CountOrder ==
  ASSUME CtrlType, Order, NEW b \in Blocks
  PROVE  /\ CountB(b, "fill_derived") <= BCount(b, "set_bc")
         /\ CountB(b, "fill_derived") <= CountB(b, "send_flx")
         /\ CountB(b, "fill_derived") <= CountB(b, "send_bnd")
         /\ BCount(b, "set_bc") <= CountB(b, "set_bnd")
         /\ BCount(b, "set_bc") <= CountB(b, "send_bnd")
         /\ CountB(b, "set_bnd") <= CountB(b, "recv_bnd")
         /\ CountB(b, "recv_bnd") <= CountB(b, "update")
         /\ CountB(b, "send_bnd") <= CountB(b, "update")
         /\ CountB(b, "update") <= CountB(b, "set_flx")
         /\ CountB(b, "set_flx") <= CountB(b, "recv_flx")
         /\ CountB(b, "recv_flx") <= CountB(b, "calc_flux")
         /\ CountB(b, "send_flx") <= CountB(b, "calc_flux")
  <1> DEFINE d == pdone[PartOf[b]]
  <1>1. PackOrder(PartOf[b]) /\ BlockOrder(b) /\ PartOf[b] \in Parts
    BY DEF Order
  <1>2. region[Rank(b)] \in 1 .. 6
    BY DEF CtrlType, Rank
  <1>3. /\ "set_bnd" \in d => "recv_bnd" \in d
        /\ "recv_bnd" \in d => "update" \in d
        /\ "send_bnd" \in d => "update" \in d
        /\ "update" \in d => "set_flx" \in d
        /\ "set_flx" \in d => "recv_flx" \in d
        /\ "recv_flx" \in d => "calc_flux" \in d
        /\ "send_flx" \in d => "calc_flux" \in d
    BY <1>1 DEF PackOrder, Deps
  <1>4. "fill_derived" \in d => "set_bc" \in bdone[b] /\ {"send_flx", "send_bnd"} \subseteq d
    BY <1>1, <1>2 DEF PackOrder, BlockOrder, FluxTask, Rank
  <1>5. "set_bc" \in bdone[b] => {"set_bnd", "send_bnd"} \subseteq d
    BY <1>1, <1>2 DEF PackOrder, BlockOrder, FluxTask, Rank
  <1> HIDE DEF d
  <1>6. \A t : CountB(b, t) = StageLevel(Rank(b)) + IF t \in d THEN 1 ELSE 0
    BY DEF CountB, Count, Rank, d
  <1>7. \A t : BCount(b, t) = StageLevel(Rank(b)) + IF t \in bdone[b] THEN 1 ELSE 0
    BY DEF BCount
  <1>8. StageLevel(Rank(b)) \in Nat
    BY CountTypes
  <1> QED
    BY <1>3, <1>4, <1>5, <1>6, <1>7, <1>8

\* A task that runs has not completed in this stage, what it depends on has.
LEMMA RunPackNow ==
  ASSUME CtrlType, Order, NEW p \in Parts, NEW t \in PackTask, RunPack(p, t),
         NEW b \in Blocks, PartOf[b] = p
  PROVE  /\ CountB(b, t) = StageLevel(Rank(b))
         /\ \A u \in Deps(t) : CountB(b, u) = StageLevel(Rank(b)) + 1
         /\ t = "fill_derived" => BCount(b, "set_bc") = StageLevel(Rank(b)) + 1
         /\ t = "new_dt" => LastStage(Rank(b))
  <1>1. t \notin pdone[p] /\ Deps(t) \subseteq pdone[p] /\ t \in PackTasks(Rank(b))
    BY DEF RunPack, Rank
  <1>2. t = "fill_derived" => region[Rank(b)] = 4
    BY <1>1, PackTasksByRegion DEF Rank, FluxTask
  <1>3. t = "fill_derived" => "set_bc" \in bdone[b]
    BY <1>2 DEF Order, BlockOrder
  <1>4. t = "new_dt" => LastStage(Rank(b))
    BY <1>1, PackTasksByRegion DEF Rank, FluxTask
  <1>5. \A u : CountB(b, u) = StageLevel(Rank(b)) + IF u \in pdone[p] THEN 1 ELSE 0
    BY DEF CountB, Count, Rank
  <1>6. BCount(b, "set_bc") = StageLevel(Rank(b)) + IF "set_bc" \in bdone[b] THEN 1 ELSE 0
    BY DEF BCount
  <1>7. StageLevel(Rank(b)) \in Nat
    BY CountTypes
  <1> QED
    BY <1>1, <1>3, <1>4, <1>5, <1>6, <1>7

LEMMA RunBlockNow ==
  ASSUME CtrlType, Order, NEW b \in Blocks, NEW t \in BlockTask, RunBlock(b, t)
  PROVE  /\ BCount(b, t) = StageLevel(Rank(b))
         /\ t = "init_u1" => /\ CountB(b, "update") = StageLevel(Rank(b))
                             /\ stage[Rank(b)] = 1
         /\ t = "set_bc" => CountB(b, "set_bnd") = StageLevel(Rank(b)) + 1
         /\ t = "tag_refine" => /\ CountB(b, "fill_derived") = StageLevel(Rank(b)) + 1
                                /\ LastStage(Rank(b))
  <1>1. t \notin bdone[b] /\ t \in BlockTasks(Rank(b)) /\ Rank(b) \in Ranks
    BY DEF RunBlock, Rank
  <1>2. /\ t = "init_u1" => region[Rank(b)] = 1 /\ stage[Rank(b)] = 1
        /\ t = "set_bc" => region[Rank(b)] = 3
        /\ t = "tag_refine" => region[Rank(b)] = 5 /\ NumRegions(Rank(b)) = 5
    BY <1>1, BlockTasksByRegion
  <1>3. PackOrder(PartOf[b]) /\ PartOf[b] \in Parts
    BY DEF Order
  <1>4. /\ t = "init_u1" => "update" \notin pdone[PartOf[b]]
        /\ t = "set_bc" => "set_bnd" \in pdone[PartOf[b]]
        /\ t = "tag_refine" => "fill_derived" \in pdone[PartOf[b]]
    BY <1>2, <1>3 DEF PackOrder, FluxTask, Rank
  <1>5. t = "tag_refine" => LastStage(Rank(b))
    BY <1>2 DEF NumRegions
  <1>6. \A u : CountB(b, u) = StageLevel(Rank(b)) + IF u \in pdone[PartOf[b]] THEN 1 ELSE 0
    BY DEF CountB, Count, Rank
  <1>7. BCount(b, t) = StageLevel(Rank(b)) + IF t \in bdone[b] THEN 1 ELSE 0
    BY DEF BCount
  <1>8. StageLevel(Rank(b)) \in Nat
    BY CountTypes
  <1> QED
    BY <1>1, <1>2, <1>4, <1>5, <1>6, <1>7, <1>8

\* How the counts change: only a run of a task changes them.
LEMMA CountRunPack ==
  ASSUME CtrlType, NEW p \in Parts, NEW t \in PackTask, RunPack(p, t), NEW b \in Blocks
  PROVE  /\ \A u : CountB(b, u)' = CountB(b, u) + IF PartOf[b] = p /\ u = t THEN 1 ELSE 0
         /\ \A u : BCount(b, u)' = BCount(b, u)
  <1>1. UNCHANGED <<base, stage, bdone>>
    BY DEF RunPack, ctrlVars
  <1>2. t \notin pdone[p] /\ pdone' = [pdone EXCEPT ![p] = @ \cup {t}]
    BY DEF RunPack
  <1>3. StageLevel(Rank(b)) \in Nat
    BY CountTypes
  <1>4. \A u : BCount(b, u)' = BCount(b, u)
    BY <1>1 DEF BCount, StageLevel, Rank
  <1>5. StageLevel(Rank(b))' = StageLevel(Rank(b))
    BY <1>1 DEF StageLevel, Rank
  <1>6. \A u : u \in pdone'[PartOf[b]] <=> u \in pdone[PartOf[b]] \/ (PartOf[b] = p /\ u = t)
    BY <1>2 DEF CtrlType
  <1>7. \A u : CountB(b, u) = StageLevel(Rank(b)) + IF u \in pdone[PartOf[b]] THEN 1 ELSE 0
    BY DEF CountB, Count, Rank
  <1>8. \A u : CountB(b, u)' = StageLevel(Rank(b)) + IF u \in pdone'[PartOf[b]] THEN 1 ELSE 0
    BY <1>5 DEF CountB, Count, Rank
  <1> QED
    BY <1>2, <1>3, <1>4, <1>6, <1>7, <1>8

LEMMA CountRunBlock ==
  ASSUME CtrlType, NEW c \in Blocks, NEW t \in BlockTask, RunBlock(c, t), NEW b \in Blocks
  PROVE  /\ \A u : CountB(b, u)' = CountB(b, u)
         /\ \A u : BCount(b, u)' = BCount(b, u) + IF b = c /\ u = t THEN 1 ELSE 0
  <1>1. UNCHANGED <<base, stage, pdone>>
    BY DEF RunBlock, ctrlVars
  <1>2. t \notin bdone[c] /\ bdone' = [bdone EXCEPT ![c] = @ \cup {t}]
    BY DEF RunBlock
  <1>3. StageLevel(Rank(b)) \in Nat
    BY CountTypes
  <1>4. \A u : CountB(b, u)' = CountB(b, u)
    BY <1>1 DEF CountB, Count, StageLevel
  <1>5. StageLevel(Rank(b))' = StageLevel(Rank(b))
    BY <1>1 DEF StageLevel, Rank
  <1>6. \A u : u \in bdone'[b] <=> u \in bdone[b] \/ (b = c /\ u = t)
    BY <1>2 DEF CtrlType
  <1>7. \A u : BCount(b, u)' = StageLevel(Rank(b)) + IF u \in bdone'[b] THEN 1 ELSE 0
    BY <1>5 DEF BCount, Rank
  <1> QED
    BY <1>2, <1>3, <1>4, <1>6, <1>7 DEF BCount

\* Moving on, to the next region, stage or cycle, changes no count of a task
\* every stage runs.
StageTask == FluxTask \cup {"fill_derived"}

LEMMA CountCompleteRegion ==
  ASSUME CtrlType, NEW r \in Ranks, CompleteRegion(r), NEW b \in Blocks
  PROVE  /\ \A u : CountB(b, u)' = CountB(b, u)
         /\ \A u : BCount(b, u)' = BCount(b, u)
  BY DEF CompleteRegion, CountB, Count, BCount, StageLevel, Rank

LEMMA CountNextStage ==
  ASSUME CtrlType, Order, NEW r \in Ranks, NextStage(r), NEW b \in Blocks
  PROVE  /\ \A u \in StageTask : CountB(b, u)' = CountB(b, u)
         /\ BCount(b, "set_bc")' = BCount(b, "set_bc")
  <1>1. /\ StageOver(r) /\ UNCHANGED base
        /\ stage' = [stage EXCEPT ![r] = @ + 1]
        /\ bdone' = [c \in Blocks |-> IF Rank(c) = r THEN {} ELSE bdone[c]]
        /\ pdone' = [p \in Parts |-> IF RankOf[p] = r THEN {} ELSE pdone[p]]
    BY DEF NextStage
  <1>2. CASE Rank(b) # r
    BY <1>1, <1>2 DEF CountB, Count, BCount, StageLevel, Rank, CtrlType
  <1>3. CASE Rank(b) = r
    <2>1. StageTask \subseteq pdone[PartOf[b]] /\ "set_bc" \in bdone[b]
      BY <1>1, <1>3, StageComplete DEF StageTask, Rank
    <2>2. pdone'[PartOf[b]] = {} /\ bdone'[b] = {}
      BY <1>1, <1>3 DEF Rank
    <2>3. StageLevel(Rank(b))' = StageLevel(Rank(b)) + 1 /\ StageLevel(Rank(b)) \in Nat
      BY <1>1, <1>3, CountTypes DEF StageLevel, CtrlType
    <2>4. \A u \in StageTask : CountB(b, u)' = StageLevel(Rank(b))'
      BY <2>2, <2>3 DEF CountB, Count, Rank
    <2>5. \A u \in StageTask : CountB(b, u) = StageLevel(Rank(b)) + 1
      BY <2>1 DEF CountB, Count, Rank
    <2>6. BCount(b, "set_bc")' = StageLevel(Rank(b))'
      BY <2>2, <2>3 DEF BCount, Rank
    <2>7. BCount(b, "set_bc") = StageLevel(Rank(b)) + 1
      BY <2>1 DEF BCount
    <2> QED
      BY <2>3, <2>4, <2>5, <2>6, <2>7
  <1> QED
    BY <1>2, <1>3

LEMMA CountEndCycle ==
  ASSUME CtrlType, Order, EndCycle, NEW b \in Blocks
  PROVE  /\ \A u \in StageTask : CountB(b, u)' = CountB(b, u)
         /\ BCount(b, "set_bc")' = BCount(b, "set_bc")
  <1>1. /\ base' = base + NStages /\ stage' = [r \in Ranks |-> 1]
        /\ bdone' = [c \in Blocks |-> {}] /\ pdone' = [p \in Parts |-> {}]
    BY DEF EndCycle
  <1>2. Rank(b) \in Ranks /\ StageOver(Rank(b)) /\ stage[Rank(b)] = NStages
    BY DEF EndCycle, Rank, LastStage
  <1>3. StageTask \subseteq pdone[PartOf[b]] /\ "set_bc" \in bdone[b]
    BY <1>2, StageComplete DEF StageTask, Rank
  <1>4. pdone'[PartOf[b]] = {} /\ bdone'[b] = {}
    BY <1>1
  <1>5. StageLevel(Rank(b))' = StageLevel(Rank(b)) + 1 /\ StageLevel(Rank(b)) \in Nat
    BY <1>1, <1>2, CountTypes DEF StageLevel, CtrlType, Rank
  <1>6. \A u \in StageTask : CountB(b, u)' = StageLevel(Rank(b))'
    BY <1>4, <1>5 DEF CountB, Count, Rank
  <1>7. \A u \in StageTask : CountB(b, u) = StageLevel(Rank(b)) + 1
    BY <1>3 DEF CountB, Count, Rank
  <1>8. BCount(b, "set_bc")' = StageLevel(Rank(b))'
    BY <1>4, <1>5 DEF BCount, Rank
  <1>9. BCount(b, "set_bc") = StageLevel(Rank(b)) + 1
    BY <1>3 DEF BCount
  <1> QED
    BY <1>5, <1>6, <1>7, <1>8, <1>9

-----------------------------------------------------------------------------
(* The data.                                                               *)

\* What is said of the data in terms of the counts.
DataInv ==
  /\ \A b \in Blocks : Levels(b) /\ Fluxes(b) /\ Received(b)
  /\ \A b, n \in Blocks : BndMessages(b, n) /\ FluxMessages(b, n)

LEMMA AppendProps ==
  ASSUME NEW S, NEW s \in Seq(S), NEW e \in S
  PROVE  /\ Len(Append(s, e)) = Len(s) + 1 /\ Append(s, e) # << >>
         /\ \A i \in 1 .. Len(s) : Append(s, e)[i] = s[i]
         /\ Append(s, e)[Len(s) + 1] = e
  OBVIOUS

LEMMA TailProps ==
  ASSUME NEW S, NEW s \in Seq(S), s # << >>
  PROVE  /\ Len(Tail(s)) = Len(s) - 1 /\ Len(s) > 0
         /\ \A i \in 1 .. Len(s) - 1 : Tail(s)[i] = s[i + 1]
         /\ Head(s) = s[1]
  OBVIOUS

\* What a step that changes neither a buffer nor the counts at its two ends keeps.
LEMMA SameBndMessages ==
  ASSUME DataInv, bndBuf' = bndBuf,
         \A b \in Blocks : /\ CountB(b, "send_bnd")' = CountB(b, "send_bnd")
                           /\ CountB(b, "set_bnd")' = CountB(b, "set_bnd")
  PROVE  \A b, n \in Blocks : BndMessages(b, n)'
  BY DEF DataInv, BndMessages

LEMMA SameFluxMessages ==
  ASSUME DataInv, fluxBuf' = fluxBuf,
         \A b \in Blocks : /\ CountB(b, "send_flx")' = CountB(b, "send_flx")
                           /\ CountB(b, "set_flx")' = CountB(b, "set_flx")
  PROVE  \A b, n \in Blocks : FluxMessages(b, n)'
  BY DEF DataInv, FluxMessages

\* A step that changes no data and no count of a stage's task preserves it.
LEMMA DataSame ==
  ASSUME DataInv, UNCHANGED <<cons, prim, fluxVars, bufVars>>,
         \A b \in Blocks : /\ \A u \in StageTask : CountB(b, u)' = CountB(b, u)
                           /\ BCount(b, "set_bc")' = BCount(b, "set_bc")
  PROVE  DataInv'
  <1>1. /\ \A b \in Blocks : Levels(b)'
    BY DEF DataInv, Levels, StageTask, FluxTask
  <1>2. \A b \in Blocks : Fluxes(b)'
    BY DEF DataInv, Fluxes, StageTask, FluxTask, fluxVars
  <1>3. \A b \in Blocks : Received(b)'
    BY DEF DataInv, Received, StageTask, FluxTask, bufVars
  <1>4. \A b, n \in Blocks : BndMessages(b, n)'
    <2>1. bndBuf' = bndBuf
      BY DEF bufVars
    <2>2. \A b \in Blocks : /\ CountB(b, "send_bnd")' = CountB(b, "send_bnd")
                             /\ CountB(b, "set_bnd")' = CountB(b, "set_bnd")
      BY DEF StageTask, FluxTask
    <2> QED
      BY <2>1, <2>2, SameBndMessages
  <1>5. \A b, n \in Blocks : FluxMessages(b, n)'
    <2>1. fluxBuf' = fluxBuf
      BY DEF bufVars
    <2>2. \A b \in Blocks : /\ CountB(b, "send_flx")' = CountB(b, "send_flx")
                             /\ CountB(b, "set_flx")' = CountB(b, "set_flx")
      BY DEF StageTask, FluxTask
    <2> QED
      BY <2>1, <2>2, SameFluxMessages
  <1> QED
    BY <1>1, <1>2, <1>3, <1>4, <1>5 DEF DataInv

LEMMA DataInit == Init => DataInv
  <1> SUFFICES ASSUME Init PROVE DataInv
    OBVIOUS
  <1>1. \A b \in Blocks : /\ \A u : CountB(b, u) = 0
                          /\ \A u : BCount(b, u) = 0
    <2>1. base = 0 /\ stage = [r \in Ranks |-> 1] /\ pdone = [p \in Parts |-> {}]
          /\ bdone = [b \in Blocks |-> {}]
      BY DEF Init
    <2> QED
      BY <2>1 DEF CountB, Count, BCount, StageLevel, Rank
  <1>2. \A b \in Blocks : Levels(b)
    BY <1>1 DEF Init, Levels, Zones, Faces
  <1>3. \A b \in Blocks : Fluxes(b)
    BY <1>1 DEF Init, Fluxes
  <1>4. \A b \in Blocks : Received(b)
    BY <1>1 DEF Received
  <1>5. \A b, n \in Blocks : BndMessages(b, n) /\ FluxMessages(b, n)
    <2>1. \A b, n \in Blocks : bndBuf[b][n] = << >> /\ fluxBuf[b][n] = << >>
      BY DEF Init
    <2> QED
      BY <1>1, <2>1 DEF BndMessages, FluxMessages
  <1> QED
    BY <1>2, <1>3, <1>4, <1>5 DEF DataInv

\* A completed task that touches none of what DataInv says.
LEMMA DataOtherPack ==
  ASSUME CtrlType, DataInv, NEW p \in Parts, NEW t \in {"start_recv_bnd", "start_recv_flx", "new_dt"},
         RunPack(p, t), UNCHANGED <<cons, prim, fluxVars, bufVars>>
  PROVE  DataInv'
  <1>1. ASSUME NEW b \in Blocks
        PROVE  /\ \A u \in StageTask \ {t} : CountB(b, u)' = CountB(b, u)
               /\ BCount(b, "set_bc")' = BCount(b, "set_bc")
               /\ CountB(b, t) \in Int
    BY CountRunPack, CountTypes DEF PackTask, FluxTask
  <1>2. \A b \in Blocks : Levels(b)'
    BY <1>1 DEF DataInv, Levels, StageTask, FluxTask
  <1>3. \A b \in Blocks : Fluxes(b)'
    BY <1>1 DEF DataInv, Fluxes, StageTask, FluxTask, fluxVars
  <1>4. \A b \in Blocks : Received(b)'
    BY <1>1 DEF DataInv, Received, StageTask, FluxTask, bufVars
  <1>5. \A b, n \in Blocks : BndMessages(b, n)'
    <2>1. bndBuf' = bndBuf
      BY <1>1 DEF bufVars
    <2>2. \A b \in Blocks : /\ CountB(b, "send_bnd")' = CountB(b, "send_bnd")
                             /\ CountB(b, "set_bnd")' = CountB(b, "set_bnd")
      BY <1>1 DEF StageTask, FluxTask
    <2> QED
      BY <2>1, <2>2, SameBndMessages
  <1>6. \A b, n \in Blocks : FluxMessages(b, n)'
    <2>1. fluxBuf' = fluxBuf
      BY <1>1 DEF bufVars
    <2>2. \A b \in Blocks : /\ CountB(b, "send_flx")' = CountB(b, "send_flx")
                             /\ CountB(b, "set_flx")' = CountB(b, "set_flx")
      BY <1>1 DEF StageTask, FluxTask
    <2> QED
      BY <2>1, <2>2, SameFluxMessages
  <1> QED
    BY <1>2, <1>3, <1>4, <1>5, <1>6 DEF DataInv

LEMMA DataOtherBlock ==
  ASSUME CtrlType, DataInv, NEW c \in Blocks, NEW t \in {"init_u1", "tag_refine"},
         RunBlock(c, t), UNCHANGED <<cons, prim, fluxVars, bufVars>>
  PROVE  DataInv'
  <1>1. \A b \in Blocks : /\ \A u : CountB(b, u)' = CountB(b, u)
                          /\ BCount(b, "set_bc")' = BCount(b, "set_bc")
    BY CountRunBlock, CountTypes DEF BlockTask
  <1> QED
    BY <1>1, DataSame

LEMMA DataCalculateFluxes ==
  ASSUME CtrlType, Order, DataInv, NEW p \in Parts, CalculateFluxes(p)
  PROVE  DataInv'
  <1>1. /\ RunPack(p, "calc_flux") /\ "calc_flux" \in PackTask
        /\ UNCHANGED <<cons, prim, applied, fluxBuf, bndBuf>>
    BY DEF CalculateFluxes, PackTask, FluxTask, fieldVars, bufVars
  <1>2. ASSUME NEW b \in Blocks
        PROVE  /\ \A u \in StageTask \ {"calc_flux"} : CountB(b, u)' = CountB(b, u)
               /\ CountB(b, "calc_flux")' = CountB(b, "calc_flux") + IF PartOf[b] = p THEN 1 ELSE 0
               /\ BCount(b, "set_bc")' = BCount(b, "set_bc")
               /\ \A u : CountB(b, u) \in Nat
    BY <1>1, CountRunPack, CountTypes
  <1>3. \A b \in Blocks : Levels(b)'
    BY <1>1, <1>2 DEF DataInv, Levels, StageTask, FluxTask
  <1>4. ASSUME NEW b \in Blocks PROVE Fluxes(b)'
    <2>1. CASE PartOf[b] # p
      BY <1>2, <2>1 DEF DataInv, Fluxes, StageTask, FluxTask, CalculateFluxes
    <2>2. CASE PartOf[b] = p
      <3>1. CountB(b, "fill_derived") = CountB(b, "calc_flux") /\ CountB(b, "set_flx") <= CountB(b, "calc_flux")
        BY <1>1, <1>2, <2>2, RunPackNow, CountOrder, CountTypes DEF Deps
      <3>2. \A z \in Zones(b) : prim[b][z] = CountB(b, "calc_flux")
        BY <3>1 DEF DataInv, Levels
      <3>3. \A f \in Faces(b) : flux'[b][f] = FluxAt(Level[b], CountB(b, "calc_flux"))
        BY <2>2, <3>2 DEF CalculateFluxes, FaceFlux, FluxAt, Faces, Zones
      <3>4. /\ CountB(b, "calc_flux")' = CountB(b, "calc_flux") + 1
            /\ CountB(b, "set_flx")' = CountB(b, "set_flx")
            /\ CountB(b, "update")' = CountB(b, "update")
        BY <1>2, <2>2 DEF StageTask, FluxTask
      <3> QED
        BY <1>2, <3>1, <3>3, <3>4 DEF DataInv, Fluxes, CalculateFluxes
    <2> QED
      BY <2>1, <2>2
  <1>5. \A b \in Blocks : Received(b)'
    BY <1>1, <1>2 DEF DataInv, Received, StageTask, FluxTask
  <1>6. \A b, n \in Blocks : BndMessages(b, n)'
    <2>1. bndBuf' = bndBuf
      BY <1>1, <1>2
    <2>2. \A b \in Blocks : /\ CountB(b, "send_bnd")' = CountB(b, "send_bnd")
                             /\ CountB(b, "set_bnd")' = CountB(b, "set_bnd")
      BY <1>1, <1>2 DEF StageTask, FluxTask
    <2> QED
      BY <2>1, <2>2, SameBndMessages
  <1>7. \A b, n \in Blocks : FluxMessages(b, n)'
    <2>1. fluxBuf' = fluxBuf
      BY <1>1, <1>2
    <2>2. \A b \in Blocks : /\ CountB(b, "send_flx")' = CountB(b, "send_flx")
                             /\ CountB(b, "set_flx")' = CountB(b, "set_flx")
      BY <1>1, <1>2 DEF StageTask, FluxTask
    <2> QED
      BY <2>1, <2>2, SameFluxMessages
  <1> QED
    BY <1>3, <1>4, <1>5, <1>6, <1>7 DEF DataInv

LEMMA DataReceive ==
  ASSUME CtrlType, Order, DataInv, NEW p \in Parts, NEW t \in {"recv_flx", "recv_bnd"},
         RunPack(p, t), UNCHANGED <<cons, prim, fluxVars, bufVars>>,
         t = "recv_flx" => Arrived(p, fluxBuf, Finer),
         t = "recv_bnd" => Arrived(p, bndBuf, Nbrs)
  PROVE  DataInv'
  <1>1. ASSUME NEW b \in Blocks
        PROVE  /\ \A u \in StageTask \ {t} : CountB(b, u)' = CountB(b, u)
               /\ CountB(b, t)' = CountB(b, t) + IF PartOf[b] = p THEN 1 ELSE 0
               /\ BCount(b, "set_bc")' = BCount(b, "set_bc")
               /\ \A u : CountB(b, u) \in Nat
    BY CountRunPack, CountTypes DEF PackTask, FluxTask
  <1>2. \A b \in Blocks : Levels(b)'
    BY <1>1 DEF DataInv, Levels, StageTask, FluxTask
  <1>3. \A b \in Blocks : Fluxes(b)'
    BY <1>1 DEF DataInv, Fluxes, StageTask, FluxTask, fluxVars
  <1>4. ASSUME NEW b \in Blocks PROVE Received(b)'
    <2>1. CASE PartOf[b] # p
      <3>1. \A u \in StageTask : CountB(b, u)' = CountB(b, u)
        BY <1>1, <2>1
      <3> QED
        BY <3>1 DEF DataInv, Received, StageTask, FluxTask, bufVars
    <2>2. CASE PartOf[b] = p /\ t = "recv_flx"
      <3>1. \A n \in Finer[b] : fluxBuf[n][b] # << >>
        BY <2>2 DEF Arrived
      <3> QED
        BY <1>1, <2>2, <3>1 DEF DataInv, Received, StageTask, FluxTask, bufVars
    <2>3. CASE PartOf[b] = p /\ t = "recv_bnd"
      <3>1. \A n \in Nbrs[b] : bndBuf[n][b] # << >>
        BY <2>3 DEF Arrived
      <3> QED
        BY <1>1, <2>3, <3>1 DEF DataInv, Received, StageTask, FluxTask, bufVars
    <2> QED
      BY <2>1, <2>2, <2>3
  <1>5. \A b, n \in Blocks : BndMessages(b, n)'
    <2>1. bndBuf' = bndBuf
      BY <1>1 DEF bufVars
    <2>2. \A b \in Blocks : /\ CountB(b, "send_bnd")' = CountB(b, "send_bnd")
                             /\ CountB(b, "set_bnd")' = CountB(b, "set_bnd")
      BY <1>1 DEF StageTask, FluxTask
    <2> QED
      BY <2>1, <2>2, SameBndMessages
  <1>6. \A b, n \in Blocks : FluxMessages(b, n)'
    <2>1. fluxBuf' = fluxBuf
      BY <1>1 DEF bufVars
    <2>2. \A b \in Blocks : /\ CountB(b, "send_flx")' = CountB(b, "send_flx")
                             /\ CountB(b, "set_flx")' = CountB(b, "set_flx")
      BY <1>1 DEF StageTask, FluxTask
    <2> QED
      BY <2>1, <2>2, SameFluxMessages
  <1> QED
    BY <1>2, <1>3, <1>4, <1>5, <1>6 DEF DataInv

LEMMA DataSendFluxCorrections ==
  ASSUME TypeOK, Order, DataInv, NEW p \in Parts, LoadAndSendFluxCorrections(p)
  PROVE  DataInv'
  <1> USE DEF TypeOK
  <1>1. /\ RunPack(p, "send_flx") /\ "send_flx" \in PackTask
        /\ UNCHANGED <<cons, prim, flux, applied, bndBuf>>
        /\ fluxBuf' = Sent(p, fluxBuf, Coarser, flux)
    BY DEF LoadAndSendFluxCorrections, PackTask, FluxTask, fieldVars, fluxVars
  <1>2. ASSUME NEW b \in Blocks
        PROVE  /\ \A u \in StageTask \ {"send_flx"} : CountB(b, u)' = CountB(b, u)
               /\ CountB(b, "send_flx")' = CountB(b, "send_flx") + IF PartOf[b] = p THEN 1 ELSE 0
               /\ BCount(b, "set_bc")' = BCount(b, "set_bc")
               /\ \A u : CountB(b, u) \in Nat
    BY <1>1, CountRunPack, CountTypes
  <1>3. \A b \in Blocks : Levels(b)'
    BY <1>1, <1>2 DEF DataInv, Levels, StageTask, FluxTask
  <1>4. \A b \in Blocks : Fluxes(b)'
    BY <1>1, <1>2 DEF DataInv, Fluxes, StageTask, FluxTask
  <1>5. \A b, n \in Blocks : BndMessages(b, n)'
    <2>1. bndBuf' = bndBuf
      BY <1>1, <1>2
    <2>2. \A b \in Blocks : /\ CountB(b, "send_bnd")' = CountB(b, "send_bnd")
                             /\ CountB(b, "set_bnd")' = CountB(b, "set_bnd")
      BY <1>1, <1>2 DEF StageTask, FluxTask
    <2> QED
      BY <2>1, <2>2, SameBndMessages
  <1>6. \A b, n \in Blocks :
          fluxBuf'[b][n] = IF PartOf[b] = p /\ n \in Coarser[b]
                           THEN Append(fluxBuf[b][n], flux[b][n]) ELSE fluxBuf[b][n]
    BY <1>1 DEF Sent
  <1>7. ASSUME NEW b \in Blocks, NEW n \in Blocks PROVE FluxMessages(b, n)'
    <2>1. CASE PartOf[b] # p \/ n \notin Coarser[b]
      BY <1>2, <1>6, <2>1 DEF DataInv, FluxMessages, StageTask, FluxTask
    <2>2. CASE PartOf[b] = p /\ n \in Coarser[b]
      <3> DEFINE s == fluxBuf[b][n]
      <3>1. /\ CountB(b, "calc_flux") = CountB(b, "send_flx") + 1
        BY <1>1, <1>2, <2>2, RunPackNow, CountTypes DEF Deps
      <3>2. flux[b][n] = FluxAt(Level[b], CountB(b, "send_flx"))
        <4>1. n \in Faces(b) /\ n \notin Finer[b]
          BY <2>2, Directions DEF Faces
        <4>2. CountB(b, "calc_flux") > 0 /\ CountB(b, "calc_flux") - 1 = CountB(b, "send_flx")
          BY <1>2, <3>1
        <4>3. FaceRes(b, n) = Level[b]
          BY <4>1 DEF FaceRes
        <4> QED
          BY <4>1, <4>2, <4>3 DEF DataInv, Fluxes
      <3>3. s \in Seq(Flux) /\ flux[b][n] \in Flux
        BY <2>2, Directions, ZoneTypes DEF BufType
      <3>4. /\ Len(s) = CountB(b, "send_flx") - CountB(n, "set_flx")
            /\ \A i \in 1 .. Len(s) : s[i] = FluxAt(Level[b], CountB(n, "set_flx") + i - 1)
        BY <2>2 DEF DataInv, FluxMessages
      <3>5. /\ Len(fluxBuf'[b][n]) = Len(s) + 1
            /\ \A i \in 1 .. Len(s) : fluxBuf'[b][n][i] = s[i]
            /\ fluxBuf'[b][n][Len(s) + 1] = flux[b][n]
        <4>1. fluxBuf'[b][n] = Append(s, flux[b][n])
          BY <1>6, <2>2
        <4> HIDE DEF s
        <4> QED
          BY <3>3, <4>1, AppendProps
      <3>6. /\ CountB(b, "send_flx")' = CountB(b, "send_flx") + 1
            /\ CountB(n, "set_flx")' = CountB(n, "set_flx")
        BY <1>2, <2>2 DEF StageTask, FluxTask
      <3> HIDE DEF s
      <3>7. Len(fluxBuf'[b][n]) = CountB(b, "send_flx")' - CountB(n, "set_flx")'
        BY <1>2, <3>4, <3>5, <3>6
      <3>8. ASSUME NEW i \in 1 .. Len(fluxBuf'[b][n])
            PROVE  fluxBuf'[b][n][i] = FluxAt(Level[b], CountB(n, "set_flx")' + i - 1)
        <4>1. CASE i \in 1 .. Len(s)
          BY <3>4, <3>5, <3>6, <4>1
        <4>2. CASE i = Len(s) + 1
          <5>1. CountB(n, "set_flx") + i - 1 = CountB(b, "send_flx")
            BY <1>2, <3>4, <4>2
          <5> QED
            BY <3>2, <3>5, <3>6, <4>2, <5>1
        <4> QED
          BY <1>2, <3>4, <3>5, <4>1, <4>2
      <3> QED
        BY <2>2, <3>7, <3>8 DEF FluxMessages
    <2> QED
      BY <2>1, <2>2
  <1>8. ASSUME NEW b \in Blocks, NEW n \in Blocks, fluxBuf[b][n] # << >>
        PROVE  fluxBuf'[b][n] # << >>
    <2>1. CASE PartOf[b] = p /\ n \in Coarser[b]
      <3> DEFINE s == fluxBuf[b][n]
                 e == flux[b][n]
      <3>1. fluxBuf'[b][n] = Append(s, e)
        BY <1>6, <2>1
      <3>2. s \in Seq(Flux) /\ e \in Flux
        BY <2>1, Directions, ZoneTypes DEF BufType
      <3> HIDE DEF s, e
      <3> QED
        BY <3>1, <3>2, AppendProps
    <2>2. CASE ~(PartOf[b] = p /\ n \in Coarser[b])
      BY <1>6, <1>8, <2>2
    <2> QED
      BY <2>1, <2>2
  <1>9. \A b \in Blocks : Received(b)'
    BY <1>1, <1>2, <1>8, Directions DEF DataInv, Received, StageTask, FluxTask
  <1> QED
    BY <1>3, <1>4, <1>5, <1>7, <1>9 DEF DataInv

LEMMA DataSetFluxCorrections ==
  ASSUME TypeOK, Order, DataInv, NEW p \in Parts, SetFluxCorrections(p)
  PROVE  DataInv'
  <1> USE DEF TypeOK
  <1>1. /\ RunPack(p, "set_flx") /\ "set_flx" \in PackTask
        /\ UNCHANGED <<cons, prim, applied, bndBuf>>
        /\ fluxBuf' = Consumed(p, fluxBuf, Finer)
        /\ \A b \in Blocks : \A f \in Faces(b) :
             flux'[b][f] = IF PartOf[b] = p /\ f \in Finer[b]
                           THEN Mirror(Unpack(fluxBuf[f][b], NoFlux)) ELSE flux[b][f]
    BY DEF SetFluxCorrections, PackTask, FluxTask, fieldVars
  <1>2. ASSUME NEW b \in Blocks
        PROVE  /\ \A u \in StageTask \ {"set_flx"} : CountB(b, u)' = CountB(b, u)
               /\ CountB(b, "set_flx")' = CountB(b, "set_flx") + IF PartOf[b] = p THEN 1 ELSE 0
               /\ BCount(b, "set_bc")' = BCount(b, "set_bc")
               /\ \A u : CountB(b, u) \in Nat
    BY <1>1, CountRunPack, CountTypes
  <1>3. \A b \in Blocks : Levels(b)'
    BY <1>1, <1>2 DEF DataInv, Levels, StageTask, FluxTask
  <1>4. \A b, n \in Blocks : BndMessages(b, n)'
    <2>1. bndBuf' = bndBuf
      BY <1>1, <1>2
    <2>2. \A b \in Blocks : /\ CountB(b, "send_bnd")' = CountB(b, "send_bnd")
                             /\ CountB(b, "set_bnd")' = CountB(b, "set_bnd")
      BY <1>1, <1>2 DEF StageTask, FluxTask
    <2> QED
      BY <2>1, <2>2, SameBndMessages
  \* For a block of the pack, the counts before and after the step ...
  <1>5. ASSUME NEW n \in Blocks, PartOf[n] = p
        PROVE  /\ CountB(n, "recv_flx") = CountB(n, "set_flx") + 1
               /\ CountB(n, "calc_flux") = CountB(n, "set_flx") + 1
    BY <1>1, <1>2, <1>5, RunPackNow, CountOrder, CountTypes DEF Deps
  \* ... and the message it finds in the buffer from a finer neighbour.
  <1>6. ASSUME NEW n \in Blocks, PartOf[n] = p, NEW f \in Finer[n]
        PROVE  /\ fluxBuf[f][n] \in Seq(Flux) /\ fluxBuf[f][n] # << >>
               /\ Head(fluxBuf[f][n]) = FluxAt(Level[f], CountB(n, "set_flx"))
    <2>1. f \in Blocks /\ n \in Coarser[f]
      BY Directions
    <2>2. fluxBuf[f][n] \in Seq(Flux)
      BY <2>1 DEF BufType
    <2>3. fluxBuf[f][n] # << >>
      <3>1. CountB(n, "set_flx") < CountB(n, "recv_flx")
        BY <1>2, <1>5, <1>6
      <3>2. Received(n)
        BY DEF DataInv
      <3> QED
        BY <1>6, <3>1, <3>2 DEF Received
    <2>4. \A i \in 1 .. Len(fluxBuf[f][n]) :
            fluxBuf[f][n][i] = FluxAt(Level[f], CountB(n, "set_flx") + i - 1)
      BY <2>1 DEF DataInv, FluxMessages
    <2>5. Len(fluxBuf[f][n]) > 0 /\ Head(fluxBuf[f][n]) = fluxBuf[f][n][1]
      BY <2>2, <2>3, TailProps
    <2>6. Len(fluxBuf[f][n]) \in Nat
      BY <2>2
    <2>7. fluxBuf[f][n][1] = FluxAt(Level[f], CountB(n, "set_flx") + 1 - 1)
      BY <2>4, <2>5, <2>6
    <2>8. CountB(n, "set_flx") + 1 - 1 = CountB(n, "set_flx")
      BY <1>2
    <2> QED
      BY <2>2, <2>3, <2>5, <2>7, <2>8
  <1>7. ASSUME NEW b \in Blocks PROVE Fluxes(b)'
    <2>1. CASE PartOf[b] # p
      BY <1>1, <1>2, <2>1 DEF DataInv, Fluxes, StageTask, FluxTask
    <2>2. CASE PartOf[b] = p
      <3>1. /\ CountB(b, "set_flx")' = CountB(b, "set_flx") + 1
            /\ CountB(b, "calc_flux")' = CountB(b, "set_flx") + 1
            /\ CountB(b, "update")' = CountB(b, "update")
        BY <1>2, <1>5, <2>2 DEF StageTask, FluxTask
      <3>2. ASSUME NEW f \in Faces(b)
            PROVE  flux'[b][f] = FluxAt(FaceRes(b, f), CountB(b, "set_flx"))
        <4>1. CASE f \in Finer[b]
          <5>1. flux'[b][f] = Mirror(Head(fluxBuf[f][b]))
            BY <1>1, <1>6, <2>2, <4>1 DEF Unpack
          <5>2. Head(fluxBuf[f][b]) = FluxAt(Level[f], CountB(b, "set_flx"))
            BY <1>6, <2>2, <4>1
          <5> QED
            BY <4>1, <5>1, <5>2 DEF FaceRes, Mirror, FluxAt
        <4>2. CASE f \notin Finer[b]
          <5>1. flux'[b][f] = flux[b][f]
            BY <1>1, <4>2
          <5>2. CountB(b, "calc_flux") > 0 /\ CountB(b, "calc_flux") - 1 = CountB(b, "set_flx")
            BY <1>2, <1>5, <2>2
          <5>3. FaceRes(b, f) = Level[b]
            BY <4>2 DEF FaceRes
          <5> QED
            BY <5>1, <5>2, <5>3 DEF DataInv, Fluxes
        <4> QED
          BY <4>1, <4>2
      <3>3. CountB(b, "calc_flux")' - 1 = CountB(b, "set_flx")
            /\ ~(CountB(b, "set_flx")' < CountB(b, "calc_flux")')
        BY <1>2, <3>1
      <3> QED
        BY <1>1, <3>1, <3>2, <3>3 DEF DataInv, Fluxes
    <2> QED
      BY <2>1, <2>2
  <1>8. \A b, n \in Blocks :
          fluxBuf'[b][n] = IF PartOf[n] = p /\ b \in Finer[n] /\ fluxBuf[b][n] # << >>
                           THEN Tail(fluxBuf[b][n]) ELSE fluxBuf[b][n]
    BY <1>1 DEF Consumed
  <1>9. ASSUME NEW b \in Blocks, NEW n \in Blocks PROVE FluxMessages(b, n)'
    <2>1. CASE PartOf[n] # p \/ b \notin Finer[n]
      <3>1. fluxBuf'[b][n] = fluxBuf[b][n]
        BY <1>8, <2>1
      <3>2. CountB(b, "send_flx")' = CountB(b, "send_flx")
        BY <1>2 DEF StageTask, FluxTask
      <3>3. n \in Coarser[b] => CountB(n, "set_flx")' = CountB(n, "set_flx")
        BY <1>2, <2>1, Directions
      <3> QED
        BY <3>1, <3>2, <3>3 DEF DataInv, FluxMessages
    <2>2. CASE PartOf[n] = p /\ b \in Finer[n]
      <3> DEFINE s == fluxBuf[b][n]
      <3>1. n \in Coarser[b]
        BY <2>2, Directions
      <3>2. s \in Seq(Flux) /\ s # << >> /\ fluxBuf'[b][n] = Tail(s)
        BY <1>6, <1>8, <2>2
      <3>3. /\ Len(s) = CountB(b, "send_flx") - CountB(n, "set_flx")
            /\ \A i \in 1 .. Len(s) : s[i] = FluxAt(Level[b], CountB(n, "set_flx") + i - 1)
        BY <3>1 DEF DataInv, FluxMessages
      <3>4. /\ CountB(b, "send_flx")' = CountB(b, "send_flx")
            /\ CountB(n, "set_flx")' = CountB(n, "set_flx") + 1
        BY <1>2, <2>2 DEF StageTask, FluxTask
      <3> HIDE DEF s
      <3>5. /\ Len(Tail(s)) = Len(s) - 1 /\ Len(s) > 0
            /\ \A i \in 1 .. Len(s) - 1 : Tail(s)[i] = s[i + 1]
        BY <3>2, TailProps
      <3>6. Len(s) \in Nat
        BY <3>2
      <3>7. Len(fluxBuf'[b][n]) = CountB(b, "send_flx")' - CountB(n, "set_flx")'
        BY <1>2, <3>2, <3>3, <3>4, <3>5
      <3>8. ASSUME NEW i \in 1 .. Len(fluxBuf'[b][n])
            PROVE  fluxBuf'[b][n][i] = FluxAt(Level[b], CountB(n, "set_flx")' + i - 1)
        <4>1. i \in 1 .. Len(s) - 1 /\ i + 1 \in 1 .. Len(s)
          BY <3>2, <3>5, <3>6
        <4>2. fluxBuf'[b][n][i] = FluxAt(Level[b], CountB(n, "set_flx") + (i + 1) - 1)
          BY <3>2, <3>3, <3>5, <4>1
        <4>3. CountB(n, "set_flx") + (i + 1) - 1 = CountB(n, "set_flx")' + i - 1
          BY <1>2, <3>4, <4>1
        <4> QED
          BY <4>2, <4>3
      <3> QED
        BY <3>1, <3>7, <3>8 DEF FluxMessages
    <2> QED
      BY <2>1, <2>2
  <1>10. ASSUME NEW b \in Blocks PROVE Received(b)'
    <2>1. CASE PartOf[b] # p
      <3>1. \A u \in StageTask : CountB(b, u)' = CountB(b, u)
        BY <1>2, <2>1
      <3>2. \A n \in Finer[b] : fluxBuf'[n][b] = fluxBuf[n][b]
        BY <1>8, <2>1, Directions
      <3> QED
        BY <1>1, <3>1, <3>2 DEF DataInv, Received, StageTask, FluxTask
    <2>2. CASE PartOf[b] = p
      <3>1. ~(CountB(b, "set_flx")' < CountB(b, "recv_flx")')
        BY <1>2, <1>5, <2>2 DEF StageTask, FluxTask
      <3> QED
        BY <1>1, <1>2, <3>1 DEF DataInv, Received, StageTask, FluxTask
    <2> QED
      BY <2>1, <2>2
  <1> QED
    BY <1>3, <1>4, <1>7, <1>9, <1>10 DEF DataInv

LEMMA DataUpdate ==
  ASSUME TypeOK, Order, DataInv, NEW p \in Parts, Update(p)
  PROVE  DataInv'
  <1> USE DEF TypeOK
  <1>1. /\ RunPack(p, "update") /\ "update" \in PackTask
        /\ UNCHANGED <<prim, flux, fluxBuf, bndBuf>>
        /\ cons' = [b \in Blocks |-> [z \in Zones(b) |->
             IF PartOf[b] = p /\ z = b THEN cons[b][b] + 1 ELSE cons[b][z]]]
        /\ applied' = [b \in Blocks |-> IF PartOf[b] = p THEN flux[b] ELSE applied[b]]
    BY DEF Update, PackTask, FluxTask, bufVars
  <1>2. ASSUME NEW b \in Blocks
        PROVE  /\ \A u \in StageTask \ {"update"} : CountB(b, u)' = CountB(b, u)
               /\ CountB(b, "update")' = CountB(b, "update") + IF PartOf[b] = p THEN 1 ELSE 0
               /\ BCount(b, "set_bc")' = BCount(b, "set_bc")
               /\ \A u : CountB(b, u) \in Nat
    BY <1>1, CountRunPack, CountTypes
  <1>3. ASSUME NEW b \in Blocks PROVE Levels(b)'
    <2>1. b \in Zones(b) /\ Nbrs[b] \subseteq Zones(b) /\ Phys \in Zones(b) /\ b # Phys /\ b \notin Nbrs[b]
      BY DEF Zones, Faces
    <2>2. /\ cons'[b][b] = cons[b][b] + IF PartOf[b] = p THEN 1 ELSE 0
          /\ \A z \in Zones(b) \ {b} : cons'[b][z] = cons[b][z]
      <3>1. \A z \in Zones(b) : cons'[b][z] = IF PartOf[b] = p /\ z = b THEN cons[b][b] + 1 ELSE cons[b][z]
        BY <1>1
      <3>2. cons[b][b] \in Int
        BY ZoneTypes DEF TimeLevel, NoData
      <3> QED
        BY <2>1, <3>1, <3>2
    <2> QED
      BY <1>1, <1>2, <2>1, <2>2 DEF DataInv, Levels, StageTask, FluxTask
  <1>4. ASSUME NEW b \in Blocks PROVE Fluxes(b)'
    <2>1. CASE PartOf[b] # p
      BY <1>1, <1>2, <2>1 DEF DataInv, Fluxes, StageTask, FluxTask
    <2>2. CASE PartOf[b] = p
      <3>1. /\ CountB(b, "set_flx") = CountB(b, "update") + 1
            /\ CountB(b, "calc_flux") = CountB(b, "update") + 1
        BY <1>1, <1>2, <2>2, RunPackNow, CountOrder, CountTypes DEF Deps
      <3>2. CountB(b, "update")' = CountB(b, "update") + 1
        BY <1>2, <2>2
      <3>3. /\ CountB(b, "calc_flux") > 0 /\ ~(CountB(b, "set_flx") < CountB(b, "calc_flux"))
            /\ CountB(b, "update")' > 0
            /\ CountB(b, "calc_flux") - 1 = CountB(b, "update")' - 1
        BY <1>2, <3>1, <3>2
      <3>4. \A f \in Faces(b) : applied'[b][f] = FluxAt(FaceRes(b, f), CountB(b, "update")' - 1)
        BY <1>1, <2>2, <3>3 DEF DataInv, Fluxes
      <3>5. CountB(b, "calc_flux")' = CountB(b, "calc_flux") /\ CountB(b, "set_flx")' = CountB(b, "set_flx")
        BY <1>2 DEF StageTask, FluxTask
      <3> QED
        BY <1>1, <3>3, <3>4, <3>5 DEF DataInv, Fluxes
    <2> QED
      BY <2>1, <2>2
  <1>5. \A b \in Blocks : Received(b)'
    BY <1>1, <1>2 DEF DataInv, Received, StageTask, FluxTask
  <1>6. \A b, n \in Blocks : BndMessages(b, n)'
    <2>1. bndBuf' = bndBuf
      BY <1>1
    <2>2. \A b \in Blocks : /\ CountB(b, "send_bnd")' = CountB(b, "send_bnd")
                             /\ CountB(b, "set_bnd")' = CountB(b, "set_bnd")
      BY <1>2 DEF StageTask, FluxTask
    <2> QED
      BY <2>1, <2>2, SameBndMessages
  <1>7. \A b, n \in Blocks : FluxMessages(b, n)'
    <2>1. fluxBuf' = fluxBuf
      BY <1>1, <1>2
    <2>2. \A b \in Blocks : /\ CountB(b, "send_flx")' = CountB(b, "send_flx")
                             /\ CountB(b, "set_flx")' = CountB(b, "set_flx")
      BY <1>1, <1>2 DEF StageTask, FluxTask
    <2> QED
      BY <2>1, <2>2, SameFluxMessages
  <1> QED
    BY <1>3, <1>4, <1>5, <1>6, <1>7 DEF DataInv

LEMMA DataSendBoundBufs ==
  ASSUME TypeOK, Order, DataInv, NEW p \in Parts, SendBoundBufs(p)
  PROVE  DataInv'
  <1> USE DEF TypeOK
  <1> DEFINE msg == [b \in Blocks |-> [n \in Nbrs[b] |-> cons[b][b]]]
  <1>1. /\ RunPack(p, "send_bnd") /\ "send_bnd" \in PackTask
        /\ UNCHANGED <<cons, prim, flux, applied, fluxBuf>>
        /\ bndBuf' = Sent(p, bndBuf, Nbrs, msg)
    BY DEF SendBoundBufs, PackTask, FluxTask, fieldVars, fluxVars
  <1>2. ASSUME NEW b \in Blocks
        PROVE  /\ \A u \in StageTask \ {"send_bnd"} : CountB(b, u)' = CountB(b, u)
               /\ CountB(b, "send_bnd")' = CountB(b, "send_bnd") + IF PartOf[b] = p THEN 1 ELSE 0
               /\ BCount(b, "set_bc")' = BCount(b, "set_bc")
               /\ \A u : CountB(b, u) \in Nat
    BY <1>1, CountRunPack, CountTypes
  <1>3. \A b \in Blocks : Levels(b)'
    BY <1>1, <1>2 DEF DataInv, Levels, StageTask, FluxTask
  <1>4. \A b \in Blocks : Fluxes(b)'
    BY <1>1, <1>2 DEF DataInv, Fluxes, StageTask, FluxTask
  <1>5. \A b, n \in Blocks : FluxMessages(b, n)'
    <2>1. fluxBuf' = fluxBuf
      BY <1>1, <1>2
    <2>2. \A b \in Blocks : /\ CountB(b, "send_flx")' = CountB(b, "send_flx")
                             /\ CountB(b, "set_flx")' = CountB(b, "set_flx")
      BY <1>1, <1>2 DEF StageTask, FluxTask
    <2> QED
      BY <2>1, <2>2, SameFluxMessages
  <1>6. ASSUME NEW b \in Blocks, NEW n \in Blocks
        PROVE  bndBuf'[b][n] = IF PartOf[b] = p /\ n \in Nbrs[b]
                               THEN Append(bndBuf[b][n], cons[b][b]) ELSE bndBuf[b][n]
    <2>1. n \in Nbrs[b] => msg[b][n] = cons[b][b]
      OBVIOUS
    <2> HIDE DEF msg
    <2> QED
      BY <1>1, <2>1 DEF Sent
  <1> HIDE DEF msg
  <1>7. ASSUME NEW b \in Blocks, NEW n \in Blocks PROVE BndMessages(b, n)'
    <2>1. CASE PartOf[b] # p \/ n \notin Nbrs[b]
      <3>1. bndBuf'[b][n] = bndBuf[b][n]
        BY <1>6, <2>1
      <3>2. CountB(n, "set_bnd")' = CountB(n, "set_bnd")
        BY <1>2 DEF StageTask, FluxTask
      <3>3. n \in Nbrs[b] => CountB(b, "send_bnd")' = CountB(b, "send_bnd")
        BY <1>2, <2>1
      <3> QED
        BY <3>1, <3>2, <3>3 DEF DataInv, BndMessages
    <2>2. CASE PartOf[b] = p /\ n \in Nbrs[b]
      <3> DEFINE s == bndBuf[b][n]
                 e == cons[b][b]
      <3>1. e = CountB(b, "send_bnd") + 1
        BY <1>1, <1>2, <2>2, RunPackNow, CountTypes DEF Deps, DataInv, Levels
      <3>2. s \in Seq(TimeLevel) /\ e \in TimeLevel
        BY ZoneTypes DEF BufType
      <3>3. /\ Len(s) = CountB(b, "send_bnd") - CountB(n, "set_bnd")
            /\ \A i \in 1 .. Len(s) : s[i] = CountB(n, "set_bnd") + i
        BY <2>2 DEF DataInv, BndMessages
      <3>4. bndBuf'[b][n] = Append(s, e)
        BY <1>6, <2>2
      <3>5. /\ CountB(b, "send_bnd")' = CountB(b, "send_bnd") + 1
            /\ CountB(n, "set_bnd")' = CountB(n, "set_bnd")
        BY <1>2, <2>2 DEF StageTask, FluxTask
      <3> HIDE DEF s, e
      <3>6. /\ Len(bndBuf'[b][n]) = Len(s) + 1 /\ Len(s) \in Nat
            /\ \A i \in 1 .. Len(s) : bndBuf'[b][n][i] = s[i]
            /\ bndBuf'[b][n][Len(s) + 1] = e
        BY <3>2, <3>4, AppendProps
      <3>7. Len(bndBuf'[b][n]) = CountB(b, "send_bnd")' - CountB(n, "set_bnd")'
        BY <1>2, <3>3, <3>5, <3>6
      <3>8. ASSUME NEW i \in 1 .. Len(bndBuf'[b][n])
            PROVE  bndBuf'[b][n][i] = CountB(n, "set_bnd")' + i
        <4>1. CASE i \in 1 .. Len(s)
          BY <3>3, <3>5, <3>6, <4>1
        <4>2. CASE i = Len(s) + 1
          BY <1>2, <3>1, <3>3, <3>5, <3>6, <4>2
        <4> QED
          BY <3>6, <4>1, <4>2
      <3> QED
        BY <2>2, <3>7, <3>8 DEF BndMessages
    <2> QED
      BY <2>1, <2>2
  <1>8. ASSUME NEW b \in Blocks, NEW n \in Blocks, bndBuf[b][n] # << >>
        PROVE  bndBuf'[b][n] # << >>
    <2>1. CASE PartOf[b] = p /\ n \in Nbrs[b]
      <3> DEFINE s == bndBuf[b][n]
                 e == cons[b][b]
      <3>1. bndBuf'[b][n] = Append(s, e)
        BY <1>6, <2>1
      <3>2. s \in Seq(TimeLevel) /\ e \in TimeLevel
        BY ZoneTypes DEF BufType
      <3> HIDE DEF s, e
      <3> QED
        BY <3>1, <3>2, AppendProps
    <2>2. CASE ~(PartOf[b] = p /\ n \in Nbrs[b])
      BY <1>6, <1>8, <2>2
    <2> QED
      BY <2>1, <2>2
  <1>9. \A b \in Blocks : Received(b)'
    BY <1>1, <1>2, <1>8 DEF DataInv, Received, StageTask, FluxTask
  <1> QED
    BY <1>3, <1>4, <1>5, <1>7, <1>9 DEF DataInv

LEMMA DataSetBounds ==
  ASSUME TypeOK, Order, DataInv, NEW p \in Parts, SetBounds(p)
  PROVE  DataInv'
  <1> USE DEF TypeOK
  <1>1. /\ RunPack(p, "set_bnd") /\ "set_bnd" \in PackTask
        /\ UNCHANGED <<prim, flux, applied, fluxBuf>>
    BY DEF SetBounds, PackTask, FluxTask, fluxVars
  <1>2. ASSUME NEW b \in Blocks
        PROVE  /\ \A u \in StageTask \ {"set_bnd"} : CountB(b, u)' = CountB(b, u)
               /\ CountB(b, "set_bnd")' = CountB(b, "set_bnd") + IF PartOf[b] = p THEN 1 ELSE 0
               /\ BCount(b, "set_bc")' = BCount(b, "set_bc")
               /\ \A u : CountB(b, u) \in Nat
    BY <1>1, CountRunPack, CountTypes
  <1>3. \A b \in Blocks : Fluxes(b)'
    BY <1>1, <1>2 DEF DataInv, Fluxes, StageTask, FluxTask
  <1>4. \A b, n \in Blocks : FluxMessages(b, n)'
    <2>1. fluxBuf' = fluxBuf
      BY <1>1, <1>2
    <2>2. \A b \in Blocks : /\ CountB(b, "send_flx")' = CountB(b, "send_flx")
                             /\ CountB(b, "set_flx")' = CountB(b, "set_flx")
      BY <1>1, <1>2 DEF StageTask, FluxTask
    <2> QED
      BY <2>1, <2>2, SameFluxMessages
  <1>5. ASSUME NEW n \in Blocks, PartOf[n] = p
        PROVE  CountB(n, "recv_bnd") = CountB(n, "set_bnd") + 1
    BY <1>1, <1>2, <1>5, RunPackNow, CountTypes DEF Deps
  <1>6. ASSUME NEW n \in Blocks, PartOf[n] = p, NEW b \in Nbrs[n]
        PROVE  /\ bndBuf[b][n] \in Seq(TimeLevel) /\ bndBuf[b][n] # << >>
               /\ Head(bndBuf[b][n]) = CountB(n, "set_bnd") + 1
    <2>1. b \in Blocks /\ n \in Nbrs[b]
      BY <1>6
    <2>2. bndBuf[b][n] \in Seq(TimeLevel)
      BY <2>1 DEF BufType
    <2>3. bndBuf[b][n] # << >>
      <3>1. CountB(n, "set_bnd") < CountB(n, "recv_bnd")
        BY <1>2, <1>5, <1>6
      <3>2. Received(n)
        BY DEF DataInv
      <3> QED
        BY <1>6, <3>1, <3>2 DEF Received
    <2>4. \A i \in 1 .. Len(bndBuf[b][n]) : bndBuf[b][n][i] = CountB(n, "set_bnd") + i
      BY <2>1 DEF DataInv, BndMessages
    <2>5. /\ Len(bndBuf[b][n]) > 0 /\ Head(bndBuf[b][n]) = bndBuf[b][n][1]
      BY <2>2, <2>3, TailProps
    <2>6. Len(bndBuf[b][n]) \in Nat
      BY <2>2
    <2>7. bndBuf[b][n][1] = CountB(n, "set_bnd") + 1
      BY <2>4, <2>5, <2>6
    <2> QED
      BY <2>2, <2>3, <2>5, <2>7
  <1>7. ASSUME NEW b \in Blocks PROVE Levels(b)'
    <2>1. b \in Zones(b) /\ Nbrs[b] \subseteq Zones(b) /\ Phys \in Zones(b) /\ Phys \notin Nbrs[b] /\ b \notin Nbrs[b]
      BY DEF Zones, Faces
    <2>2. \A z \in Zones(b) : cons'[b][z] = IF PartOf[b] = p /\ z \in Nbrs[b]
                                            THEN Unpack(bndBuf[z][b], NoData) ELSE cons[b][z]
      BY DEF SetBounds
    <2>3. CASE PartOf[b] = p
      <3>1. ASSUME NEW n \in Nbrs[b] PROVE cons'[b][n] = CountB(b, "set_bnd") + 1
        BY <1>6, <2>1, <2>2, <2>3 DEF Unpack
      <3>2. cons'[b][b] = cons[b][b] /\ cons'[b][Phys] = cons[b][Phys]
        BY <2>1, <2>2
      <3> QED
        BY <1>1, <1>2, <2>3, <3>1, <3>2 DEF DataInv, Levels, StageTask, FluxTask
    <2>4. CASE PartOf[b] # p
      <3>1. \A z \in Zones(b) : cons'[b][z] = cons[b][z]
        BY <2>2, <2>4
      <3> QED
        BY <1>1, <1>2, <2>1, <2>4, <3>1 DEF DataInv, Levels, StageTask, FluxTask
    <2> QED
      BY <2>3, <2>4
  <1>8. \A b, n \in Blocks :
          bndBuf'[b][n] = IF PartOf[n] = p /\ b \in Nbrs[n] /\ bndBuf[b][n] # << >>
                          THEN Tail(bndBuf[b][n]) ELSE bndBuf[b][n]
    <2>1. bndBuf' = Consumed(p, bndBuf, Nbrs)
      BY DEF SetBounds
    <2> QED
      BY <2>1 DEF Consumed
  <1>9. ASSUME NEW b \in Blocks, NEW n \in Blocks PROVE BndMessages(b, n)'
    <2>1. CASE PartOf[n] # p \/ b \notin Nbrs[n]
      <3>1. bndBuf'[b][n] = bndBuf[b][n]
        BY <1>8, <2>1
      <3>2. CountB(b, "send_bnd")' = CountB(b, "send_bnd")
        BY <1>2 DEF StageTask, FluxTask
      <3>3. n \in Nbrs[b] => CountB(n, "set_bnd")' = CountB(n, "set_bnd")
        BY <1>2, <2>1
      <3> QED
        BY <3>1, <3>2, <3>3 DEF DataInv, BndMessages
    <2>2. CASE PartOf[n] = p /\ b \in Nbrs[n]
      <3> DEFINE s == bndBuf[b][n]
      <3>1. n \in Nbrs[b]
        BY <2>2
      <3>2. s \in Seq(TimeLevel) /\ s # << >> /\ bndBuf'[b][n] = Tail(s)
        BY <1>6, <1>8, <2>2
      <3>3. /\ Len(s) = CountB(b, "send_bnd") - CountB(n, "set_bnd")
            /\ \A i \in 1 .. Len(s) : s[i] = CountB(n, "set_bnd") + i
        BY <3>1 DEF DataInv, BndMessages
      <3>4. /\ CountB(b, "send_bnd")' = CountB(b, "send_bnd")
            /\ CountB(n, "set_bnd")' = CountB(n, "set_bnd") + 1
        BY <1>2, <2>2 DEF StageTask, FluxTask
      <3> HIDE DEF s
      <3>5. /\ Len(Tail(s)) = Len(s) - 1 /\ Len(s) > 0
            /\ \A i \in 1 .. Len(s) - 1 : Tail(s)[i] = s[i + 1]
        BY <3>2, TailProps
      <3>6. Len(s) \in Nat
        BY <3>2
      <3>7. Len(bndBuf'[b][n]) = CountB(b, "send_bnd")' - CountB(n, "set_bnd")'
        BY <1>2, <3>2, <3>3, <3>4, <3>5
      <3>8. ASSUME NEW i \in 1 .. Len(bndBuf'[b][n])
            PROVE  bndBuf'[b][n][i] = CountB(n, "set_bnd")' + i
        <4>1. i \in 1 .. Len(s) - 1 /\ i + 1 \in 1 .. Len(s)
          BY <3>2, <3>5, <3>6
        <4>2. bndBuf'[b][n][i] = CountB(n, "set_bnd") + (i + 1)
          BY <3>2, <3>3, <3>5, <4>1
        <4>3. CountB(n, "set_bnd") + (i + 1) = CountB(n, "set_bnd")' + i
          <5>1. CountB(n, "set_bnd") \in Nat /\ i \in Int
            BY <1>2, <3>6, <4>1
          <5> QED
            BY <3>4, <5>1
        <4> QED
          BY <4>2, <4>3
      <3> QED
        BY <3>1, <3>7, <3>8 DEF BndMessages
    <2> QED
      BY <2>1, <2>2
  <1>10. ASSUME NEW b \in Blocks PROVE Received(b)'
    <2>1. CASE PartOf[b] # p
      <3>1. \A u \in StageTask : CountB(b, u)' = CountB(b, u)
        BY <1>2, <2>1
      <3>2. \A n \in Nbrs[b] : bndBuf'[n][b] = bndBuf[n][b]
        BY <1>8, <2>1
      <3>3. fluxBuf' = fluxBuf
        BY <1>1
      <3>4. /\ CountB(b, "set_bnd")' = CountB(b, "set_bnd") /\ CountB(b, "recv_bnd")' = CountB(b, "recv_bnd")
            /\ CountB(b, "set_flx")' = CountB(b, "set_flx") /\ CountB(b, "recv_flx")' = CountB(b, "recv_flx")
        BY <3>1 DEF StageTask, FluxTask
      <3>5. Received(b)
        BY DEF DataInv
      <3> QED
        BY <3>2, <3>3, <3>4, <3>5 DEF Received
    <2>2. CASE PartOf[b] = p
      <3>1. ~(CountB(b, "set_bnd")' < CountB(b, "recv_bnd")')
        BY <1>2, <1>5, <2>2 DEF StageTask, FluxTask
      <3> QED
        BY <1>1, <1>2, <3>1 DEF DataInv, Received, StageTask, FluxTask
    <2> QED
      BY <2>1, <2>2
  <1> QED
    BY <1>3, <1>4, <1>7, <1>9, <1>10 DEF DataInv

LEMMA DataApplyBoundaryConditions ==
  ASSUME TypeOK, Order, DataInv, NEW c \in Blocks, ApplyBoundaryConditions(c)
  PROVE  DataInv'
  <1> USE DEF TypeOK
  <1>1. /\ RunBlock(c, "set_bc") /\ "set_bc" \in BlockTask
        /\ UNCHANGED <<prim, flux, applied, fluxBuf, bndBuf>>
    BY DEF ApplyBoundaryConditions, BlockTask, fluxVars, bufVars
  <1>2. ASSUME NEW b \in Blocks
        PROVE  /\ \A u : CountB(b, u)' = CountB(b, u)
               /\ BCount(b, "set_bc")' = BCount(b, "set_bc") + IF b = c THEN 1 ELSE 0
               /\ BCount(b, "set_bc") \in Nat
    BY <1>1, CountRunBlock, CountTypes
  <1>3. PICK z \in Nbrs[c] \cup {c} : cons' = [cons EXCEPT ![c][Phys] = cons[c][z]]
    BY DEF ApplyBoundaryConditions
  <1>4. cons[c][z] = BCount(c, "set_bc") + 1
    <2>1. /\ CountB(c, "set_bnd") = BCount(c, "set_bc") + 1
          /\ CountB(c, "update") = BCount(c, "set_bc") + 1
      BY <1>1, RunBlockNow, CountOrder, CountTypes
    <2> QED
      BY <2>1 DEF DataInv, Levels
  <1>5. ASSUME NEW b \in Blocks PROVE Levels(b)'
    <2>1. b \in Zones(b) /\ Nbrs[b] \subseteq Zones(b) /\ Phys \in Zones(b) /\ Phys \notin Nbrs[b] /\ b # Phys
      BY DEF Zones, Faces
    <2>2. CASE b = c
      <3>1. cons'[b][Phys] = cons[c][z] /\ \A y \in Zones(b) \ {Phys} : cons'[b][y] = cons[b][y]
        BY <1>3, <2>1, <2>2 DEF FieldType
      <3> QED
        BY <1>1, <1>2, <1>4, <2>1, <2>2, <3>1 DEF DataInv, Levels
    <2>3. CASE b # c
      BY <1>1, <1>2, <1>3, <2>3 DEF DataInv, Levels, FieldType
    <2> QED
      BY <2>2, <2>3
  <1>6. \A b \in Blocks : Fluxes(b)'
    BY <1>1, <1>2 DEF DataInv, Fluxes
  <1>7. \A b \in Blocks : Received(b)'
    BY <1>1, <1>2 DEF DataInv, Received
  <1>8. \A b, n \in Blocks : BndMessages(b, n)'
    BY <1>1, <1>2 DEF DataInv, BndMessages
  <1>9. \A b, n \in Blocks : FluxMessages(b, n)'
    BY <1>1, <1>2 DEF DataInv, FluxMessages
  <1> QED
    BY <1>5, <1>6, <1>7, <1>8, <1>9 DEF DataInv

LEMMA DataFillDerived ==
  ASSUME TypeOK, Order, DataInv, NEW p \in Parts, FillDerived(p)
  PROVE  DataInv'
  <1> USE DEF TypeOK
  <1>1. /\ RunPack(p, "fill_derived") /\ "fill_derived" \in PackTask
        /\ UNCHANGED <<cons, flux, applied, fluxBuf, bndBuf>>
    BY DEF FillDerived, PackTask, FluxTask, fluxVars, bufVars
  <1>2. ASSUME NEW b \in Blocks
        PROVE  /\ \A u \in StageTask \ {"fill_derived"} : CountB(b, u)' = CountB(b, u)
               /\ CountB(b, "fill_derived")' = CountB(b, "fill_derived") + IF PartOf[b] = p THEN 1 ELSE 0
               /\ BCount(b, "set_bc")' = BCount(b, "set_bc")
               /\ \A u : CountB(b, u) \in Nat
    BY <1>1, CountRunPack, CountTypes
  <1>3. ASSUME NEW b \in Blocks PROVE Levels(b)'
    <2>1. prim'[b] = IF PartOf[b] = p THEN cons[b] ELSE prim[b]
      BY DEF FillDerived
    <2>2. CASE PartOf[b] # p
      BY <1>1, <1>2, <2>1, <2>2 DEF DataInv, Levels, StageTask, FluxTask
    <2>3. CASE PartOf[b] = p
      <3>1. /\ BCount(b, "set_bc") = CountB(b, "fill_derived") + 1
            /\ CountB(b, "set_bnd") = CountB(b, "fill_derived") + 1
            /\ CountB(b, "update") = CountB(b, "fill_derived") + 1
        BY <1>1, <2>3, RunPackNow, CountOrder, CountTypes
      <3>2. \A z \in Zones(b) : cons[b][z] = CountB(b, "fill_derived") + 1
        BY <3>1 DEF DataInv, Levels, Zones, Faces
      <3> QED
        BY <1>1, <1>2, <2>1, <2>3, <3>2 DEF DataInv, Levels, StageTask, FluxTask
    <2> QED
      BY <2>2, <2>3
  <1>4. \A b \in Blocks : Fluxes(b)'
    BY <1>1, <1>2 DEF DataInv, Fluxes, StageTask, FluxTask
  <1>5. \A b \in Blocks : Received(b)'
    BY <1>1, <1>2 DEF DataInv, Received, StageTask, FluxTask
  <1>6. \A b, n \in Blocks : BndMessages(b, n)'
    <2>1. bndBuf' = bndBuf
      BY <1>1
    <2>2. \A b \in Blocks : /\ CountB(b, "send_bnd")' = CountB(b, "send_bnd")
                             /\ CountB(b, "set_bnd")' = CountB(b, "set_bnd")
      BY <1>2 DEF StageTask, FluxTask
    <2> QED
      BY <2>1, <2>2, SameBndMessages
  <1>7. \A b, n \in Blocks : FluxMessages(b, n)'
    <2>1. fluxBuf' = fluxBuf
      BY <1>1, <1>2
    <2>2. \A b \in Blocks : /\ CountB(b, "send_flx")' = CountB(b, "send_flx")
                             /\ CountB(b, "set_flx")' = CountB(b, "set_flx")
      BY <1>1, <1>2 DEF StageTask, FluxTask
    <2> QED
      BY <2>1, <2>2, SameFluxMessages
  <1> QED
    BY <1>3, <1>4, <1>5, <1>6, <1>7 DEF DataInv

LEMMA DataStep == TypeOK /\ Order /\ DataInv /\ [Next]_vars => DataInv'
  <1> SUFFICES ASSUME TypeOK, CtrlType, Order, DataInv, [Next]_vars PROVE DataInv'
    BY DEF TypeOK
  <1> USE DEF fieldVars, fluxVars, bufVars
  <1>1. ASSUME NEW p \in Parts, PackStep(p), ~Incomplete(p) PROVE DataInv'
    <2>1. CASE StartReceive(p)
      BY <2>1, DataOtherPack DEF StartReceive
    <2>2. CASE ReceiveFluxCorrections(p)
      BY <2>2, DataReceive DEF ReceiveFluxCorrections
    <2>3. CASE ReceiveBoundBufs(p)
      BY <2>3, DataReceive DEF ReceiveBoundBufs
    <2>4. CASE EstimateTimestep(p)
      BY <2>4, DataOtherPack DEF EstimateTimestep
    <2> QED
      BY <1>1, <2>1, <2>2, <2>3, <2>4, DataCalculateFluxes, DataSendFluxCorrections,
         DataSetFluxCorrections, DataUpdate, DataSendBoundBufs, DataSetBounds, DataFillDerived
         DEF PackStep
  <1>2. ASSUME NEW b \in Blocks, BlockStep(b) PROVE DataInv'
    <2>1. CASE InitU1(b)
      BY <2>1, DataOtherBlock DEF InitU1
    <2>2. CASE ApplyBoundaryConditions(b)
      BY <2>2, DataApplyBoundaryConditions
    <2>3. CASE TagRefine(b)
      BY <2>3, DataOtherBlock DEF TagRefine
    <2> QED
      BY <1>2, <2>1, <2>2, <2>3 DEF BlockStep
  <1>3. ASSUME NEW r \in Ranks, CompleteRegion(r) PROVE DataInv'
    <2>1. UNCHANGED <<cons, prim, fluxVars, bufVars>>
      BY <1>3 DEF CompleteRegion
    <2> QED
      BY <1>3, <2>1, CountCompleteRegion, DataSame
  <1>4. ASSUME NEW r \in Ranks, NextStage(r) PROVE DataInv'
    <2>1. UNCHANGED <<cons, prim, fluxVars, bufVars>>
      BY <1>4 DEF NextStage
    <2> QED
      BY <1>4, <2>1, CountNextStage, DataSame
  <1>5. CASE EndCycle
    <2>1. UNCHANGED <<cons, prim, fluxVars, bufVars>>
      BY <1>5 DEF EndCycle
    <2> QED
      BY <1>5, <2>1, CountEndCycle, DataSame
  <1>6. CASE UNCHANGED vars
    <2>1. \A b \in Blocks : /\ \A u : CountB(b, u)' = CountB(b, u)
                            /\ BCount(b, "set_bc")' = BCount(b, "set_bc")
      BY <1>6 DEF vars, ctrlVars, CountB, Count, BCount, StageLevel
    <2>2. UNCHANGED <<cons, prim, fluxVars, bufVars>>
      BY <1>6 DEF vars
    <2> QED
      BY <2>1, <2>2, DataSame
  <1> QED
    BY <1>1, <1>2, <1>3, <1>4, <1>5, <1>6 DEF Next, RankStep, Incomplete, Terminated

LEMMA CycleDataStep ==
  ASSUME TypeOK, Order, DataInv, [Next]_vars, \A b \in Blocks : CycleData(b)
  PROVE  \A b \in Blocks : CycleData(b)'
  <1> USE DEF TypeOK
  <1> DEFINE Goal == \A b \in Blocks : CycleData(b)'
  <1>1. ASSUME NEW c \in Blocks, InitU1(c) PROVE Goal
    <2>1. /\ UNCHANGED <<base, stage, pdone, dtFrom, newDt, tag>>
          /\ bdone' = [bdone EXCEPT ![c] = @ \cup {"init_u1"}]
          /\ u1' = [u1 EXCEPT ![c] = cons[c][c]]
      BY <1>1 DEF InitU1, RunBlock, ctrlVars, stepVars
    <2>2. cons[c][c] = base
      <3>1. CountB(c, "update") = StageLevel(Rank(c)) /\ stage[Rank(c)] = 1
        BY <1>1, RunBlockNow DEF InitU1, BlockTask
      <3>2. StageLevel(Rank(c)) = base
        BY <3>1 DEF StageLevel, CtrlType
      <3> QED
        BY <3>1, <3>2 DEF DataInv, Levels
    <2> QED
      BY <2>1, <2>2 DEF CycleData, CtrlType, StepType
  <1>2. ASSUME NEW p \in Parts, EstimateTimestep(p) PROVE Goal
    <2>1. /\ UNCHANGED <<base, stage, bdone, dtFrom, u1, tag>>
          /\ pdone' = [pdone EXCEPT ![p] = @ \cup {"new_dt"}]
          /\ newDt' = [b \in Blocks |-> IF PartOf[b] = p THEN prim[b][b] ELSE newDt[b]]
      BY <1>2 DEF EstimateTimestep, RunPack, ctrlVars, stepVars, fieldVars
    <2>2. ASSUME NEW b \in Blocks, PartOf[b] = p PROVE prim[b][b] = base + NStages
      <3>1. CountB(b, "fill_derived") = StageLevel(Rank(b)) + 1 /\ LastStage(Rank(b))
        BY <1>2, <2>2, RunPackNow DEF EstimateTimestep, PackTask, Deps
      <3>2. StageLevel(Rank(b)) + 1 = base + NStages
        BY <3>1 DEF StageLevel, LastStage, CtrlType
      <3>3. b \in Zones(b)
        BY DEF Zones
      <3> QED
        BY <3>1, <3>2, <3>3 DEF DataInv, Levels
    <2> QED
      BY <2>1, <2>2 DEF CycleData, CtrlType, StepType
  <1>3. ASSUME NEW c \in Blocks, TagRefine(c) PROVE Goal
    <2>1. /\ UNCHANGED <<base, stage, pdone, dtFrom, u1, newDt>>
          /\ bdone' = [bdone EXCEPT ![c] = @ \cup {"tag_refine"}]
      BY <1>3 DEF TagRefine, RunBlock, ctrlVars, stepVars, fieldVars
    <2>2. PICK z \in Zones(c) : tag' = [tag EXCEPT ![c] = prim[c][z]]
      BY <1>3 DEF TagRefine
    <2>3. prim[c][z] = base + NStages
      <3>1. CountB(c, "fill_derived") = StageLevel(Rank(c)) + 1 /\ LastStage(Rank(c))
        BY <1>3, RunBlockNow DEF TagRefine, BlockTask
      <3>2. StageLevel(Rank(c)) + 1 = base + NStages
        BY <3>1 DEF StageLevel, LastStage, CtrlType
      <3> QED
        BY <3>1, <3>2 DEF DataInv, Levels
    <2> QED
      BY <2>1, <2>2, <2>3 DEF CycleData, CtrlType, StepType
  <1>4. ASSUME NEW p \in Parts, NEW t \in PackTask \ {"new_dt"}, RunPack(p, t),
               UNCHANGED <<u1, stepVars>>
        PROVE  Goal
    <2>1. /\ UNCHANGED <<base, stage, bdone, dtFrom, newDt, u1, tag>>
          /\ \A b \in Blocks : "new_dt" \in pdone'[PartOf[b]] <=> "new_dt" \in pdone[PartOf[b]]
      BY <1>4 DEF RunPack, ctrlVars, stepVars, CtrlType
    <2> QED
      BY <2>1 DEF CycleData
  <1>5. ASSUME NEW c \in Blocks, ApplyBoundaryConditions(c) PROVE Goal
    <2>1. /\ UNCHANGED <<base, stage, pdone, dtFrom, newDt, u1, tag>>
          /\ bdone' = [bdone EXCEPT ![c] = @ \cup {"set_bc"}]
      BY <1>5 DEF ApplyBoundaryConditions, RunBlock, ctrlVars, stepVars
    <2> QED
      BY <2>1 DEF CycleData, CtrlType
  <1>6. ASSUME NEW r \in Ranks, CompleteRegion(r) PROVE Goal
    BY <1>6 DEF CompleteRegion, CycleData, fieldVars, stepVars
  <1>7. ASSUME NEW r \in Ranks, NextStage(r) PROVE Goal
    <2>1. /\ UNCHANGED <<base, dtFrom, newDt, u1, tag>> /\ StageOver(r)
          /\ stage' = [stage EXCEPT ![r] = @ + 1]
          /\ bdone' = [b \in Blocks |-> IF Rank(b) = r THEN {} ELSE bdone[b]]
          /\ pdone' = [p \in Parts |-> IF RankOf[p] = r THEN {} ELSE pdone[p]]
      BY <1>7 DEF NextStage, fieldVars, stepVars
    <2>2. ASSUME NEW b \in Blocks, Rank(b) = r PROVE u1[b] = base
      <3>1. stage[r] = 1 \/ stage[r] > 1
        BY DEF CtrlType
      <3> QED
        BY <2>1, <2>2, <3>1, StageComplete DEF CycleData
    <2> QED
      BY <2>1, <2>2 DEF CycleData, CtrlType, Rank
  <1>8. CASE EndCycle
    <2>1. /\ base' = base + NStages /\ stage' = [r \in Ranks |-> 1] /\ dtFrom' = newDt
          /\ bdone' = [c \in Blocks |-> {}] /\ pdone' = [p \in Parts |-> {}]
      BY <1>8 DEF EndCycle
    <2>2. ASSUME NEW b \in Blocks PROVE newDt[b] = base + NStages
      <3>1. Rank(b) \in Ranks /\ StageOver(Rank(b)) /\ LastStage(Rank(b))
        BY <1>8 DEF EndCycle, Rank
      <3>2. "new_dt" \in pdone[PartOf[b]]
        BY <3>1, StageComplete DEF Rank
      <3> QED
        BY <3>2 DEF CycleData
    <2> QED
      BY <2>1, <2>2 DEF CycleData, Rank
  <1>9. CASE UNCHANGED vars
    BY <1>9 DEF vars, ctrlVars, fieldVars, stepVars, CycleData
  <1>10. ASSUME NEW p \in Parts, PackStep(p), ~Incomplete(p), ~EstimateTimestep(p) PROVE Goal
    <2>1. \E t \in PackTask \ {"new_dt"} : RunPack(p, t) /\ UNCHANGED <<u1, stepVars>>
      BY <1>10 DEF PackStep, StartReceive, CalculateFluxes, LoadAndSendFluxCorrections,
         ReceiveFluxCorrections, SetFluxCorrections, Update, SendBoundBufs, ReceiveBoundBufs,
         SetBounds, FillDerived, PackTask, FluxTask, fieldVars
    <2> QED
      BY <1>4, <2>1
  <1> QED
    BY <1>1, <1>2, <1>3, <1>5, <1>6, <1>7, <1>8, <1>9, <1>10
       DEF Next, RankStep, BlockStep, Incomplete, Terminated

-----------------------------------------------------------------------------
(* The theorems.                                                           *)

LEMMA IInvParts == IInv <=> TypeOK /\ Order /\ DataInv /\ \A b \in Blocks : CycleData(b)
  BY DEF IInv, DataInv

LEMMA IInvInit == Init => IInv
  <1> SUFFICES ASSUME Init PROVE IInv
    OBVIOUS
  <1>1. \A b \in Blocks : CycleData(b)
    BY DEF Init, CycleData, Rank
  <1> QED
    BY <1>1, TypeInit, OrderInit, DataInit, IInvParts

LEMMA IInvStep == IInv /\ [Next]_vars => IInv'
  <1> SUFFICES ASSUME IInv, [Next]_vars PROVE IInv'
    OBVIOUS
  <1>1. TypeOK /\ CtrlType /\ Order /\ DataInv /\ \A b \in Blocks : CycleData(b)
    BY IInvParts DEF TypeOK
  <1>2. TypeOK' /\ Order'
    BY <1>1, TypeStep, OrderStep
  <1>3. DataInv'
    BY <1>1, DataStep
  <1>4. \A b \in Blocks : CycleData(b)'
    BY <1>1, CycleDataStep
  <1> QED
    BY <1>2, <1>3, <1>4 DEF IInv, DataInv

\* The inductive invariant: every zone, flux, message, time step and tag is
\* at the level the completed tasks say.
THEOREM Inductive == Spec => []IInv
  BY IInvInit, IInvStep, PTL DEF Spec

\* Every update used states of one time level on both sides of every face.
THEOREM OneTimeLevel == Spec => []UpdateUsesOneTimeLevel
  <1>1. IInv => UpdateUsesOneTimeLevel
    <2> SUFFICES ASSUME IInv, NEW b \in Blocks, cons[b][b] > 0, NEW f \in Faces(b)
                 PROVE  applied[b][f].own = cons[b][b] - 1 /\ applied[b][f].nbr = cons[b][b] - 1
      BY DEF UpdateUsesOneTimeLevel
    <2>1. cons[b][b] = CountB(b, "update")
      BY DEF IInv, Levels
    <2>2. applied[b][f] = FluxAt(FaceRes(b, f), CountB(b, "update") - 1)
      BY <2>1 DEF IInv, Fluxes
    <2> QED
      BY <2>1, <2>2 DEF FluxAt
  <1> QED
    BY <1>1, Inductive, PTL

\* Neighbours at the same time level applied the same flux to their common
\* face: the update conserves what the blocks exchange, across levels too.
THEOREM FluxesConservative == Spec => []Conservative
  <1>1. IInv => Conservative
    <2> SUFFICES ASSUME IInv, NEW b \in Blocks, NEW n \in Nbrs[b], cons[b][b] = cons[n][n]
                 PROVE  applied[b][n] = Mirror(applied[n][b])
      BY DEF Conservative
    <2>1. n \in Blocks /\ b \in Nbrs[n] /\ n \in Faces(b) /\ b \in Faces(n)
      BY DEF Faces
    <2>2. CountB(b, "update") = CountB(n, "update")
      BY <2>1 DEF IInv, Levels
    <2>3. FaceRes(b, n) = FaceRes(n, b)
      BY <2>1 DEF FaceRes, Finer
    <2>4. /\ applied[b][n] = IF CountB(b, "update") > 0
                             THEN FluxAt(FaceRes(b, n), CountB(b, "update") - 1) ELSE NoFlux
          /\ applied[n][b] = IF CountB(n, "update") > 0
                             THEN FluxAt(FaceRes(n, b), CountB(n, "update") - 1) ELSE NoFlux
      BY <2>1 DEF IInv, Fluxes
    <2> QED
      BY <2>2, <2>3, <2>4 DEF FluxAt, NoFlux, Mirror
  <1> QED
    BY <1>1, Inductive, PTL

\* The buffers need room for two boundary messages and one correction.
THEOREM BufferBound == Spec => []BoundedInFlight
  <1>1. IInv => BoundedInFlight
    <2> SUFFICES ASSUME IInv, NEW b \in Blocks, NEW n \in Blocks
                 PROVE  Len(bndBuf[b][n]) <= 2 /\ Len(fluxBuf[b][n]) <= 1
      BY DEF BoundedInFlight
    <2>1. CtrlType /\ Order /\ BufType
      BY DEF IInv, TypeOK
    <2>2. CASE n \notin Nbrs[b]
      <3>1. bndBuf[b][n] = << >> /\ fluxBuf[b][n] = << >>
        BY <2>2, Directions DEF IInv, BndMessages, FluxMessages
      <3> QED
        BY <3>1
    <2>3. CASE n \in Nbrs[b]
      <3>1. Len(bndBuf[n][b]) \in Nat /\ Len(bndBuf[b][n]) \in Nat
        BY <2>1 DEF BufType
      <3>2. /\ Len(bndBuf[b][n]) = CountB(b, "send_bnd") - CountB(n, "set_bnd")
            /\ Len(bndBuf[n][b]) = CountB(n, "send_bnd") - CountB(b, "set_bnd")
        BY <2>3 DEF IInv, BndMessages
      <3>3. /\ CountB(b, "send_bnd") <= CountB(b, "set_bnd") + 1
            /\ CountB(n, "send_bnd") <= CountB(n, "set_bnd") + 1
            /\ CountB(b, "send_flx") <= CountB(b, "set_bnd") + 1
            /\ CountB(n, "send_bnd") <= CountB(n, "set_flx")
            /\ \A u : CountB(b, u) \in Nat /\ CountB(n, u) \in Nat
        BY <2>1, CountTypes, CountOrder
      <3>4. Len(bndBuf[b][n]) <= 2
        BY <3>1, <3>2, <3>3
      <3>5. Len(fluxBuf[b][n]) <= 1
        <4>1. CASE n \in Coarser[b]
          <5>1. Len(fluxBuf[b][n]) = CountB(b, "send_flx") - CountB(n, "set_flx")
            BY <4>1 DEF IInv, FluxMessages
          <5> QED
            BY <3>1, <3>2, <3>3, <5>1
        <4>2. CASE n \notin Coarser[b]
          <5>1. fluxBuf[b][n] = << >>
            BY <4>2 DEF IInv, FluxMessages
          <5> QED
            BY <5>1
        <4> QED
          BY <4>1, <4>2
      <3> QED
        BY <3>4, <3>5
    <2> QED
      BY <2>2, <2>3
  <1> QED
    BY <1>1, Inductive, PTL

\* A block is updated with the u1 and the dt of the cycle it is in.
THEOREM StagesShareCycleStart == Spec => UpdateUsesCycleStart
  <1>1. IInv /\ [Next]_vars => [\A b \in Blocks : cons'[b][b] # cons[b][b] =>
                                   u1[b] = base /\ dtFrom[b] = base]_vars
    <2> SUFFICES ASSUME IInv, [Next]_vars, NEW b \in Blocks, cons'[b][b] # cons[b][b]
                 PROVE  u1[b] = base /\ dtFrom[b] = base
      OBVIOUS
    <2>1. CtrlType /\ FieldType /\ Order /\ BlockOrder(b) /\ CycleData(b)
      BY DEF IInv, TypeOK, Order
    <2>2. ASSUME NEW p \in Parts, Update(p) PROVE u1[b] = base
      <3>1. PartOf[b] = p
        <4>1. b \in Zones(b)
          BY DEF Zones
        <4> QED
          BY <2>2, <4>1 DEF Update
      <3>2. region[Rank(b)] = 2
        BY <2>2, <3>1, PackTasksByRegion DEF Update, RunPack, Rank, FluxTask
      <3>3. stage[Rank(b)] > 1 \/ "init_u1" \in bdone[b]
        BY <2>1, <3>2 DEF BlockOrder, CtrlType, Rank
      <3> QED
        BY <2>1, <3>3 DEF CycleData
    <2>3. ASSUME NEW p \in Parts, SetBounds(p) PROVE cons'[b][b] = cons[b][b]
      <3>1. b \in Zones(b)
        BY DEF Zones
      <3> QED
        BY <2>3, <3>1 DEF SetBounds
    <2>4. ASSUME NEW c \in Blocks, ApplyBoundaryConditions(c) PROVE cons'[b][b] = cons[b][b]
      <3>1. b # Phys
        OBVIOUS
      <3> QED
        BY <2>1, <2>4, <3>1 DEF ApplyBoundaryConditions, FieldType
    <2>5. \E p \in Parts : Update(p)
      <3>1. ASSUME UNCHANGED cons PROVE FALSE
        BY <3>1
      <3> QED
        BY <2>3, <2>4, <3>1 DEF Next, RankStep, PackStep, BlockStep, InitU1, StartReceive,
           CalculateFluxes, LoadAndSendFluxCorrections, ReceiveFluxCorrections,
           SetFluxCorrections, SendBoundBufs, ReceiveBoundBufs, Incomplete, FillDerived,
           EstimateTimestep, TagRefine, CompleteRegion, NextStage, EndCycle, Terminated,
           vars, fieldVars
    <2> QED
      BY <2>1, <2>2, <2>5 DEF CycleData
  <1> QED
    BY <1>1, Inductive, PTL DEF Spec, UpdateUsesCycleStart

\* The next dt and the tags come from the final state of the cycle.
THEOREM FinalDecisions == Spec => DecisionsUseFinalState
  <1>1. IInv /\ [Next]_vars => [ncycle' # ncycle =>
          \A b \in Blocks : /\ cons[b][b] = base' /\ dtFrom'[b] = base'
                            /\ Adaptive => tag[b] = base']_vars
    <2> SUFFICES ASSUME IInv, [Next]_vars, ncycle' # ncycle, NEW b \in Blocks
                 PROVE  /\ cons[b][b] = base' /\ dtFrom'[b] = base'
                        /\ Adaptive => tag[b] = base'
      OBVIOUS
    <2>1. CtrlType /\ Order /\ Levels(b) /\ CycleData(b)
      BY DEF IInv, TypeOK
    <2>2. EndCycle
      <3>1. ASSUME UNCHANGED ncycle PROVE FALSE
        BY <3>1
      <3>2. ASSUME NEW r \in Ranks, RankStep(r) PROVE UNCHANGED ncycle
        BY <3>2, StepKinds DEF RunPack, RunBlock, CompleteRegion, NextStage, vars, ctrlVars
      <3> QED
        BY <3>1, <3>2 DEF Next, Terminated, vars, ctrlVars
    <2>3. Rank(b) \in Ranks /\ StageOver(Rank(b)) /\ LastStage(Rank(b)) /\ base' = base + NStages
          /\ dtFrom' = newDt
      BY <2>2 DEF EndCycle, Rank
    <2>4. /\ {"update", "new_dt"} \subseteq pdone[PartOf[b]]
          /\ Adaptive => "tag_refine" \in bdone[b]
      BY <2>1, <2>3, StageComplete DEF Rank, FluxTask
    <2>5. CountB(b, "update") = base + NStages
      <3>1. CountB(b, "update") = StageLevel(Rank(b)) + 1
        BY <2>4 DEF CountB, Count, Rank
      <3>2. StageLevel(Rank(b)) = base + NStages - 1
        BY <2>3 DEF StageLevel, LastStage
      <3> QED
        BY <2>1, <3>1, <3>2 DEF CtrlType
    <2> QED
      BY <2>1, <2>3, <2>4, <2>5 DEF Levels, CycleData
  <1> QED
    BY <1>1, Inductive, PTL DEF Spec, DecisionsUseFinalState

-----------------------------------------------------------------------------
(* The collection implements the abstract stages.                          *)

\* The levels of the states block b's last update used.
UsedBy(b) == {applied[b][f].own : f \in Faces(b)} \cup {applied[b][f].nbr : f \in Faces(b)}

LEMMA MappedState ==
  ASSUME IInv, NEW b \in Blocks
  PROVE  cons[b][b] = CountB(b, "update") /\ UsedBy(b) = {CountB(b, "update") - 1}
  <1>1. Phys \in Faces(b)
    BY DEF Faces
  <1>2. CountB(b, "update") \in Nat
    BY CountTypes DEF IInv, TypeOK
  <1>3. \A f \in Faces(b) : applied[b][f] = IF CountB(b, "update") > 0
                                            THEN FluxAt(FaceRes(b, f), CountB(b, "update") - 1)
                                            ELSE NoFlux
    BY DEF IInv, Fluxes
  <1>4. \A f \in Faces(b) : /\ applied[b][f].own = CountB(b, "update") - 1
                            /\ applied[b][f].nbr = CountB(b, "update") - 1
    <2>1. CASE CountB(b, "update") > 0
      <3> TAKE f \in Faces(b)
      <3>1. applied[b][f] = FluxAt(FaceRes(b, f), CountB(b, "update") - 1)
        BY <1>3, <2>1
      <3> QED
        BY <3>1 DEF FluxAt
    <2>2. CASE CountB(b, "update") = 0
      BY <1>3, <2>2 DEF NoFlux, NoData
    <2> QED
      BY <1>2, <2>1, <2>2
  <1>5. cons[b][b] = CountB(b, "update")
    BY DEF IInv, Levels
  <1> QED
    BY <1>1, <1>4, <1>5 DEF UsedBy

LEMMA MappedStates ==
  IInv => \A b \in Blocks : cons[b][b] = CountB(b, "update") /\ UsedBy(b) = {CountB(b, "update") - 1}
  BY MappedState

LEMMA MappedStatesNext ==
  IInv' => (\A b \in Blocks : cons[b][b] = CountB(b, "update") /\ UsedBy(b) = {CountB(b, "update") - 1})'
  BY MappedStates, PTL

LEMMA SyncInit == Init => Sync!Init
  <1> SUFFICES ASSUME Init PROVE Sync!Init
    OBVIOUS
  <1>1. IInv
    BY IInvInit
  <1>2. \A b \in Blocks : CountB(b, "update") = 0
    <2>1. base = 0 /\ stage = [r \in Ranks |-> 1] /\ pdone = [p \in Parts |-> {}]
      BY DEF Init
    <2> QED
      BY <2>1 DEF CountB, Count, StageLevel, Rank
  <1>3. \A b \in Blocks : cons[b][b] = 0 /\ UsedBy(b) = {-1}
    BY <1>1, <1>2, MappedState
  <1>4. [b \in Blocks |-> cons[b][b]] = [b \in Blocks |-> 0]
    BY <1>3
  <1>5. [b \in Blocks |-> UsedBy(b)] = [b \in Blocks |-> {-1}]
    BY <1>3
  <1> QED
    BY <1>4, <1>5 DEF Sync!Init, UsedBy

\* No neighbour of a block about to be updated is behind it.
LEMMA NeighboursReady ==
  ASSUME IInv, NEW p \in Parts, RunPack(p, "update"),
         NEW b \in Blocks, PartOf[b] = p, NEW n \in Nbrs[b]
  PROVE  CountB(n, "update") >= CountB(b, "update")
  <1>1. CtrlType /\ Order /\ BufType /\ n \in Blocks /\ b \in Nbrs[n]
    BY DEF IInv, TypeOK
  <1>2. CountB(b, "update") = StageLevel(Rank(b))
    BY <1>1, RunPackNow DEF PackTask, FluxTask
  <1>3. Len(bndBuf[n][b]) \in Nat
    BY <1>1 DEF BufType
  <1>4. Len(bndBuf[n][b]) = CountB(n, "send_bnd") - CountB(b, "set_bnd")
    BY <1>1 DEF IInv, BndMessages
  <1>5. /\ CountB(n, "send_bnd") <= CountB(n, "update")
        /\ CountB(b, "set_bnd") >= StageLevel(Rank(b))
        /\ \A u : CountB(b, u) \in Nat /\ CountB(n, u) \in Nat
    BY <1>1, CountOrder, CountTypes
  <1> QED
    BY <1>2, <1>3, <1>4, <1>5

LEMMA SyncStep == IInv /\ IInv' /\ [Next]_vars
                    => [Sync!Next]_<<[b \in Blocks |-> cons[b][b]], [b \in Blocks |-> UsedBy(b)]>>
  <1> DEFINE lvl == [b \in Blocks |-> cons[b][b]]
             usd == [b \in Blocks |-> UsedBy(b)]
  <1> SUFFICES ASSUME IInv, IInv', [Next]_vars PROVE Sync!Next \/ (lvl' = lvl /\ usd' = usd)
    OBVIOUS
  <1>1. CtrlType /\ Order
    BY DEF IInv, TypeOK
  <1>2. /\ lvl = [b \in Blocks |-> CountB(b, "update")]
        /\ usd = [b \in Blocks |-> {CountB(b, "update") - 1}]
    BY MappedState
  <1>3. /\ lvl' = [b \in Blocks |-> CountB(b, "update")']
        /\ usd' = [b \in Blocks |-> {CountB(b, "update")' - 1}]
    BY MappedStatesNext
  <1>4. ASSUME NEW p \in Parts, RunPack(p, "update") PROVE Sync!Next
    <2> DEFINE S == {b \in Blocks : PartOf[b] = p}
    <2>1. ASSUME NEW b \in Blocks
          PROVE  /\ CountB(b, "update")' = CountB(b, "update") + IF b \in S THEN 1 ELSE 0
                 /\ CountB(b, "update") \in Nat
      BY <1>1, <1>4, CountRunPack, CountTypes DEF PackTask, FluxTask
    <2>2. \A b \in S : \A n \in Nbrs[b] : lvl[n] >= lvl[b]
      BY <1>2, <1>4, NeighboursReady
    <2>3. ASSUME NEW b \in Blocks
          PROVE  /\ lvl'[b] = IF b \in S THEN lvl[b] + 1 ELSE lvl[b]
                 /\ usd'[b] = IF b \in S THEN {lvl[b]} ELSE usd[b]
      <3>1. /\ lvl[b] = CountB(b, "update") /\ usd[b] = {CountB(b, "update") - 1}
            /\ lvl'[b] = CountB(b, "update")' /\ usd'[b] = {CountB(b, "update")' - 1}
        BY <1>2, <1>3
      <3> HIDE DEF lvl, usd
      <3>2. CASE b \in S
        <4>1. CountB(b, "update")' - 1 = CountB(b, "update")
          BY <2>1, <3>2
        <4> QED
          BY <2>1, <3>1, <3>2, <4>1
      <3>3. CASE b \notin S
        <4>1. CountB(b, "update")' = CountB(b, "update")
          BY <2>1, <3>3
        <4> QED
          BY <3>1, <3>3, <4>1
      <3> QED
        BY <3>2, <3>3
    <2>4. lvl' = [b \in Blocks |-> IF b \in S THEN lvl[b] + 1 ELSE lvl[b]]
      BY <1>3, <2>3
    <2>5. usd' = [b \in Blocks |-> IF b \in S THEN {lvl[b]} ELSE usd[b]]
      BY <1>3, <2>3
    <2>6. Sync!Advance(S)
      BY <2>2, <2>4, <2>5 DEF Sync!Advance, UsedBy
    <2> QED
      BY <2>6 DEF Sync!Next
  <1>5. ASSUME \A b \in Blocks : CountB(b, "update")' = CountB(b, "update")
        PROVE  lvl' = lvl /\ usd' = usd
    <2> HIDE DEF lvl, usd
    <2> QED
      BY <1>2, <1>3, <1>5
  <1>6. ASSUME NEW p \in Parts, NEW t \in PackTask \ {"update"}, RunPack(p, t)
        PROVE  lvl' = lvl /\ usd' = usd
    <2>1. \A b \in Blocks : CountB(b, "update")' = CountB(b, "update")
      BY <1>1, <1>6, CountRunPack, CountTypes
    <2> QED
      BY <1>5, <2>1
  <1>7. ASSUME NEW c \in Blocks, NEW t \in BlockTask, RunBlock(c, t)
        PROVE  lvl' = lvl /\ usd' = usd
    <2>1. \A b \in Blocks : CountB(b, "update")' = CountB(b, "update")
      BY <1>1, <1>7, CountRunBlock
    <2> QED
      BY <1>5, <2>1
  <1>8. ASSUME NEW r \in Ranks, CompleteRegion(r) PROVE lvl' = lvl /\ usd' = usd
    BY <1>8 DEF CompleteRegion, fieldVars, fluxVars, UsedBy
  <1>9. ASSUME NEW r \in Ranks, NextStage(r) PROVE lvl' = lvl /\ usd' = usd
    BY <1>9 DEF NextStage, fieldVars, fluxVars, UsedBy
  <1>10. CASE EndCycle
    BY <1>10 DEF EndCycle, fieldVars, fluxVars, UsedBy
  <1>11. CASE UNCHANGED vars
    BY <1>11 DEF vars, fieldVars, fluxVars, UsedBy
  <1> HIDE DEF lvl, usd
  <1>12. ASSUME NEW r \in Ranks, RankStep(r) PROVE Sync!Next \/ (lvl' = lvl /\ usd' = usd)
    BY <1>4, <1>6, <1>7, <1>8, <1>9, <1>11, <1>12, StepKinds
  <1> QED
    BY <1>10, <1>11, <1>12 DEF Next, Terminated

\* HydroDriver implements BulkSync: whatever the interleaving, the blocks
\* advance one level at a time, each from its neighbours' states at its own
\* level, and none overtakes a neighbour it still needs.
THEOREM Implementation == Spec => ImplementsBulkSync
  <1>1. IInv /\ IInv' /\ [Next]_vars
          => [Sync!Next]_<<[b \in Blocks |-> cons[b][b]],
                           [b \in Blocks |-> {applied[b][f].own : f \in Faces(b)}
                                               \cup {applied[b][f].nbr : f \in Faces(b)}]>>
    BY SyncStep DEF UsedBy
  <1> QED
    BY <1>1, SyncInit, Inductive, PTL DEF Spec, ImplementsBulkSync, Sync!Spec
=============================================================================
