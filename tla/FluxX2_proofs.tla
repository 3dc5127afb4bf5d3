---------------------------- MODULE FluxX2_proofs ----------------------------
(***************************************************************************)
(* The x2 and x3 kernels are correct for every block, team and division of *)
(* the columns: FluxX2!IInv is inductive, and implies that threads do not  *)
(* race, agree on the pads, and solve each face once from its own two rows.*)
(***************************************************************************)
EXTENDS FluxX2, TLAPS

LEMMA SizeFacts ==
  /\ js \in Nat /\ je \in Nat /\ js >= 2 /\ js <= je
  /\ Rows \subseteq Cells /\ Rows \subseteq Nat
  /\ \A j : j \in Rows <=> j \in Int /\ js - 1 <= j /\ j <= je + 1
  /\ \A j : j \in js - 1 .. je + 2 <=> j \in Int /\ js - 1 <= j /\ j <= je + 2
  /\ \A f : f \in Faces <=>
       \E j, i : f = <<j, i>> /\ j \in Int /\ js <= j /\ j <= je + 1 /\ i \in Columns
BY SizeAssumption DEF js, je, Cells, Rows, Faces

LEMMA ShareFacts ==
  \A i \in Columns : Share["reconstruct"][i] \in Threads /\ Share["riemann"][i] \in Threads
BY ShareAssumption

LEMMA OtherFacts == Other("p0") = "p1" /\ Other("p1") = "p0"
BY DEF Other, Pads

\* Consecutive rows use the two pads in turn.
LEMMA PadFacts ==
  \A j \in Int : /\ LeftPad(j) \in Pads /\ LeftPad(j + 1) = Other(LeftPad(j))
                 /\ LeftPad(j) # LeftPad(j - 1) /\ Other(LeftPad(j)) = LeftPad(j - 1)
<1> SUFFICES ASSUME NEW j \in Int
             PROVE /\ LeftPad(j) \in Pads /\ LeftPad(j + 1) = Other(LeftPad(j))
                   /\ LeftPad(j) # LeftPad(j - 1) /\ Other(LeftPad(j)) = LeftPad(j - 1)
  OBVIOUS
<1>1. js \in Int
  BY SizeFacts
<1>2. PICK k \in Int : k = j - js
  BY <1>1
<1>3. /\ (j + 1) - js = k + 1 /\ (j - 1) - js = k - 1
  BY <1>1, <1>2
<1>4. (k % 2 = 0 /\ (k + 1) % 2 = 1 /\ (k - 1) % 2 = 1) \/ (k % 2 = 1 /\ (k + 1) % 2 = 0 /\ (k - 1) % 2 = 0)
  BY <1>2
<1> QED BY <1>2, <1>3, <1>4, OtherFacts DEF LeftPad, Pads

LEMMA BeforeFacts ==
  /\ Before(js - 1) = 0
  /\ \A j \in Int : Before(j) \in Nat
  /\ \A j \in Int : j >= js => Before(j) = 2 * (j - js) + 1 /\ Before(j + 1) = Before(j) + 2
  /\ \A j \in Int : j = js - 1 => Before(j + 1) = Before(j) + 1
BY SizeFacts DEF Before

LEMMA InitInv == Init => IInv
<1> SUFFICES ASSUME Init PROVE IInv
  OBVIOUS
<1> USE SizeFacts, ShareFacts
<1>1. TypeOK
  BY DEF Init, TypeOK, Iterations, Pads
<1>2. Shares
  <2> SUFFICES ASSUME NEW t \in Threads
               PROVE pc[t] = "reconstruct" /\ todo[t] = Iterations("reconstruct", t)
                       /\ row[t] # je + 2
    BY DEF Init, Shares
  <2> QED BY DEF Init
<1>3. BarriersHold
  BY BeforeFacts DEF Init, BarriersHold
<1>4. PadsFilled
  <2>1. LeftPad(js - 1) = "p0"
    <3>1. ((js - 1) - js) % 2 = 1
      <4>1. PICK k \in Int : k = (js - 1) - js
        OBVIOUS
      <4>2. k + 1 = 0
        BY <4>1
      <4> QED BY <4>1, <4>2
    <3> QED BY <3>1 DEF LeftPad
  <2>2. \A i \in Columns : LastRow(i) = js - 2
    BY DEF Init, LastRow, Iterations
  <2> QED BY <2>1, <2>2 DEF Init, PadsFilled
<1>5. FluxesSolved
  BY DEF Init, FluxesSolved, Solved
<1> QED BY <1>1, <1>2, <1>3, <1>4, <1>5 DEF IInv

LEMMA RowFacts ==
  ASSUME IInv, NEW t \in Threads
  PROVE  /\ row[t] \in Int /\ js - 1 <= row[t] /\ row[t] <= je + 2
         /\ pc[t] # "done" => row[t] <= je + 1 /\ row[t] \in Rows
         /\ pc[t] \in {"riemann", "barrier2"} => row[t] >= js
<1>1. row[t] \in Int /\ js - 1 <= row[t] /\ row[t] <= je + 2
  BY SizeFacts DEF IInv, TypeOK
<1>2. pc[t] # "done" => row[t] # je + 2
  BY DEF IInv, Shares
<1>3. pc[t] \in {"riemann", "barrier2"} => row[t] >= js
  BY DEF IInv, Shares
<1>4. pc[t] # "done" => row[t] <= je + 1
  BY <1>1, <1>2, SizeFacts
<1> QED BY <1>1, <1>3, <1>4, SizeFacts

\* What the team does while thread t is in a loop.
LEMMA Together ==
  ASSUME IInv, NEW t \in Threads, NEW u \in Threads
  PROVE  /\ pc[t] = "riemann" => row[u] = row[t] /\ pc[u] \in {"barrier1", "riemann", "barrier2"}
         /\ pc[t] = "reconstruct" /\ pc[u] \in {"reconstruct", "riemann"} =>
              row[u] = row[t] /\ pc[u] = "reconstruct"
<1>1. /\ row[t] \in Int /\ row[u] \in Int /\ js - 1 <= row[t] /\ js - 1 <= row[u] /\ js \in Int
      /\ arrived[t] \in Int /\ arrived[u] \in Int
      /\ pc[t] \in {"reconstruct", "barrier1", "riemann", "barrier2", "swap", "done"}
      /\ pc[u] \in {"reconstruct", "barrier1", "riemann", "barrier2", "swap", "done"}
  BY SizeFacts DEF IInv, TypeOK
<1>2. /\ pc[u] \notin {"barrier1", "barrier2"} => arrived[t] >= arrived[u]
      /\ pc[t] \notin {"barrier1", "barrier2"} => arrived[u] >= arrived[t]
      /\ arrived[t] >= arrived[u] - 1
  BY <1>1 DEF IInv, BarriersHold
<1>3. /\ arrived[t] = Before(row[t]) + CASE pc[t] \in {"reconstruct", "done"} -> 0
                                       [] pc[t] \in {"barrier1", "riemann"} -> 1
                                       [] pc[t] = "barrier2" -> 2
                                       [] pc[t] = "swap" -> IF row[t] < js THEN 1 ELSE 2
      /\ arrived[u] = Before(row[u]) + CASE pc[u] \in {"reconstruct", "done"} -> 0
                                       [] pc[u] \in {"barrier1", "riemann"} -> 1
                                       [] pc[u] = "barrier2" -> 2
                                       [] pc[u] = "swap" -> IF row[u] < js THEN 1 ELSE 2
  BY DEF IInv, BarriersHold
<1>4. ASSUME NEW v \in {t, u}
      PROVE /\ pc[v] \in {"riemann", "barrier2"} => row[v] >= js
            /\ pc[v] = "done" <=> row[v] = je + 2
            /\ row[v] <= je + 2 /\ je \in Int
  BY SizeFacts DEF IInv, Shares, TypeOK
<1>5. CASE pc[t] = "riemann"
  <2>1. row[t] >= js /\ row[t] <= je + 1 /\ arrived[t] = 2 * (row[t] - js) + 2
    BY <1>1, <1>3, <1>4, <1>5 DEF Before
  <2>2. CASE pc[u] \in {"reconstruct", "done"}
    <3>1. arrived[u] = Before(row[u]) + 0 /\ arrived[u] = arrived[t]
      BY <1>1, <1>2, <1>3, <1>5, <2>2
    <3> QED BY <1>1, <2>1, <3>1 DEF Before
  <2>3. CASE pc[u] = "swap"
    <3>1. arrived[u] = Before(row[u]) + (IF row[u] < js THEN 1 ELSE 2) /\ arrived[u] = arrived[t]
      BY <1>1, <1>2, <1>3, <1>5, <2>3
    <3> QED BY <1>1, <2>1, <3>1 DEF Before
  <2>4. CASE pc[u] \in {"barrier1", "riemann"}
    <3>1. arrived[u] = Before(row[u]) + 1
      BY <1>3, <2>4
    <3> QED BY <1>1, <1>2, <1>5, <2>1, <2>4, <3>1 DEF Before
  <2>5. CASE pc[u] = "barrier2"
    <3>1. arrived[u] = Before(row[u]) + 2 /\ row[u] >= js
      BY <1>3, <1>4, <2>5
    <3> QED BY <1>1, <1>2, <1>5, <2>1, <2>5, <3>1 DEF Before
  <2> QED BY <1>1, <1>5, <2>2, <2>3, <2>4, <2>5
<1>6. CASE pc[t] = "reconstruct" /\ pc[u] \in {"reconstruct", "riemann"}
  <2>1. arrived[t] = Before(row[t]) /\ arrived[u] = arrived[t]
    BY <1>1, <1>2, <1>3, <1>6 DEF Before
  <2>2. CASE pc[u] = "reconstruct"
    <3>1. arrived[u] = Before(row[u])
      BY <1>1, <1>3, <2>2 DEF Before
    <3>2. Before(row[u]) = Before(row[t])
      BY <2>1, <3>1
    <3>3. row[u] = row[t]
      BY <1>1, <3>2 DEF Before
    <3> QED BY <1>6, <2>2, <3>3
  <2>3. CASE pc[u] = "riemann"
    <3>1. arrived[u] = Before(row[u]) + 1 /\ row[u] >= js
      BY <1>3, <1>4, <2>3
    <3> QED BY <1>1, <2>1, <3>1 DEF Before
  <2> QED BY <1>6, <2>2, <2>3
<1> QED BY <1>5, <1>6

-----------------------------------------------------------------------------
(* One lemma per step.                                                     *)

LEMMA ReconstructStep ==
  ASSUME IInv, NEW t \in Threads, Reconstruct(t) PROVE IInv'
<1> USE SizeFacts, ShareFacts
<1> PICK i \in todo[t] : /\ todo' = [todo EXCEPT ![t] = @ \ {i}]
                         /\ left' = [left EXCEPT ![wlb[t]][i] = row[t]]
                         /\ wr' = [wr EXCEPT ![i] = row[t]]
  BY DEF Reconstruct
<1>1. pc[t] = "reconstruct" /\ UNCHANGED <<pc, row, arrived, wlb, flux>>
  BY DEF Reconstruct
<1>2. i \in Columns /\ Share["reconstruct"][i] = t
  BY <1>1 DEF IInv, Shares, Iterations
<1>3. row[t] \in Rows /\ row[t] \in Int /\ wlb[t] = LeftPad(row[t]) /\ wlb[t] \in Pads
  BY <1>1, RowFacts DEF IInv, TypeOK, PadsFilled
<1>4. TypeOK'
  BY <1>1, <1>2, <1>3 DEF IInv, TypeOK
<1>5. Shares' /\ BarriersHold'
  BY <1>1 DEF IInv, TypeOK, Shares, BarriersHold
<1>6. PadsFilled'
  <2>1. \A u \in Threads : wlb'[u] = LeftPad(row'[u])
    BY <1>1 DEF IInv, PadsFilled
  <2>2. ASSUME NEW k \in Columns, k # i
        PROVE /\ LastRow(k)' = LastRow(k) /\ wr'[k] = wr[k]
              /\ \A p \in Pads : left'[p][k] = left[p][k]
    BY <1>1, <1>2, <1>3, <2>2 DEF LastRow, IInv, TypeOK
  <2>3. LastRow(i) = row[t] - 1 /\ LastRow(i)' = row[t]
    BY <1>1, <1>2 DEF LastRow, IInv, TypeOK
  <2>4. /\ wr'[i] = row[t] /\ left'[LeftPad(row[t])][i] = row[t]
        /\ left'[LeftPad(row[t] - 1)][i] = left[LeftPad(row[t] - 1)][i]
    BY <1>2, <1>3, PadFacts DEF IInv, TypeOK
  <2>5. row[t] >= js => left[LeftPad(row[t] - 1)][i] = row[t] - 1
    BY <1>2, <1>3, <2>3 DEF IInv, PadsFilled
  <2>6. ASSUME NEW k \in Columns
        PROVE /\ LastRow(k)' >= js - 1 =>
                   wr'[k] = LastRow(k)' /\ left'[LeftPad(LastRow(k)')][k] = LastRow(k)'
              /\ LastRow(k)' >= js => left'[LeftPad(LastRow(k)' - 1)][k] = LastRow(k)' - 1
    <3>1. CASE k = i
      BY <2>3, <2>4, <2>5, <3>1
    <3>2. CASE k # i
      <4>1. LastRow(k) \in Int
        BY DEF LastRow, IInv, TypeOK
      <4>2. LeftPad(LastRow(k)) \in Pads /\ LeftPad(LastRow(k) - 1) \in Pads
        BY <4>1, PadFacts
      <4> QED BY <2>2, <3>2, <4>2 DEF IInv, PadsFilled
    <3> QED BY <3>1, <3>2
  <2> QED BY <1>1, <2>1, <2>6 DEF PadsFilled, LeftPad
<1>7. FluxesSolved'
  <2> SUFFICES ASSUME NEW j \in js .. je + 1, NEW k \in Columns PROVE Solved(j, k)' <=> Solved(j, k)
    BY <1>1 DEF FluxesSolved, IInv
  <2> QED BY <1>1 DEF Solved, IInv, TypeOK
<1> QED BY <1>4, <1>5, <1>6, <1>7 DEF IInv

\* What a step that leaves rows, pads and fluxes alone keeps, if no column's last
\* reconstructed row and no solved face changes.
LEMMA SamePadContents ==
  ASSUME IInv, UNCHANGED <<row, wlb, left, wr>>, \A i \in Columns : LastRow(i)' = LastRow(i)
  PROVE  PadsFilled'
BY DEF IInv, PadsFilled, LeftPad

LEMMA SameFluxes ==
  ASSUME IInv, flux' = flux, \A j \in js .. je + 1, i \in Columns : Solved(j, i)' <=> Solved(j, i)
  PROVE  FluxesSolved'
BY DEF IInv, FluxesSolved

LEMMA RiemannStep ==
  ASSUME IInv, NEW t \in Threads, RiemannSolver(t)
  PROVE  /\ IInv'
         /\ \E f \in Faces : flux[f] = Garbage /\ flux' = [flux EXCEPT ![f] = <<f[1] - 1, f[1]>>]
<1> USE SizeFacts, ShareFacts
<1> PICK i \in todo[t] : /\ todo' = [todo EXCEPT ![t] = @ \ {i}]
                         /\ flux' = [flux EXCEPT ![<<row[t], i>>] = <<left[wl(t)][i], wr[i]>>]
  BY DEF RiemannSolver
<1>1. pc[t] = "riemann" /\ UNCHANGED <<pc, row, arrived, wlb, left, wr>>
  BY DEF RiemannSolver
<1>2. i \in Columns /\ Share["riemann"][i] = t
  BY <1>1 DEF IInv, Shares, Iterations
<1>3. row[t] \in Int /\ row[t] >= js /\ row[t] <= je + 1
  BY <1>1, RowFacts
<1>4. row[t] \in js .. je + 1 /\ <<row[t], i>> \in Faces
  BY <1>2, <1>3
<1>5. LastRow(i) = row[t]
  <2>1. /\ row[Share["reconstruct"][i]] = row[t]
        /\ pc[Share["reconstruct"][i]] \in {"barrier1", "riemann", "barrier2"}
    BY <1>1, <1>2, Together
  <2> QED BY <2>1 DEF LastRow
<1>6. left[wl(t)][i] = row[t] - 1 /\ wr[i] = row[t]
  <2>1. wl(t) = LeftPad(row[t] - 1)
    BY <1>3, PadFacts DEF wl, IInv, PadsFilled
  <2> QED BY <1>2, <1>3, <1>5, <2>1 DEF IInv, PadsFilled
<1>7. flux' = [flux EXCEPT ![<<row[t], i>>] = <<row[t] - 1, row[t]>>]
  BY <1>6
<1>8. TypeOK'
  <2>1. row[t] - 1 \in Rows /\ row[t] \in Rows
    BY <1>3
  <2>2. flux' \in [Faces -> (((Rows \cup {Garbage}) \X (Rows \cup {Garbage})) \cup {Garbage})]
    BY <1>7, <2>1 DEF IInv, TypeOK
  <2> QED BY <1>1, <2>2 DEF IInv, TypeOK
<1>9. Shares' /\ BarriersHold'
  BY <1>1 DEF IInv, TypeOK, Shares, BarriersHold
<1>10. PadsFilled'
  <2>1. \A k \in Columns : LastRow(k)' = LastRow(k)
    BY <1>1 DEF IInv, TypeOK, LastRow
  <2> QED BY <1>1, <2>1, SamePadContents
<1>11. FluxesSolved'
  <2> SUFFICES ASSUME NEW j \in js .. je + 1, NEW k \in Columns
               PROVE (flux[<<j, k>>] = IF Solved(j, k) THEN <<j - 1, j>> ELSE Garbage)'
    BY DEF FluxesSolved
  <2>1. CASE j = row[t] /\ k = i
    <3>1. Solved(j, k)'
      BY <1>1, <1>2, <2>1 DEF Solved, IInv, TypeOK
    <3>2. flux'[<<j, k>>] = <<j - 1, j>>
      BY <1>4, <1>7, <2>1 DEF IInv, TypeOK
    <3> QED BY <3>1, <3>2
  <2>2. CASE ~(j = row[t] /\ k = i)
    <3>1. Solved(j, k)' <=> Solved(j, k)
      BY <1>1, <1>2, <2>2 DEF Solved, IInv, TypeOK
    <3>2. <<j, k>> # <<row[t], i>> /\ <<j, k>> \in Faces
      BY <2>2
    <3>3. flux'[<<j, k>>] = flux[<<j, k>>]
      BY <3>2, <1>7 DEF IInv, TypeOK
    <3> QED BY <3>1, <3>3 DEF IInv, FluxesSolved
  <2> QED BY <2>1, <2>2
<1>12. flux[<<row[t], i>>] = Garbage
  <2>1. ~Solved(row[t], i)
    BY <1>1, <1>2, <1>3 DEF Solved
  <2> QED BY <1>2, <1>4, <2>1 DEF IInv, FluxesSolved
<1> QED BY <1>4, <1>7, <1>8, <1>9, <1>10, <1>11, <1>12 DEF IInv

LEMMA BarrierStep ==
  ASSUME IInv, NEW t \in Threads,
         \/ ReachFirstBarrier(t) \/ LeaveFirstBarrier(t)
         \/ ReachSecondBarrier(t) \/ LeaveSecondBarrier(t)
  PROVE  IInv'
<1> USE SizeFacts, ShareFacts
<1>1. CASE ReachFirstBarrier(t)
  <2>1. /\ pc[t] = "reconstruct" /\ todo[t] = {} /\ pc' = [pc EXCEPT ![t] = "barrier1"]
        /\ arrived' = [arrived EXCEPT ![t] = @ + 1]
        /\ UNCHANGED <<row, todo, wlb, left, wr, flux>>
    BY <1>1 DEF ReachFirstBarrier, Arrive
  <2>2. Shares' /\ BarriersHold'
    BY <2>1, BeforeFacts DEF IInv, TypeOK, Shares, BarriersHold
  <2>3. arrived'[t] \in 0 .. 2 * (je - js) + 5
    <3>1. arrived[t] = Before(row[t]) + 0
      BY <2>1 DEF IInv, BarriersHold
    <3>2. row[t] \in Int /\ js - 1 <= row[t] /\ row[t] <= je + 1
      BY <2>1, RowFacts
    <3>3. Before(row[t]) \in Nat /\ Before(row[t]) <= 2 * (je - js) + 3
      BY <3>2 DEF Before
    <3>4. arrived'[t] = arrived[t] + 1
      BY <2>1 DEF IInv, TypeOK
    <3> QED BY <3>1, <3>3, <3>4
  <2>4. TypeOK'
    BY <2>1, <2>3 DEF IInv, TypeOK
  <2>5. PadsFilled'
    <3>1. \A k \in Columns : LastRow(k)' = LastRow(k)
      BY <2>1 DEF IInv, TypeOK, LastRow
    <3> QED BY <2>1, <3>1, SamePadContents
  <2>6. FluxesSolved'
    <3>1. \A j \in js .. je + 1, k \in Columns : Solved(j, k)' <=> Solved(j, k)
      BY <2>1 DEF IInv, TypeOK, Solved
    <3> QED BY <2>1, <3>1, SameFluxes
  <2> QED BY <2>2, <2>4, <2>5, <2>6 DEF IInv
<1>2. CASE LeaveFirstBarrier(t)
  <2>1. /\ pc[t] = "barrier1" /\ pc' = [pc EXCEPT ![t] = IF row[t] > js - 1 THEN "riemann" ELSE "swap"]
        /\ todo' = [todo EXCEPT ![t] = IF row[t] > js - 1 THEN Iterations("riemann", t) ELSE @]
        /\ \A u \in Threads : arrived[u] >= arrived[t]
        /\ UNCHANGED <<row, arrived, wlb, left, wr, flux>>
    BY <1>2 DEF LeaveFirstBarrier, Open, IInv, TypeOK
  <2>2. Shares'
    BY <2>1 DEF IInv, TypeOK, Shares
  <2>3. BarriersHold'
    BY <2>1 DEF IInv, TypeOK, BarriersHold
  <2>4. TypeOK'
    BY <2>1 DEF IInv, TypeOK, Iterations
  <2>5. PadsFilled'
    <3>1. \A k \in Columns : LastRow(k)' = LastRow(k)
      BY <2>1 DEF IInv, TypeOK, LastRow
    <3> QED BY <2>1, <3>1, SamePadContents
  <2>6. FluxesSolved'
    <3> SUFFICES ASSUME NEW j \in js .. je + 1, NEW k \in Columns PROVE Solved(j, k)' <=> Solved(j, k)
      BY <2>1 DEF FluxesSolved, IInv
    <3>1. CASE Share["riemann"][k] # t
      BY <2>1, <3>1 DEF Solved, IInv, TypeOK
    <3>2. CASE Share["riemann"][k] = t /\ j # row[t]
      BY <2>1, <3>2 DEF Solved
    <3>3. CASE Share["riemann"][k] = t /\ j = row[t]
      <4>1. pc'[t] = "riemann" /\ k \in todo'[t]
        BY <2>1, <3>3 DEF IInv, TypeOK, Iterations
      <4> QED BY <2>1, <3>3, <4>1 DEF Solved
    <3> QED BY <3>1, <3>2, <3>3
  <2> QED BY <2>2, <2>3, <2>4, <2>5, <2>6 DEF IInv
<1>3. CASE ReachSecondBarrier(t)
  <2>1. /\ pc[t] = "riemann" /\ todo[t] = {} /\ pc' = [pc EXCEPT ![t] = "barrier2"]
        /\ arrived' = [arrived EXCEPT ![t] = @ + 1]
        /\ UNCHANGED <<row, todo, wlb, left, wr, flux>>
    BY <1>3 DEF ReachSecondBarrier, Arrive
  <2>2. Shares' /\ BarriersHold'
    BY <2>1, BeforeFacts DEF IInv, TypeOK, Shares, BarriersHold
  <2>3. arrived'[t] \in 0 .. 2 * (je - js) + 5
    <3>1. arrived[t] = Before(row[t]) + 1
      BY <2>1 DEF IInv, BarriersHold
    <3>2. row[t] \in Int /\ js <= row[t] /\ row[t] <= je + 1
      BY <2>1, RowFacts
    <3>3. Before(row[t]) \in Nat /\ Before(row[t]) <= 2 * (je - js) + 3
      BY <3>2 DEF Before
    <3>4. arrived'[t] = arrived[t] + 1
      BY <2>1 DEF IInv, TypeOK
    <3> QED BY <3>1, <3>3, <3>4
  <2>4. TypeOK'
    BY <2>1, <2>3 DEF IInv, TypeOK
  <2>5. PadsFilled'
    <3>1. \A k \in Columns : LastRow(k)' = LastRow(k)
      BY <2>1 DEF IInv, TypeOK, LastRow
    <3> QED BY <2>1, <3>1, SamePadContents
  <2>6. FluxesSolved'
    <3>1. \A j \in js .. je + 1, k \in Columns : Solved(j, k)' <=> Solved(j, k)
      BY <2>1 DEF IInv, TypeOK, Solved
    <3> QED BY <2>1, <3>1, SameFluxes
  <2> QED BY <2>2, <2>4, <2>5, <2>6 DEF IInv
<1>4. CASE LeaveSecondBarrier(t)
  <2>1. /\ pc[t] = "barrier2" /\ pc' = [pc EXCEPT ![t] = "swap"] /\ row[t] >= js
        /\ \A u \in Threads : arrived[u] >= arrived[t]
        /\ UNCHANGED <<row, todo, arrived, wlb, left, wr, flux>>
    BY <1>4 DEF LeaveSecondBarrier, Open, IInv, Shares
  <2>2. Shares'
    BY <2>1 DEF IInv, TypeOK, Shares
  <2>3. BarriersHold'
    BY <2>1 DEF IInv, TypeOK, BarriersHold
  <2>4. TypeOK'
    BY <2>1 DEF IInv, TypeOK
  <2>5. PadsFilled'
    <3>1. \A k \in Columns : LastRow(k)' = LastRow(k)
      BY <2>1 DEF IInv, TypeOK, LastRow
    <3> QED BY <2>1, <3>1, SamePadContents
  <2>6. FluxesSolved'
    <3>1. \A j \in js .. je + 1, k \in Columns : Solved(j, k)' <=> Solved(j, k)
      BY <2>1 DEF IInv, TypeOK, Solved
    <3> QED BY <2>1, <3>1, SameFluxes
  <2> QED BY <2>2, <2>3, <2>4, <2>5, <2>6 DEF IInv
<1> QED BY <1>1, <1>2, <1>3, <1>4

LEMMA SwapStep ==
  ASSUME IInv, NEW t \in Threads, Swap(t) PROVE IInv'
<1> USE SizeFacts, ShareFacts
<1>1. /\ pc[t] = "swap"
      /\ wlb' = [wlb EXCEPT ![t] = wl(t)] /\ row' = [row EXCEPT ![t] = @ + 1]
      /\ pc' = [pc EXCEPT ![t] = IF row[t] = je + 1 THEN "done" ELSE "reconstruct"]
      /\ todo' = [todo EXCEPT ![t] = IF row[t] = je + 1 THEN @ ELSE Iterations("reconstruct", t)]
      /\ UNCHANGED <<arrived, left, wr, flux>>
  BY DEF Swap, IInv, TypeOK
<1>2. row[t] \in Int /\ js - 1 <= row[t] /\ row[t] <= je + 1
  BY <1>1, RowFacts
<1>3. wlb'[t] = LeftPad(row[t] + 1) /\ wlb'[t] \in Pads
  BY <1>1, <1>2, PadFacts DEF IInv, TypeOK, PadsFilled, wl
<1>4. TypeOK'
  BY <1>1, <1>2, <1>3 DEF IInv, TypeOK, Iterations
<1>5. Shares'
  <2>1. /\ row'[t] = row[t] + 1
        /\ pc'[t] = IF row[t] = je + 1 THEN "done" ELSE "reconstruct"
        /\ todo'[t] = IF row[t] = je + 1 THEN todo[t] ELSE Iterations("reconstruct", t)
    BY <1>1 DEF IInv, TypeOK
  <2>2. ASSUME NEW u \in Threads, u # t
        PROVE row'[u] = row[u] /\ pc'[u] = pc[u] /\ todo'[u] = todo[u]
    BY <1>1, <2>2 DEF IInv, TypeOK
  <2>3. pc'[t] = "done" <=> row'[t] = je + 2
    BY <1>2, <2>1
  <2>4. pc'[t] = "reconstruct" => todo'[t] = Iterations("reconstruct", t)
    BY <2>1
  <2>5. pc'[t] \in {"reconstruct", "done"}
    BY <2>1
  <2> QED BY <2>2, <2>3, <2>4, <2>5 DEF IInv, Shares, Iterations
<1>6. BarriersHold'
  <2>1. Before(row[t] + 1) = Before(row[t]) + (IF row[t] < js THEN 1 ELSE 2)
    BY <1>2, BeforeFacts
  <2>2. arrived[t] = Before(row[t] + 1) + 0
    <3>1. arrived[t] = Before(row[t]) + (IF row[t] < js THEN 1 ELSE 2)
      BY <1>1 DEF IInv, BarriersHold
    <3> QED BY <1>2, <2>1, <3>1, BeforeFacts
  <2>3. row'[t] = row[t] + 1 /\ pc'[t] \in {"reconstruct", "done"}
    BY <1>1 DEF IInv, TypeOK
  <2>4. ASSUME NEW u \in Threads, u # t PROVE row'[u] = row[u] /\ pc'[u] = pc[u]
    BY <1>1, <2>4 DEF IInv, TypeOK
  <2>5. ASSUME NEW u \in Threads
        PROVE arrived'[u] = Before(row'[u]) + CASE pc'[u] \in {"reconstruct", "done"} -> 0
                                                [] pc'[u] \in {"barrier1", "riemann"} -> 1
                                                [] pc'[u] = "barrier2" -> 2
                                                [] pc'[u] = "swap" -> IF row'[u] < js THEN 1 ELSE 2
    <3>1. CASE u = t
      BY <1>1, <2>2, <2>3, <3>1
    <3>2. CASE u # t
      BY <1>1, <2>4, <3>2 DEF IInv, BarriersHold
    <3> QED BY <3>1, <3>2
  <2>6. \A u \in Threads : pc'[u] \in {"barrier1", "barrier2"} <=> pc[u] \in {"barrier1", "barrier2"}
    BY <1>1, <2>3, <2>4
  <2>7. \A u, v \in Threads :
          arrived'[v] >= arrived'[u] - IF pc'[u] \in {"barrier1", "barrier2"} THEN 1 ELSE 0
    BY <1>1, <2>6 DEF IInv, BarriersHold
  <2> QED BY <2>5, <2>7 DEF BarriersHold, Before
<1>7. PadsFilled'
  <2>1. \A u \in Threads : wlb'[u] = LeftPad(row'[u])
    BY <1>1, <1>3 DEF IInv, TypeOK, PadsFilled
  <2>2. ASSUME NEW k \in Columns PROVE LastRow(k)' = LastRow(k)
    BY <1>1, <1>2 DEF LastRow, IInv, TypeOK, Iterations
  <2> QED BY <1>1, <2>1, <2>2 DEF IInv, PadsFilled, LeftPad
<1>8. FluxesSolved'
  <2> SUFFICES ASSUME NEW j \in js .. je + 1, NEW k \in Columns PROVE Solved(j, k)' <=> Solved(j, k)
    BY <1>1 DEF FluxesSolved, IInv
  <2> QED BY <1>1, <1>2 DEF Solved, IInv, TypeOK, Iterations
<1> QED BY <1>4, <1>5, <1>6, <1>7, <1>8 DEF IInv

LEMMA StepInv == IInv /\ [Next]_vars => IInv'
<1> SUFFICES ASSUME IInv, [Next]_vars PROVE IInv'
  OBVIOUS
<1>1. CASE UNCHANGED vars
  <2>1. TypeOK' /\ Shares' /\ BarriersHold'
    BY <1>1 DEF vars, IInv, TypeOK, Shares, BarriersHold
  <2>2. PadsFilled'
    <3>1. \A k \in Columns : LastRow(k)' = LastRow(k)
      BY <1>1 DEF vars, LastRow
    <3> QED BY <1>1, <3>1, SamePadContents DEF vars
  <2>3. FluxesSolved'
    <3>1. \A j \in js .. je + 1, k \in Columns : Solved(j, k)' <=> Solved(j, k)
      BY <1>1 DEF vars, Solved
    <3> QED BY <1>1, <3>1, SameFluxes DEF vars
  <2> QED BY <2>1, <2>2, <2>3 DEF IInv
<1> QED BY <1>1, ReconstructStep, RiemannStep, BarrierStep, SwapStep DEF Next, ThreadStep, Done

\* In every reachable state what the pads and fluxes hold follows from where
\* the threads are, and no thread is a barrier ahead of another.
THEOREM Inductive == Spec => []IInv
BY InitInv, StepInv, PTL DEF Spec

\* Every variable keeps its type.
THEOREM TypeCorrect == Spec => []TypeOK
BY Inductive, PTL DEF IInv

-----------------------------------------------------------------------------
LEMMA InvRace == IInv => NoDataRace
<1> SUFFICES ASSUME IInv, NEW t \in Threads, NEW u \in Threads, t # u
             PROVE Writes(t) \cap (Reads(u) \cup Writes(u)) = {}
  BY DEF NoDataRace
<1>1. CASE pc[t] = "reconstruct"
  <2>1. CASE pc[u] \in {"reconstruct", "riemann"}
    <3>1. pc[u] = "reconstruct"
      BY <1>1, <2>1, Together
    <3>2. \A i \in todo[t], k \in todo[u] : i # k
      BY <1>1, <3>1 DEF IInv, Shares, Iterations
    <3> QED BY <1>1, <3>1, <3>2 DEF Reads, Writes
  <2>2. CASE pc[u] \notin {"reconstruct", "riemann"}
    BY <2>2 DEF Reads, Writes
  <2> QED BY <2>1, <2>2
<1>2. CASE pc[t] = "riemann"
  <2>1. pc[u] # "reconstruct"
    BY <1>2, Together
  <2>2. CASE pc[u] = "riemann"
    <3>1. \A i \in todo[t], k \in todo[u] : i # k
      BY <1>2, <2>2 DEF IInv, Shares, Iterations
    <3>2. wl(u) \in Pads
      BY OtherFacts DEF IInv, TypeOK, wl, Pads
    <3> QED BY <1>2, <2>2, <3>1, <3>2 DEF Reads, Writes, Pads
  <2> QED BY <2>1, <2>2 DEF Reads, Writes
<1>3. CASE pc[t] \notin {"reconstruct", "riemann"}
  BY <1>3 DEF Writes
<1> QED BY <1>1, <1>2, <1>3

\* No two threads race on a pad or a flux.
THEOREM RaceFree == Spec => []NoDataRace
BY Inductive, InvRace, PTL

LEMMA InvPointers == IInv => PointersAgree
<1> SUFFICES ASSUME IInv, NEW t \in Threads, NEW u \in Threads,
                    pc[t] = pc[u], pc[t] \in {"reconstruct", "riemann"}
             PROVE row[t] = row[u] /\ wlb[t] = wlb[u]
  BY DEF PointersAgree
<1>1. row[t] = row[u]
  BY Together
<1> QED BY <1>1 DEF IInv, PadsFilled

\* The threads' private pointers agree wherever they are used.
THEOREM SamePads == Spec => []PointersAgree
BY Inductive, InvPointers, PTL

LEMMA InvFaces == IInv => FaceStates
<1> USE SizeFacts, ShareFacts
<1> SUFFICES ASSUME IInv, NEW f \in Faces
             PROVE /\ flux[f] # Garbage => flux[f] = <<f[1] - 1, f[1]>>
                   /\ KernelOver => flux[f] # Garbage
  BY DEF FaceStates
<1> PICK j \in js .. je + 1, i \in Columns : f = <<j, i>>
  BY DEF Faces
<1>1. flux[f] = IF Solved(j, i) THEN <<j - 1, j>> ELSE Garbage
  BY DEF IInv, FluxesSolved
<1>2. f[1] = j
  OBVIOUS
<1>3. ASSUME KernelOver PROVE flux[f] # Garbage
  <2>1. row[Share["riemann"][i]] = je + 2
    BY <1>3 DEF KernelOver, IInv, Shares
  <2>2. flux[f] = <<j - 1, j>>
    BY <1>1, <2>1 DEF Solved
  <2>3. <<j - 1, j>> \in Cells \X Cells
    <3>1. j - 1 \in Rows /\ j \in Rows
      OBVIOUS
    <3> QED BY <3>1
  <2> QED BY <2>2, <2>3, GarbageAssumption
<1> QED BY <1>1, <1>2, <1>3

\* Every face is solved from the rows on its two sides, and none is missing.
THEOREM FacesSolved == Spec => []FaceStates
BY Inductive, InvFaces, PTL

LEMMA StepAbstract == IInv /\ [Next]_vars => [Abstract!Next]_flux
<1> SUFFICES ASSUME IInv, [Next]_vars, flux' # flux PROVE Abstract!Next
  OBVIOUS
<1>1. PICK t \in Threads : RiemannSolver(t)
  BY DEF Next, ThreadStep, Done, Reconstruct, ReachFirstBarrier, LeaveFirstBarrier,
         ReachSecondBarrier, LeaveSecondBarrier, Arrive, Swap, vars
<1>2. PICK f \in Faces : flux[f] = Garbage /\ flux' = [flux EXCEPT ![f] = <<f[1] - 1, f[1]>>]
  BY <1>1, RiemannStep
<1> QED BY <1>2 DEF Abstract!Next, Abstract!Solve

\* The x2 and x3 kernels implement FaceFluxes.
THEOREM Implementation == Spec => ImplementsFaceFluxes
<1>1. Init => Abstract!Init
  BY DEF Init, Abstract!Init
<1> QED BY <1>1, Inductive, StepAbstract, PTL DEF Spec, ImplementsFaceFluxes, Abstract!Spec
=============================================================================
