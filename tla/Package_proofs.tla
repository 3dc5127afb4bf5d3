--------------------------- MODULE Package_proofs ---------------------------
(***************************************************************************)
(* What the callbacks of the Hydro package do to the cells of a block.     *)
(*                                                                         *)
(* The equation of state and the two reductions are right for every        *)
(* arithmetic that meets the assumptions of Eos, however it rounds, every  *)
(* row of cells and every content an update may leave in them: Eos!IInv is *)
(* inductive.                                                              *)
(*                                                                         *)
(* The refinement criteria keep to their blocks and lose no gradient, for  *)
(* every size of a block of at least two ghosts, every dimension of the    *)
(* mesh and every arithmetic.  A velocity gradient in a line, whose loops  *)
(* leave the arrays, is excepted (Supported).  What their tags do to the   *)
(* mesh: the gap between the two thresholds is wide enough for every       *)
(* number of levels, every threshold Initialize lets pass and every flow.  *)
(***************************************************************************)
EXTENDS Eos, Criteria, Hysteresis, TLAPS

LEMMA Closed ==
  /\ \A x, y \in FP : Add(x, y) \in FP /\ Sub(x, y) \in FP /\ Mul(x, y) \in FP /\ Div(x, y) \in FP
  /\ Gm1 \in FP
  /\ \A m \in [Dims -> FP] : SqrSum(m) \in FP
BY FPAssumption, ParamsAssumption DEF Gm1, SqrSum, Sqr, Dims

\* What the conversion returns, and that converting its result changes nothing
\* but, by rounding, the pressure of a cell that is at the floor.
LEMMA Conversion ==
  ASSUME NEW u \in Cons
  PROVE  LET r == ConservedToPrimitive(u) IN
         /\ r.cons \in Cons /\ r.prim \in Prim
         /\ Gt(r.prim.d, Zero) /\ Gt(r.prim.p, Zero)
         /\ r.cons.d = r.prim.d
         /\ Settled(r.cons, r.prim)
<1> DEFINE u_d == IF Gt(u.d, DFloor) THEN u.d ELSE DFloor
           di == Div(One, u_d)
           e_k == Mul(Mul(Half, di), SqrSum(u.m))
           w_p == Mul(Gm1, Sub(u.e, e_k))
           warm == Gt(w_p, PFloor)
           u_e == IF warm THEN u.e ELSE Add(Div(PFloor, Gm1), e_k)
           p == IF warm THEN w_p ELSE PFloor
           r == ConservedToPrimitive(u)
<1>1. /\ u.d \in FP /\ u.m \in [Dims -> FP] /\ u.e \in FP
      /\ u_d \in FP /\ di \in FP /\ e_k \in FP /\ w_p \in FP /\ u_e \in FP /\ p \in FP
  <2>1. u.d \in FP /\ u.m \in [Dims -> FP] /\ u.e \in FP
    BY DEF Cons
  <2>2. u_d \in FP /\ di \in FP
    BY <2>1, FPAssumption, ParamsAssumption
  <2>3. e_k \in FP
    BY <2>1, <2>2, Closed, FPAssumption, ParamsAssumption
  <2>4. w_p \in FP /\ u_e \in FP /\ p \in FP
    BY <2>1, <2>3, Closed, FPAssumption, ParamsAssumption
  <2> QED BY <2>1, <2>2, <2>3, <2>4
<1>2. /\ r.cons = [u EXCEPT !.d = u_d, !.e = u_e]
      /\ r.prim = [d |-> u_d, v |-> [n \in Dims |-> Mul(u.m[n], di)], p |-> p]
  BY DEF ConservedToPrimitive
<1>3. /\ r.cons \in Cons /\ r.cons.d = u_d /\ r.cons.m = u.m /\ r.cons.e = u_e
      /\ r.prim.d = u_d /\ r.prim.p = p
  <2>1. u = [d |-> u.d, m |-> u.m, e |-> u.e]
    BY DEF Cons
  <2> HIDE DEF u_d, u_e, p, di, r
  <2>2. r.cons = [d |-> u_d, m |-> u.m, e |-> u_e]
    BY <1>2, <2>1
  <2> QED BY <1>1, <1>2, <2>2 DEF Cons
<1>4. r.prim \in Prim
  <2>1. [n \in Dims |-> Mul(u.m[n], di)] \in [Dims -> FP]
    BY <1>1, Closed
  <2> HIDE DEF u_d, p, di
  <2> QED BY <1>1, <1>2, <2>1 DEF Prim
<1>5. Gt(u_d, Zero) /\ Gt(p, Zero)
  BY <1>1, OrderAssumption, FPAssumption, ParamsAssumption
<1>6. ~Gt(DFloor, DFloor)
  BY OrderAssumption, FPAssumption, ParamsAssumption
<1>7. Settled(r.cons, r.prim)
  <2> DEFINE s == ConservedToPrimitive(r.cons)
             w_p2 == Mul(Gm1, Sub(u_e, e_k))
             u_e2 == IF Gt(w_p2, PFloor) THEN u_e ELSE Add(Div(PFloor, Gm1), e_k)
             p2 == IF Gt(w_p2, PFloor) THEN w_p2 ELSE PFloor
  <2>1. (IF Gt(u_d, DFloor) THEN u_d ELSE DFloor) = u_d
    BY <1>6
  <2>2. /\ s.cons = [r.cons EXCEPT !.d = u_d, !.e = u_e2]
        /\ s.prim = [d |-> u_d, v |-> [n \in Dims |-> Mul(u.m[n], di)], p |-> p2]
    <3> HIDE DEF u_d, u_e, r
    <3> QED BY <1>3, <2>1 DEF ConservedToPrimitive
  <2>3. u_e2 = u_e /\ (p2 # p => p = PFloor)
    OBVIOUS
  <2>4. s.cons = r.cons
    <3> HIDE DEF u_d, u_e, u_e2, s, r
    <3> QED BY <1>3, <2>2, <2>3 DEF Cons
  <2>5. s.prim.d = u_d /\ s.prim.v = r.prim.v /\ s.prim.p = p2
    <3> HIDE DEF u_d, p, p2, di, s, r
    <3> QED BY <1>2, <2>2
  <2> HIDE DEF u_d, p, p2, s, r
  <2> QED BY <1>3, <2>3, <2>4, <2>5 DEF Settled, s
<1> HIDE DEF r, u_d, p
<1> QED BY <1>3, <1>4, <1>5, <1>7 DEF r

LEMMA RateType == \A q \in Prim, n \in Dims : Rate(q, n) \in FP
BY Closed, FPAssumption, ParamsAssumption, MeshAssumption DEF Rate, SoundSpeed, Prim, Dims

LEMMA FMinFacts ==
  ASSUME NEW x \in FP, NEW y \in FP, x # NaN
  PROVE  /\ FMin(x, y) \in {x, y} /\ FMin(x, y) # NaN
         /\ ~Gt(FMin(x, y), x) /\ ~Gt(FMin(x, y), y)
         /\ \A z \in FP : ~Gt(x, z) => ~Gt(FMin(x, y), z)
BY OrderAssumption DEF FMin

\* A cell is taken into the accumulator with the limits of all its directions.
LEMMA CellDtFacts ==
  ASSUME NEW acc \in FP, NEW wp \in Prim, acc # NaN
  PROVE  /\ CellDt(acc, wp) \in FP /\ CellDt(acc, wp) # NaN
         /\ CellDt(acc, wp) = acc \/ \E n \in 1 .. NDim : CellDt(acc, wp) = Rate(wp, n)
         /\ \A n \in 1 .. NDim : ~Gt(CellDt(acc, wp), Rate(wp, n))
         /\ \A z \in FP : ~Gt(acc, z) => ~Gt(CellDt(acc, wp), z)
<1> DEFINE x == FMin(acc, Rate(wp, 1))
           y == FMin(x, Rate(wp, 2))
           z == FMin(y, Rate(wp, 3))
<1>1. NDim \in 1 .. 3 /\ \A n \in 1 .. 3 : Rate(wp, n) \in FP
  BY RateType, MeshAssumption DEF Dims
<1>2. /\ x \in FP /\ x # NaN /\ x \in {acc, Rate(wp, 1)} /\ ~Gt(x, Rate(wp, 1))
      /\ \A q \in FP : ~Gt(acc, q) => ~Gt(x, q)
  BY <1>1, FMinFacts
<1>3. /\ y \in FP /\ y # NaN /\ y \in {x, Rate(wp, 2)} /\ ~Gt(y, Rate(wp, 2))
      /\ \A q \in FP : ~Gt(x, q) => ~Gt(y, q)
  <2> HIDE DEF x
  <2> QED BY <1>1, <1>2, FMinFacts
<1>4. /\ z \in FP /\ z # NaN /\ z \in {y, Rate(wp, 3)} /\ ~Gt(z, Rate(wp, 3))
      /\ \A q \in FP : ~Gt(y, q) => ~Gt(z, q)
  <2> HIDE DEF y
  <2> QED BY <1>1, <1>3, FMinFacts
<1>5. CellDt(acc, wp) = IF NDim > 2 THEN z ELSE IF NDim > 1 THEN y ELSE x
  BY <1>1 DEF CellDt
<1> HIDE DEF x, y, z
<1>6. CASE NDim = 1
  <2>1. CellDt(acc, wp) = x /\ \A n \in 1 .. NDim : n = 1
    BY <1>5, <1>6
  <2> QED BY <1>1, <1>2, <1>6, <2>1
<1>7. CASE NDim = 2
  <2>1. CellDt(acc, wp) = y /\ \A n \in 1 .. NDim : n \in {1, 2}
    BY <1>5, <1>7
  <2> QED BY <1>1, <1>2, <1>3, <1>7, <2>1
<1>8. CASE NDim = 3
  <2>1. CellDt(acc, wp) = z /\ \A n \in 1 .. NDim : n \in {1, 2, 3}
    BY <1>5, <1>8
  <2> QED BY <1>1, <1>2, <1>3, <1>4, <1>8, <2>1
<1> QED BY <1>1, <1>6, <1>7, <1>8

\* A NaN in one momentum of a cell is a NaN in its kinetic energy, and in the sum.
LEMMA HydroHstFacts ==
  ASSUME NEW u \in Cons
  PROVE  /\ \A col \in Columns : HydroHst(col, u) \in FP
         /\ (\E n \in Dims : u.m[n] = NaN) => HydroHst("KE", u) = NaN
<1>1. u.d \in FP /\ u.m \in [Dims -> FP] /\ u.e \in FP
  BY DEF Cons
<1>2. ASSUME NEW col \in Columns PROVE HydroHst(col, u) \in FP
  BY <1>1, Closed, FPAssumption, ParamsAssumption DEF HydroHst, Columns, Dims
<1>3. ASSUME NEW n \in Dims, u.m[n] = NaN PROVE HydroHst("KE", u) = NaN
  <2>1. u.m[1] \in FP /\ u.m[2] \in FP /\ u.m[3] \in FP
    BY <1>1 DEF Dims
  <2>2. Sqr(u.m[1]) \in FP /\ Sqr(u.m[2]) \in FP /\ Sqr(u.m[3]) \in FP /\ Sqr(NaN) = NaN
    BY <2>1, FPAssumption, ParamsAssumption, NaNAssumption DEF Sqr
  <2>3. SqrSum(u.m) = NaN
    <3>1. n = 1 \/ n = 2 \/ n = 3
      BY DEF Dims
    <3>2. Add(Sqr(u.m[1]), Sqr(u.m[2])) \in FP
      BY <2>2, FPAssumption, ParamsAssumption
    <3> QED BY <1>3, <2>2, <3>1, <3>2, NaNAssumption DEF SqrSum
  <2>4. Mul(Div(Half, u.d), NaN) = NaN /\ Mul(NaN, Volume) = NaN
    BY <1>1, FPAssumption, ParamsAssumption, NaNAssumption
  <2> QED BY <2>3, <2>4 DEF HydroHst
<1> QED BY <1>2, <1>3

-----------------------------------------------------------------------------
LEMMA InitInv == Init => IInv
<1> SUFFICES ASSUME Init PROVE IInv
  OBVIOUS
<1> PICK f \in [Interior -> ConsValues] : cons = [c \in Cells |-> f[Owner[c]]]
  BY DEF Init
<1>1. cons \in [Cells -> Cons]
  BY MeshAssumption
<1>2. prim \in [Cells -> Prim]
  BY FPAssumption, ParamsAssumption DEF Init, Prim
<1>3. TypeOK
  BY <1>1, <1>2, FPAssumption, ParamsAssumption DEF Init, TypeOK
<1>4. DtIsMinimum
  BY OrderAssumption, FPAssumption, ParamsAssumption DEF Init, DtIsMinimum, NewDt
<1> QED BY <1>3, <1>4 DEF Init, IInv, Derived, PositiveStates, GhostsAgree, RestartFaithful,
  SettledInv, GhostInv, ResumedInv, ReductionInv

LEMMA UpdateInv == IInv /\ Update => IInv'
<1> SUFFICES ASSUME IInv, Update PROVE IInv'
  OBVIOUS
<1>1. cons' \in [Cells -> Cons]
  BY MeshAssumption DEF Update, IInv, TypeOK
<1>2. TypeOK'
  BY <1>1, FPAssumption, ParamsAssumption DEF Update, IInv, TypeOK
<1>3. DtIsMinimum'
  BY OrderAssumption, FPAssumption, ParamsAssumption DEF Update, DtIsMinimum, NewDt
<1>4. SettledInv'
  BY DEF Update, IInv, SettledInv, Settled, Derived
<1> QED BY <1>2, <1>3, <1>4 DEF Update, IInv, Derived, PositiveStates, GhostsAgree, RestartFaithful,
  GhostInv, ResumedInv, ReductionInv

LEMMA SetBoundsInv == IInv /\ SetBounds => IInv'
<1> SUFFICES ASSUME IInv, SetBounds PROVE IInv'
  OBVIOUS
<1>1. \A c \in Cells : Owner[c] \in Cells /\ Owner[Owner[c]] = Owner[c]
  BY MeshAssumption
<1>2. TypeOK'
  BY <1>1 DEF SetBounds, IInv, TypeOK
<1>3. DtIsMinimum'
  BY DEF SetBounds, IInv, DtIsMinimum, NewDt
<1>4. SettledInv'
  BY DEF SetBounds, IInv, SettledInv, Settled, Derived
<1>5. GhostInv'
  BY <1>1 DEF SetBounds, GhostInv
<1>6. ResumedInv'
  <2>1. resumed => dump # None /\ cons = dump.cons /\ dump.cons \in [Cells -> Cons]
    BY DEF SetBounds, IInv, TypeOK, ResumedInv, Derived
  <2>2. resumed => cons' = cons
    BY <1>1, <2>1 DEF SetBounds, IInv, TypeOK, SettledInv
  <2> QED BY <2>1, <2>2 DEF SetBounds, ResumedInv, Derived
<1> QED BY <1>2, <1>3, <1>4, <1>5, <1>6 DEF SetBounds, IInv, Derived, PositiveStates, GhostsAgree,
  RestartFaithful, ReductionInv

LEMMA FillDerivedInv == IInv /\ FillDerived => IInv'
<1> SUFFICES ASSUME IInv, FillDerived PROVE IInv'
  OBVIOUS
<1>1. \A c \in Cells : cons[c] \in Cons /\ Owner[c] \in Cells /\ cons[c] = cons[Owner[c]]
  BY MeshAssumption DEF FillDerived, IInv, TypeOK, GhostInv
<1>2. \A c \in Cells : cons'[c] = ConservedToPrimitive(cons[c]).cons
                      /\ prim'[c] = ConservedToPrimitive(cons[c]).prim
  BY DEF FillDerived
<1>3. \A c \in Cells :
        /\ cons'[c] \in Cons /\ prim'[c] \in Prim
        /\ Gt(prim'[c].d, Zero) /\ Gt(prim'[c].p, Zero) /\ cons'[c].d = prim'[c].d
        /\ Settled(cons'[c], prim'[c])
  BY <1>1, <1>2, Conversion
<1>4. TypeOK'
  BY <1>3 DEF FillDerived, IInv, TypeOK
<1>5. PositiveStates'
  BY <1>3 DEF PositiveStates
<1>6. GhostsAgree'
  BY <1>1, <1>2 DEF GhostsAgree
<1>7. DtIsMinimum'
  BY DEF FillDerived, IInv, DtIsMinimum, NewDt
<1>8. SettledInv'
  BY <1>3 DEF FillDerived, IInv, SettledInv, Settled
<1>9. RestartFaithful'
  <2> SUFFICES ASSUME resumed, NEW c \in Cells
               PROVE  /\ cons'[c] = dump.cons[c]
                      /\ prim'[c].d = dump.prim[c].d /\ prim'[c].v = dump.prim[c].v
                      /\ prim'[c].p # dump.prim[c].p => dump.prim[c].p = PFloor
    BY DEF FillDerived, RestartFaithful
  <2>1. dump # None /\ cons = dump.cons
    BY DEF FillDerived, IInv, ResumedInv, Derived
  <2>2. Settled(dump.cons[c], dump.prim[c])
    BY <2>1 DEF IInv, SettledInv
  <2> QED BY <1>2, <2>1, <2>2 DEF Settled
<1>10. ResumedInv' /\ GhostInv' /\ ReductionInv'
  BY DEF FillDerived, IInv, ResumedInv, GhostInv, ReductionInv, Derived
<1> QED BY <1>4, <1>5, <1>6, <1>7, <1>8, <1>9, <1>10 DEF FillDerived, IInv

\* A step within the states the equation of state has filled: the cells stay.
LEMMA Undisturbed ==
  ASSUME IInv, Derived, Derived', UNCHANGED <<cons, prim, dump, resumed>>
  PROVE  PositiveStates' /\ GhostsAgree' /\ RestartFaithful' /\ SettledInv' /\ ResumedInv'
BY DEF IInv, PositiveStates, GhostsAgree, RestartFaithful, SettledInv, Settled, ResumedInv

LEMMA ReductionsInv ==
  ASSUME IInv,
         StartEstimate \/ EstimateTimestep \/ EndEstimate \/ SumHistory \/ EndHistory
  PROVE  IInv'
<1>1. Derived /\ Derived' /\ UNCHANGED <<cons, prim, dump, resumed>>
  BY DEF StartEstimate, EstimateTimestep, EndEstimate, SumHistory, EndHistory, Derived
<1>2. PositiveStates' /\ GhostsAgree' /\ RestartFaithful' /\ SettledInv' /\ ResumedInv'
  BY <1>1, Undisturbed
<1>3. \A c \in Interior : c \in Cells /\ cons[c] \in Cons /\ prim[c] \in Prim
  BY MeshAssumption DEF IInv, TypeOK
<1>4. \A c \in Interior, n \in 1 .. NDim : Rate(prim[c], n) \in FP
  BY <1>3, RateType, MeshAssumption DEF Dims
<1>5. GhostInv'
  BY DEF StartEstimate, EstimateTimestep, EndEstimate, SumHistory, EndHistory, GhostInv
<1> DEFINE Kept == pc' = "cycle" => \A c \in Interior :
                     (\E n \in Dims : cons[c].m[n] = NaN) => hst'["KE"] = NaN
<1>6. SUFFICES TypeOK' /\ DtIsMinimum' /\ ReductionInv' /\ Kept
  BY <1>1, <1>2, <1>5 DEF IInv
<1>7. CASE StartEstimate
  <2>1. ReductionInv'
    BY <1>4, <1>7, OrderAssumption DEF StartEstimate, ReductionInv
  <2>2. DtIsMinimum'
    BY <1>7, OrderAssumption, NaNAssumption, FPAssumption, ParamsAssumption DEF StartEstimate, DtIsMinimum, NewDt
  <2> QED BY <1>7, <2>1, <2>2, FPAssumption, ParamsAssumption DEF StartEstimate, IInv, TypeOK
<1>8. CASE EstimateTimestep
  <2> PICK b \in todo : min_dt' = CellDt(min_dt, prim[b]) /\ todo' = todo \ {b}
    BY <1>8 DEF EstimateTimestep
  <2>1. b \in Interior /\ min_dt \in FP /\ min_dt # NaN
    BY DEF IInv, TypeOK, DtIsMinimum
  <2>2. /\ min_dt' \in FP /\ min_dt' # NaN
        /\ min_dt' = min_dt \/ \E n \in 1 .. NDim : min_dt' = Rate(prim[b], n)
        /\ \A n \in 1 .. NDim : ~Gt(min_dt', Rate(prim[b], n))
        /\ \A z \in FP : ~Gt(min_dt, z) => ~Gt(min_dt', z)
    BY <1>3, <2>1, CellDtFacts
  <2>3. TypeOK'
    BY <1>8, <2>2 DEF EstimateTimestep, IInv, TypeOK
  <2>4. DtIsMinimum'
    BY <1>8, <2>2, ParamsAssumption DEF EstimateTimestep, DtIsMinimum, NewDt
  <2>5. ReductionInv'
    <3>1. ASSUME NEW c \in Interior \ todo', NEW n \in 1 .. NDim
          PROVE  ~Gt(min_dt', Rate(prim[c], n))
      BY <1>4, <1>8, <2>1, <2>2, <3>1 DEF EstimateTimestep, IInv, ReductionInv
    <3>2. min_dt' = Max \/ \E c \in Interior, n \in 1 .. NDim : min_dt' = Rate(prim[c], n)
      BY <1>8, <2>1, <2>2 DEF EstimateTimestep, IInv, ReductionInv
    <3> QED BY <1>8, <3>1, <3>2 DEF EstimateTimestep, ReductionInv
  <2> QED BY <1>8, <2>3, <2>4, <2>5 DEF EstimateTimestep
<1>9. CASE EndEstimate
  <2>1. TypeOK'
    BY <1>9, FPAssumption, ParamsAssumption DEF EndEstimate, IInv, TypeOK
  <2>2. DtIsMinimum'
    BY <1>9 DEF EndEstimate, IInv, DtIsMinimum, ReductionInv, NewDt
  <2>3. ReductionInv'
    BY <1>9 DEF EndEstimate, ReductionInv
  <2> QED BY <1>9, <2>1, <2>2, <2>3 DEF EndEstimate
<1>10. CASE SumHistory
  <2> PICK b \in todo : /\ hst' = [col \in Columns |-> Add(hst[col], HydroHst(col, cons[b]))]
                        /\ todo' = todo \ {b}
    BY <1>10 DEF SumHistory
  <2>1. b \in Interior /\ cons[b] \in Cons
    BY <1>3 DEF IInv, TypeOK
  <2>2. \A col \in Columns : HydroHst(col, cons[b]) \in FP /\ hst[col] \in FP
    BY <2>1, HydroHstFacts DEF IInv, TypeOK
  <2>3. hst' \in [Columns -> FP]
    BY <2>2, FPAssumption, ParamsAssumption
  <2>4. TypeOK'
    BY <1>10, <2>3 DEF SumHistory, IInv, TypeOK
  <2>5. DtIsMinimum'
    BY <1>10 DEF SumHistory, IInv, DtIsMinimum, NewDt
  <2>6. ASSUME NEW c \in Interior \ todo', NEW n \in Dims, cons[c].m[n] = NaN
        PROVE  hst'["KE"] = NaN
    <3>1. hst'["KE"] = Add(hst["KE"], HydroHst("KE", cons[b]))
      BY DEF Columns
    <3>2. hst["KE"] \in FP /\ HydroHst("KE", cons[b]) \in FP
      BY <2>2 DEF Columns
    <3>3. CASE c = b
      <4>1. HydroHst("KE", cons[b]) = NaN
        BY <2>1, <2>6, <3>3, HydroHstFacts
      <4> QED BY <3>1, <3>2, <4>1, NaNAssumption
    <3>4. CASE c # b
      <4>1. hst["KE"] = NaN
        BY <1>10, <2>6, <3>4 DEF SumHistory, IInv, ReductionInv
      <4> QED BY <3>1, <3>2, <4>1, NaNAssumption
    <3> QED BY <3>3, <3>4
  <2>7. ReductionInv'
    BY <1>10, <2>6 DEF SumHistory, ReductionInv
  <2> QED BY <1>10, <2>4, <2>5, <2>7 DEF SumHistory
<1>11. CASE EndHistory
  <2>1. TypeOK' /\ DtIsMinimum' /\ ReductionInv'
    BY <1>11 DEF EndHistory, IInv, TypeOK, DtIsMinimum, ReductionInv, NewDt
  <2> QED BY <1>11, <2>1 DEF EndHistory, IInv, ReductionInv
<1> QED BY <1>7, <1>8, <1>9, <1>10, <1>11

LEMMA WriteRestartInv == IInv /\ WriteRestart => IInv'
<1> SUFFICES ASSUME IInv, WriteRestart PROVE IInv'
  OBVIOUS
<1> USE DEF WriteRestart
<1>1. Derived /\ Derived' /\ dump'.cons = cons /\ dump'.prim = prim
  BY DEF Derived
<1>2. TypeOK'
  BY DEF IInv, TypeOK
<1>3. PositiveStates' /\ GhostsAgree' /\ DtIsMinimum' /\ GhostInv' /\ ReductionInv'
  BY <1>1 DEF IInv, PositiveStates, GhostsAgree, DtIsMinimum, GhostInv, ReductionInv, NewDt
<1>4. RestartFaithful'
  BY <1>1 DEF RestartFaithful
<1>5. SettledInv'
  BY <1>1 DEF IInv, SettledInv, Settled, GhostsAgree
<1>6. ResumedInv'
  <2>1. dump' \in [cons : [Cells -> Cons], prim : [Cells -> Prim]]
    BY DEF IInv, TypeOK
  <2> QED BY <1>1, <2>1, MeshAssumption DEF IInv, ResumedInv
<1> QED BY <1>2, <1>3, <1>4, <1>5, <1>6 DEF IInv

LEMMA RestartInv == IInv /\ Restart => IInv'
<1> SUFFICES ASSUME IInv, Restart PROVE IInv'
  OBVIOUS
<1>1. \A c \in Cells : Owner[c] \in Cells /\ dump.cons[c] = dump.cons[Owner[c]]
  BY MeshAssumption DEF Restart, IInv, SettledInv
<1>2. dump \in [cons : [Cells -> Cons], prim : [Cells -> Prim]]
  BY DEF Restart, IInv, TypeOK
<1>3. cons' = dump.cons /\ cons' \in [Cells -> Cons]
  BY <1>1, <1>2 DEF Restart
<1>4. prim' \in [Cells -> Prim] /\ hst' \in [Columns -> FP] /\ min_dt' \in FP
  BY FPAssumption, ParamsAssumption DEF Restart, Prim
<1>5. TypeOK'
  BY <1>2, <1>3, <1>4 DEF Restart, TypeOK
<1>6. DtIsMinimum'
  BY OrderAssumption, FPAssumption, ParamsAssumption DEF Restart, DtIsMinimum, NewDt
<1>7. SettledInv'
  BY DEF Restart, IInv, SettledInv, Settled, Derived
<1>8. ResumedInv'
  BY <1>3 DEF Restart, ResumedInv
<1> QED BY <1>5, <1>6, <1>7, <1>8 DEF Restart, IInv, Derived, PositiveStates, GhostsAgree,
  RestartFaithful, GhostInv, ReductionInv

LEMMA StepInv == IInv /\ [Next]_vars => IInv'
<1> SUFFICES ASSUME IInv, [Next]_vars PROVE IInv'
  OBVIOUS
<1>1. CASE UNCHANGED vars
  BY <1>1 DEF vars, IInv, TypeOK, Derived, PositiveStates, GhostsAgree, DtIsMinimum, NewDt,
    RestartFaithful, SettledInv, Settled, GhostInv, ResumedInv, ReductionInv
<1> QED BY <1>1, UpdateInv, SetBoundsInv, FillDerivedInv, ReductionsInv, WriteRestartInv, RestartInv
  DEF Next

-----------------------------------------------------------------------------
\* The inductive invariant holds in every behaviour.
THEOREM Inductive == Spec => []IInv
BY InitInv, StepInv, PTL DEF Spec

\* Type correctness, for every arithmetic, row of cells and content of them.
THEOREM TypeCorrect == Spec => []TypeOK
<1>1. IInv => TypeOK
  BY DEF IInv
<1> QED BY <1>1, Inductive, PTL

\* No invalid number in the conserved variables makes a density or a pressure
\* the solver sees anything but positive.
THEOREM Positivity == Spec => []PositiveStates
<1>1. IInv => PositiveStates
  BY DEF IInv
<1> QED BY <1>1, Inductive, PTL

\* Ghosts that are sent without floors and floored on arrival agree with the
\* cells they show.
THEOREM GhostsFloored == Spec => []GhostsAgree
<1>1. IInv => GhostsAgree
  BY DEF IInv
<1> QED BY <1>1, Inductive, PTL

\* The time step is the least valid limit, however the reduction is ordered.
THEOREM LeastDt == Spec => []DtIsMinimum
<1>1. IInv => DtIsMinimum
  BY DEF IInv
<1> QED BY <1>1, Inductive, PTL

\* An invalid momentum always reaches the kinetic energy of the history.
THEOREM PoisonReported == Spec => []PoisonShows
<1>1. IInv => PoisonShows
  <2> SUFFICES ASSUME IInv, pc = "cycle", NEW c \in Cells, NEW n \in Dims, cons[c].m[n] = NaN
               PROVE  hst["KE"] = NaN
    BY DEF PoisonShows
  <2>1. Owner[c] \in Interior /\ cons[Owner[c]] = cons[c]
    BY MeshAssumption DEF IInv, GhostsAgree, Derived
  <2> QED BY <2>1 DEF IInv
<1> QED BY <1>1, Inductive, PTL

\* A restart gives back the state of the run that wrote the file.
THEOREM RestartKeepsState == Spec => []RestartFaithful
<1>1. IInv => RestartFaithful
  BY DEF IInv
<1> QED BY <1>1, Inductive, PTL

-----------------------------------------------------------------------------
\* The criteria: a line of cells has no velocity gradient.
Supported == ndim > 1 \/ "xyvelocity_gradient" \notin Types

LEMMA SizeFacts ==
  /\ ndim \in 1 .. 3 /\ nx \in Nat /\ ny \in Nat /\ nz \in Nat /\ nx >= 1 /\ ny >= 1 /\ nz >= 1
  /\ ng \in Nat /\ ng >= 2
BY SizeAssumption

LEMMA ZeroFacts == Zero \in FP /\ Half \in FP /\ Zero # NaN /\ Threshold \in FP
BY FPAssumption, CriteriaAssumption

\* Every cell a criterion takes or reads for it lies in the block's arrays.
LEMMA StencilFacts ==
  ASSUME criterion \in Types, Supported, ~(criterion = "pressure_gradient" /\ ndim = 1),
         NEW b \in Blocks, NEW c \in Taken(b)
  PROVE  c \in Entire(b) /\ Stencil(c) \subseteq Entire(b)
<1> USE SizeFacts DEF Loop, Entire, Bounds, Ghosts, ib, jb, kb, Blocks, Shift
<1>1. criterion \in Criterion
  BY CriteriaAssumption
<1>2. CASE criterion = "pressure_gradient"
  <2>1. CASE ndim = 3
    BY <1>2, <2>1 DEF Taken, Stencil
  <2>2. CASE ndim = 2
    BY <1>2, <2>2 DEF Taken, Stencil
  <2> QED BY <1>2, <2>1, <2>2
<1>3. CASE criterion = "xyvelocity_gradient"
  <2>1. ndim > 1
    BY <1>3 DEF Supported
  <2> QED BY <1>3, <2>1 DEF Taken, Stencil
<1>4. CASE criterion = "maxdensity"
  BY <1>4 DEF Taken, Stencil
<1> QED BY <1>1, <1>2, <1>3, <1>4 DEF Criterion

\* The value of such a cell is a number or a NaN of FP.
LEMMA EpsType ==
  ASSUME criterion \in Types, w \in Fields, Supported,
         ~(criterion = "pressure_gradient" /\ ndim = 1),
         NEW b \in Blocks, NEW c \in Taken(b)
  PROVE  Eps(c) \in FP
<1>1. criterion \in Criterion
  BY CriteriaAssumption
<1>2. \A q \in {"d", "v1", "v2", "p"}, a \in Stencil(c) \cup {c} : w[q][a] \in FP
  <2>2. Stencil(c) \cup {c} \subseteq AllCells
    BY StencilFacts DEF AllCells, Blocks
  <2> QED BY <2>2, CriteriaAssumption
<1>3. CASE criterion = "pressure_gradient"
  <2>1. /\ w["p"][Shift(c, 0, 0, 1)] \in FP /\ w["p"][Shift(c, 0, 0, -1)] \in FP
        /\ w["p"][Shift(c, 0, 1, 0)] \in FP /\ w["p"][Shift(c, 0, -1, 0)] \in FP
        /\ w["p"][c] \in FP
        /\ ndim = 3 => w["p"][Shift(c, 1, 0, 0)] \in FP /\ w["p"][Shift(c, -1, 0, 0)] \in FP
    BY <1>2, <1>3 DEF Stencil
  <2> QED BY <1>3, <2>1, FPAssumption, SizeFacts DEF Eps, PressureEps, Central, Sqr
<1>4. CASE criterion = "xyvelocity_gradient"
  <2>1. /\ w["v2"][Shift(c, 0, 0, 1)] \in FP /\ w["v2"][Shift(c, 0, 0, -1)] \in FP
        /\ w["v1"][Shift(c, 0, 1, 0)] \in FP /\ w["v1"][Shift(c, 0, -1, 0)] \in FP
    BY <1>2, <1>4 DEF Stencil
  <2> QED BY <1>4, <2>1, FPAssumption DEF Eps, VelocityEps, Sqr
<1>5. CASE criterion = "maxdensity"
  BY <1>2, <1>5 DEF Eps
<1> QED BY <1>1, <1>3, <1>4, <1>5 DEF Criterion

\* std::max against an accumulator that is a number.
LEMMA MaxFacts ==
  ASSUME NEW x \in FP, NEW y \in FP, x # NaN
  PROVE  /\ MaxOf(x, y) \in {x, y} /\ MaxOf(x, y) # NaN
         /\ ~Gt(y, MaxOf(x, y))
         /\ \A z \in FP : ~Gt(z, x) => ~Gt(z, MaxOf(x, y))
BY OrderAssumption DEF MaxOf

LEMMA TaggingInitInv == TaggingInit => TaggingInv
BY ZeroFacts DEF TaggingInit, TaggingInv, TaggingTypeOK, MaxInv, RefinedIffSteep, Done, Blocks

\* A step that changes neither tags nor data keeps the tags right.
LEMMA TagsKept ==
  ASSUME RefinedIffSteep, UNCHANGED <<criterion, w, tag>>,
         \A b \in Blocks : Done(b)' => Done(b)
  PROVE  RefinedIffSteep'
BY DEF RefinedIffSteep, Taken, Eps, PressureEps, VelocityEps, Central

LEMMA TaggingStepInv == Supported /\ TaggingInv /\ [TaggingNext]_taggingVars => TaggingInv'
<1> SUFFICES ASSUME Supported, TaggingInv, [TaggingNext]_taggingVars PROVE TaggingInv'
  OBVIOUS
<1> USE DEF TaggingInv
<1>1. CASE Start /\ criterion = "pressure_gradient" /\ ndim = 1
  <2>1. TaggingTypeOK' /\ MaxInv'
    BY <1>1 DEF Start, TaggingTypeOK, MaxInv, Blocks
  <2>2. RefinedIffSteep'
    BY <1>1 DEF Start, RefinedIffSteep, Done
  <2> QED BY <2>1, <2>2
<1>2. CASE Start /\ ~(criterion = "pressure_gradient" /\ ndim = 1)
  <2>1. Taken(block) \subseteq AllCells /\ block \in Blocks
    BY <1>2, StencilFacts DEF Start, TaggingTypeOK, AllCells, Blocks
  <2>2. TaggingTypeOK'
    BY <1>2, <2>1, ZeroFacts DEF Start, TaggingTypeOK
  <2>3. MaxInv'
    BY <1>2, ZeroFacts DEF Start, MaxInv, Taken
  <2>4. RefinedIffSteep'
    BY <1>2, TagsKept DEF Start, Done
  <2> QED BY <2>2, <2>3, <2>4
<1>3. CASE Reduce
  <2> PICK a \in pending : maxeps' = MaxOf(maxeps, Eps(a)) /\ pending' = pending \ {a}
    BY <1>3 DEF Reduce
  <2>1. /\ block \in Blocks /\ a \in Taken(block) /\ maxeps \in FP /\ maxeps # NaN
        /\ ~(criterion = "pressure_gradient" /\ ndim = 1)
    BY <1>3 DEF Reduce, MaxInv, TaggingTypeOK
  <2>2. \A c \in Taken(block) : Eps(c) \in FP
    BY <2>1, EpsType DEF TaggingTypeOK
  <2>3. /\ maxeps' \in {maxeps, Eps(a)} /\ maxeps' # NaN /\ ~Gt(Eps(a), maxeps')
        /\ \A z \in FP : ~Gt(z, maxeps) => ~Gt(z, maxeps')
    BY <2>1, <2>2, MaxFacts
  <2>4. TaggingTypeOK'
    BY <1>3, <2>1, <2>2, <2>3 DEF Reduce, TaggingTypeOK
  <2>5. Taken(block)' = Taken(block) /\ \A c : Eps(c)' = Eps(c)
    BY <1>3 DEF Reduce, Taken, Eps, PressureEps, VelocityEps, Central
  <2>6. MaxInv'
    <3>1. \A c \in Taken(block) \ pending' : ~Gt(Eps(c), maxeps')
      BY <1>3, <2>1, <2>2, <2>3 DEF Reduce, MaxInv
    <3>2. maxeps' = Zero \/ \E c \in Taken(block) : maxeps' = Eps(c)
      BY <1>3, <2>1, <2>3 DEF Reduce, MaxInv
    <3>3. pending' \subseteq Taken(block)
      BY <1>3 DEF Reduce, MaxInv
    <3> QED BY <1>3, <2>1, <2>3, <2>5, <3>1, <3>2, <3>3 DEF Reduce, MaxInv
  <2>7. RefinedIffSteep'
    BY <1>3, TagsKept DEF Reduce, Done
  <2> QED BY <2>4, <2>6, <2>7
<1>4. CASE Tag
  <2>1. /\ block \in Blocks /\ maxeps \in FP /\ maxeps # NaN
        /\ ~(criterion = "pressure_gradient" /\ ndim = 1)
        /\ \A c \in Taken(block) : ~Gt(Eps(c), maxeps)
        /\ maxeps = Zero \/ \E c \in Taken(block) : maxeps = Eps(c)
    BY <1>4 DEF Tag, MaxInv, TaggingTypeOK
  <2>2. \A c \in Taken(block) : Eps(c) \in FP
    BY <2>1, EpsType DEF TaggingTypeOK
  <2>3. TagOf(maxeps) \in {"refine", "derefine", "same"}
    BY DEF TagOf
  <2>4. TagOf(maxeps) = "refine" <=> Gt(maxeps, Threshold)
    BY DEF TagOf
  <2>5. Gt(maxeps, Threshold) <=> \E c \in Taken(block) : Gt(Eps(c), Threshold)
    <3>1. ASSUME Gt(maxeps, Threshold) PROVE \E c \in Taken(block) : Gt(Eps(c), Threshold)
      BY <2>1, <3>1, ZeroFacts, CriteriaAssumption, OrderAssumption
    <3>2. ASSUME NEW c \in Taken(block), Gt(Eps(c), Threshold) PROVE Gt(maxeps, Threshold)
      <4>1. Eps(c) \in FP \ {NaN} /\ Threshold \in FP \ {NaN}
        BY <2>2, <3>2, ZeroFacts, OrderAssumption
      <4> QED BY <2>1, <3>2, <4>1, OrderAssumption
    <3> QED BY <3>1, <3>2
  <2>6. TaggingTypeOK' /\ MaxInv'
    BY <1>4, <2>3 DEF Tag, TaggingTypeOK, MaxInv
  <2>7. ASSUME NEW b \in Blocks, Done(b)'
        PROVE  (tag[b] = "refine" <=> \E c \in Taken(b) : Gt(Eps(c), Threshold))'
    <3>1. /\ Taken(b)' = Taken(b) /\ \A c : Eps(c)' = Eps(c)
      BY <1>4 DEF Tag, Taken, Eps, PressureEps, VelocityEps, Central
    <3>2. CASE b = block
      BY <1>4, <2>1, <2>4, <2>5, <3>1, <3>2 DEF Tag, TaggingTypeOK
    <3>3. CASE b # block
      <4>1. Done(b) /\ tag'[b] = tag[b]
        BY <1>4, <2>7, <3>3 DEF Tag, TaggingTypeOK, Done
      <4> QED BY <3>1, <4>1 DEF RefinedIffSteep
    <3> QED BY <3>2, <3>3
  <2> QED BY <2>6, <2>7 DEF RefinedIffSteep
<1>5. CASE NextBlock
  <2>1. TaggingTypeOK' /\ MaxInv'
    BY <1>5 DEF NextBlock, TaggingTypeOK, MaxInv, Blocks
  <2>2. RefinedIffSteep'
    BY <1>5, TagsKept DEF NextBlock, Done, Blocks
  <2> QED BY <2>1, <2>2
<1>6. CASE UNCHANGED taggingVars
  <2>1. TaggingTypeOK' /\ MaxInv'
    BY <1>6 DEF taggingVars, TaggingTypeOK, MaxInv, Taken, Eps, PressureEps, VelocityEps, Central
  <2>2. RefinedIffSteep'
    BY <1>6, TagsKept DEF taggingVars, Done
  <2> QED BY <2>1, <2>2
<1> QED BY <1>1, <1>2, <1>3, <1>4, <1>5, <1>6 DEF TaggingNext, AllTagged

-----------------------------------------------------------------------------
\* The inductive invariant holds in every behaviour.
THEOREM TaggingInductive == Supported => (TaggingSpec => []TaggingInv)
<1> SUFFICES ASSUME Supported PROVE TaggingSpec => []TaggingInv
  OBVIOUS
<1>1. TaggingInv /\ [TaggingNext]_taggingVars => TaggingInv'
  BY TaggingStepInv
<1> QED BY <1>1, TaggingInitInv, PTL DEF TaggingSpec

\* Type correctness for every mesh and every field.
THEOREM TaggingTypeCorrect == Supported => (TaggingSpec => []TaggingTypeOK)
<1> SUFFICES ASSUME Supported PROVE TaggingSpec => []TaggingTypeOK
  OBVIOUS
<1>1. TaggingInv => TaggingTypeOK
  BY DEF TaggingInv
<1>2. TaggingSpec => []TaggingInv
  BY TaggingInductive
<1> QED BY <1>1, <1>2, PTL

\* Two ghosts are enough for the stencils of all three criteria.
THEOREM WithinBlock == Supported => (TaggingSpec => []StencilInBlock)
<1> SUFFICES ASSUME Supported PROVE TaggingSpec => []StencilInBlock
  OBVIOUS
<1>1. TaggingInv => StencilInBlock
  BY StencilFacts DEF TaggingInv, TaggingTypeOK, MaxInv, StencilInBlock
<1>2. TaggingSpec => []TaggingInv
  BY TaggingInductive
<1> QED BY <1>1, <1>2, PTL

\* The tag of a block does not depend on the order of the reduction, nor on a
\* NaN among its cells.
THEOREM NoGradientLost == Supported => (TaggingSpec => []RefinedIffSteep)
<1> SUFFICES ASSUME Supported PROVE TaggingSpec => []RefinedIffSteep
  OBVIOUS
<1>1. TaggingInv => RefinedIffSteep
  BY DEF TaggingInv
<1>2. TaggingSpec => []TaggingInv
  BY TaggingInductive
<1> QED BY <1>1, <1>2, PTL

\* A front at the face of two blocks refines both.
THEOREM BothSides == Supported => (TaggingSpec => []FrontSeenFromBothSides)
<1> SUFFICES ASSUME Supported PROVE TaggingSpec => []FrontSeenFromBothSides
  OBVIOUS
<1>1. TaggingInv => FrontSeenFromBothSides
  <2> SUFFICES ASSUME TaggingInv, criterion # "maxdensity", Done(0), Done(1),
                      NEW k \in kb.s .. kb.e, NEW j \in jb.s .. jb.e, NEW i \in {ib(0).e, ib(1).s},
                      Gt(Eps(<<k, j, i>>), Threshold), NEW b \in Blocks
               PROVE  tag[b] = "refine"
    BY DEF FrontSeenFromBothSides
  <2>1. criterion \in {"pressure_gradient", "xyvelocity_gradient"}
    BY CriteriaAssumption DEF TaggingInv, TaggingTypeOK, Criterion
  <2>2. <<k, j, i>> \in Taken(b)
    BY <2>1, SizeFacts DEF Taken, Loop, Bounds, ib, jb, kb, Blocks
  <2> QED BY <2>2 DEF TaggingInv, RefinedIffSteep, Blocks
<1>2. TaggingSpec => []TaggingInv
  BY TaggingInductive
<1> QED BY <1>1, <1>2, PTL

-----------------------------------------------------------------------------
\* The mesh under the tags, over many cycles: GapInv is inductive.
LEMMA MeshInitInv == MeshInit => MeshInv
BY BoundsAssumption DEF MeshInit, MeshInv, MeshTypeOK, GapInv, ParamsValid

LEMMA MeshStepInv == MeshInv /\ [MeshNext]_meshVars => MeshInv'
<1> SUFFICES ASSUME MeshInv, [MeshNext]_meshVars PROVE MeshInv'
  OBVIOUS
<1> USE BoundsAssumption DEF MeshInv, MeshTypeOK, GapInv, ParamsValid, RefinementTypes
<1>1. CASE AdaptFiner
  BY <1>1 DEF AdaptFiner, LevelTag, Finer
<1>2. CASE AdaptCoarser
  <2>1. Derefine
    BY <1>2 DEF AdaptCoarser, LevelTag
  <2>2. CASE type = "pressure_gradient"
    BY <1>2, <2>1, <2>2 DEF AdaptCoarser, Derefine, Coarser
  <2>3. CASE type = "xyvelocity_gradient"
    BY <1>2, <2>1, <2>3 DEF AdaptCoarser, Derefine, Coarser
  <2>4. CASE type = "maxdensity"
    BY <1>2, <2>1, <2>4 DEF AdaptCoarser, Derefine, Coarser
  <2> QED BY <2>2, <2>3, <2>4
<1>3. CASE Flow
  BY <1>3 DEF Flow
<1>4. CASE UNCHANGED meshVars
  BY <1>4 DEF meshVars
<1> QED BY <1>1, <1>2, <1>3, <1>4 DEF MeshNext, Adapt, Stay

\* The inductive invariant holds in every behaviour.
THEOREM MeshInductive == MeshSpec => []MeshInv
BY MeshInitInv, MeshStepInv, PTL DEF MeshSpec

\* A block the flow has not changed is never refined and then derefined.
THEOREM Hysteretic == MeshSpec => NoFlip
<1>1. MeshInv /\ [MeshNext]_meshVars =>
        [/\ level' < level => last # "refine"
         /\ level' > level => last # "derefine"]_meshVars
  <2> SUFFICES ASSUME MeshInv, MeshNext
               PROVE  /\ level' < level => last # "refine"
                      /\ level' > level => last # "derefine"
    OBVIOUS
  <2> USE DEF MeshInv, MeshTypeOK, GapInv, ParamsValid, RefinementTypes
  <2>1. CASE AdaptFiner
    <3>1. eps > thr /\ level' = level + 1
      BY <2>1 DEF AdaptFiner, LevelTag
    <3>2. CASE type = "pressure_gradient"
      BY <3>1, <3>2
    <3>3. CASE type = "xyvelocity_gradient"
      BY <3>1, <3>3
    <3>4. CASE type = "maxdensity"
      BY <3>1, <3>4
    <3> QED BY <3>2, <3>3, <3>4
  <2>2. CASE AdaptCoarser
    <3>1. Derefine /\ level' = level - 1
      BY <2>2 DEF AdaptCoarser, LevelTag
    <3>2. CASE type = "pressure_gradient"
      BY <3>1, <3>2 DEF Derefine
    <3>3. CASE type = "xyvelocity_gradient"
      BY <3>1, <3>3 DEF Derefine
    <3>4. CASE type = "maxdensity"
      BY <3>1, <3>4 DEF Derefine
    <3> QED BY <3>2, <3>3, <3>4
  <2>3. CASE Flow \/ Stay
    BY <2>3 DEF Flow, Stay, meshVars
  <2> QED BY <2>1, <2>2, <2>3 DEF MeshNext, Adapt
<1> QED BY <1>1, MeshInductive, PTL DEF MeshSpec, NoFlip
=============================================================================
