-------------------------- MODULE Startup_proofs --------------------------
(***************************************************************************)
(* The invariants of Startup, for every set of decks, any number of        *)
(* processes killed anywhere, and any length of the period.                *)
(***************************************************************************)
EXTENDS Startup, FiniteSetTheorems, TLAPS

USE BoundsAssumption

\* A row more in the file, behind a header or not, is counted as one.
Rows(s) == {i \in 1 .. Len(s) : s[i] = "row"}

LEMMA OneMoreRow ==
  ASSUME NEW s \in Seq({"header", "row"})
  PROVE  LET t == Append(s, "row") IN
         t \in Seq({"header", "row"}) /\ Cardinality(Rows(t)) = Cardinality(Rows(s)) + 1
<1> DEFINE t == Append(s, "row")
<1>1. t \in Seq({"header", "row"}) /\ Len(t) = Len(s) + 1 /\ t[Len(s) + 1] = "row"
      /\ \A i \in 1 .. Len(s) : t[i] = s[i]
  OBVIOUS
<1>2. Rows(t) = Rows(s) \cup {Len(s) + 1}
  BY <1>1 DEF Rows
<1>3. IsFiniteSet(Rows(s)) /\ Len(s) + 1 \notin Rows(s)
  <2>1. IsFiniteSet(1 .. Len(s))
    BY FS_Interval
  <2> QED
    BY <2>1, FS_Subset DEF Rows
<1> QED
  BY <1>1, <1>2, <1>3, FS_AddElement

LEMMA NoRows == Cardinality(Rows(<<>>)) = 0
BY FS_EmptySet DEF Rows

LEMMA EmptyFile == <<>> \in Seq({"header", "row"}) /\ <<>> # None
<1>1. None \notin Seq({"header", "row"})
  BY NoneAssumption
<1>2. <<>> \in Seq({"header", "row"})
  OBVIOUS
<1> QED
  BY <1>1, <1>2

LEMMA HeaderAlone ==
  <<"header">> \in Seq({"header", "row"}) /\ Cardinality(Rows(<<"header">>)) = 0
<1>1. Rows(<<"header">>) = {}
  BY DEF Rows
<1>2. <<"header">> = Append(<<>>, "header") /\ <<>> \in Seq({"header", "row"})
  OBVIOUS
<1>3. Append(<<>>, "header") \in Seq({"header", "row"})
  BY <1>2
<1> QED
  BY <1>1, <1>2, <1>3, FS_EmptySet

LEMMA InitInv == Init => IInv
<1> SUFFICES ASSUME Init PROVE IInv
  OBVIOUS
<1>1. TypeOK
  <2>1. hooks \in [Callbacks -> Problems \cup {None}]
    BY DEF Init, NoHooks
  <2>2. jobs \in 0 .. MaxJobs /\ time \in 0 .. MaxTime /\ finished \in 0 .. MaxJobs
    BY DEF Init
  <2>3. deck \in Decks /\ pin \in DeckType
    BY DecksAssumption DEF Init
  <2>4. params \in SUBSET Thresholds
    BY DEF Init
  <2> QED
    BY <2>1, <2>2, <2>3, <2>4 DEF Init, TypeOK
<1> QED
  BY <1>1 DEF Init, IInv, WaveReady, CriterionHasParams, ErrorsFileKept, HooksInv, ParamsInv, DumpInv, CountInv, FileInv,
       NoHooks, Callbacks, Running

-----------------------------------------------------------------------------
\* What a step that leaves the disk alone still has to show.
LEMMA DiskKept ==
  ASSUME IInv, UNCHANGED <<errors, finished>>,
         pc' # "fprintf header", pc' # "fprintf"
  PROVE  ErrorsFileKept' /\ FileInv'
BY DEF IInv, ErrorsFileKept, FileInv

\* The process is gone; what it leaves on the disk stays.
LEMMA AbortInv == ASSUME IInv, Abort PROVE IInv'
<1>1. TypeOK'
  BY DEF IInv, TypeOK, Abort, process, disk
<1>2. ErrorsFileKept' /\ FileInv'
  BY DiskKept DEF Abort, disk
<1> QED
  BY <1>1, <1>2 DEF IInv, Abort, process, WaveReady, CriterionHasParams, HooksInv, ParamsInv, DumpInv, CountInv, disk, Running

LEMMA StartInv == ASSUME IInv, Launch \/ Restart PROVE IInv'
<1>1. TypeOK'
  <2>1. hooks' \in [Callbacks -> Problems \cup {None}] /\ params' \in SUBSET Thresholds
    BY DEF Launch, Restart, Start, NoHooks
  <2>2. jobs' \in 0 .. MaxJobs
    <3>1. jobs \in 0 .. MaxJobs /\ jobs < MaxJobs /\ jobs' = jobs + 1
      BY DEF IInv, TypeOK, Launch, Restart, Start
    <3> QED
      BY <3>1
  <2>3. deck' \in Decks /\ pin' \in DeckType /\ time' \in 0 .. MaxTime /\ fresh' \in BOOLEAN
    <3>1. CASE Launch
      BY <3>1, DecksAssumption DEF Launch
    <3>2. CASE Restart
      <4>1. dump \in [deck : Decks, pin : DeckType, time : 0 .. MaxTime, cells : Problems \cup {None}]
        BY <3>2 DEF IInv, TypeOK, Restart
      <4> QED
        BY <3>2, <4>1 DEF Restart
    <3> QED
      BY <3>1, <3>2
  <2>4. Start
    BY DEF Launch, Restart
  <2> QED
    BY <2>1, <2>2, <2>3, <2>4 DEF IInv, TypeOK, Start, disk
<1>2. ErrorsFileKept' /\ FileInv'
  BY DiskKept DEF Launch, Restart, Start, disk
<1>3. CountInv'
  <2>1. jobs \in Nat /\ finished \in Nat /\ finished <= jobs
    <3>1. jobs \in 0 .. MaxJobs /\ finished \in 0 .. MaxJobs /\ finished <= jobs
      BY DEF IInv, TypeOK, CountInv
    <3> QED
      BY <3>1
  <2>2. jobs' = jobs + 1 /\ finished' = finished
    BY DEF Launch, Restart, Start, disk
  <2> QED
    BY <2>1, <2>2 DEF CountInv
<1> QED
  BY <1>1, <1>2, <1>3 DEF IInv, Launch, Restart, Start, WaveReady, CriterionHasParams, HooksInv, ParamsInv,
       DumpInv, CountInv, disk, NoHooks, Callbacks, Running

\* main installs all the callbacks of linear_wave or the generator alone.
LEMMA DispatchInv == ASSUME IInv, Dispatch PROVE IInv'
<1>1. TypeOK'
  BY DEF IInv, TypeOK, Dispatch, disk, Callbacks, Problems
<1>2. ErrorsFileKept' /\ FileInv'
  BY DiskKept DEF Dispatch, disk
<1> QED
  BY <1>1, <1>2 DEF IInv, Dispatch, WaveReady, CriterionHasParams, HooksInv, ParamsInv, DumpInv, CountInv, disk,
       Callbacks, Running

\* The parameters are added under the names the criterion looks up.
LEMMA InitializeInv == ASSUME IInv, Initialize PROVE IInv'
<1> SUFFICES ASSUME DeckValid, pc = "Initialize", pc' = "InitUserMeshData",
                    params' = ParamsAdded(pin.refinement),
                    UNCHANGED <<jobs, fresh, deck, pin, hooks, wave, cells, time, disk>>
             PROVE  IInv'
  BY AbortInv DEF Initialize
<1>1. ParamsRead(pin.refinement) \subseteq params' /\ params' \in SUBSET Thresholds
  <2>1. CASE pin.refinement = "pressure_gradient"
    BY <2>1 DEF ParamsRead, ParamsAdded, ThresholdKeys, Thresholds
  <2>2. CASE pin.refinement = "xyvelocity_gradient"
    BY <2>2 DEF ParamsRead, ParamsAdded, ThresholdKeys, Thresholds
  <2>3. CASE pin.refinement = "maxdensity"
    BY <2>3 DEF ParamsRead, ParamsAdded, ThresholdKeys, Thresholds
  <2>4. CASE pin.refinement \notin {"pressure_gradient", "xyvelocity_gradient", "maxdensity"}
    BY <2>4 DEF ParamsRead, ParamsAdded, ThresholdKeys, Thresholds
  <2> QED
    BY <2>1, <2>2, <2>3, <2>4
<1>2. TypeOK'
  BY <1>1 DEF IInv, TypeOK, disk
<1>3. ErrorsFileKept' /\ FileInv'
  BY DiskKept DEF disk
<1> QED
  BY <1>1, <1>2, <1>3 DEF IInv, WaveReady, CriterionHasParams, HooksInv, ParamsInv, DumpInv, CountInv, disk, Running

\* The globals are set by whoever reads them later, in a restarted process too.
LEMMA InitUserMeshDataInv == ASSUME IInv, InitUserMeshData PROVE IInv'
<1>1. CASE hooks["InitUserMeshData"] = None
  <2>1. pc' = "ProblemGenerator" /\ UNCHANGED <<jobs, process, disk>> /\ pc = "InitUserMeshData"
    BY <1>1 DEF InitUserMeshData
  <2>2. ErrorsFileKept' /\ FileInv'
    BY <2>1, DiskKept DEF disk
  <2>3. TypeOK'
    BY <2>1 DEF IInv, TypeOK, process, disk
  <2> QED
    BY <1>1, <2>1, <2>2, <2>3, NoneAssumption DEF IInv, Problems, WaveReady, CriterionHasParams, HooksInv, ParamsInv, DumpInv, CountInv,
         Running, process, disk
<1>2. CASE hooks["InitUserMeshData"] # None /\ ~Abort
  <2>1. /\ pc = "InitUserMeshData" /\ pc' = "ProblemGenerator" /\ wave' = TRUE
        /\ pin' = pin \/ pin' = [pin EXCEPT !.tlim = Period * @]
        /\ UNCHANGED <<jobs, fresh, deck, hooks, params, cells, time, disk>>
    BY <1>2 DEF InitUserMeshData
  <2>2. pin' \in DeckType /\ pin'.refinement = pin.refinement
    <3>0. pin \in DeckType /\ pin.tlim \in Nat
      BY DEF IInv, TypeOK, DeckType
    <3>1. Period * pin.tlim \in Nat
      BY <3>0
    <3> QED
      BY <2>1, <3>0, <3>1 DEF DeckType
  <2>3. ErrorsFileKept' /\ FileInv'
    BY <2>1, DiskKept DEF disk
  <2>4. TypeOK'
    BY <2>1, <2>2 DEF IInv, TypeOK, disk
  <2> QED
    BY <2>1, <2>2, <2>3, <2>4 DEF IInv, WaveReady, CriterionHasParams, HooksInv, ParamsInv, DumpInv, CountInv, disk, Running
<1> QED
  BY <1>1, <1>2, AbortInv

LEMMA ProblemGeneratorInv == ASSUME IInv, ProblemGenerator PROVE IInv'
<1>0. USE DEF ProblemGenerator
<1>1. cells' \in Problems \cup {None}
  <2>1. CASE fresh
    BY <2>1 DEF IInv, TypeOK, Callbacks
  <2>2. CASE ~fresh
    BY <2>2 DEF IInv, TypeOK, DumpInv
  <2> QED
    BY <2>1, <2>2
<1>2. TypeOK'
  BY <1>1 DEF IInv, TypeOK, disk
<1>3. ErrorsFileKept' /\ FileInv'
  BY DiskKept DEF disk
<1> QED
  BY <1>2, <1>3 DEF IInv, WaveReady, CriterionHasParams, HooksInv, ParamsInv, DumpInv, CountInv, disk, Running

-----------------------------------------------------------------------------
LEMMA CycleInv == ASSUME IInv, Cycle PROVE IInv'
<1>1. time' \in 0 .. MaxTime
  BY DEF IInv, TypeOK, Cycle
<1>2. TypeOK'
  BY <1>1 DEF IInv, TypeOK, Cycle, disk
<1>3. ErrorsFileKept' /\ FileInv'
  BY DiskKept DEF Cycle, disk
<1> QED
  BY <1>2, <1>3 DEF IInv, Cycle, WaveReady, CriterionHasParams, HooksInv, ParamsInv, DumpInv, CountInv, disk, Running

\* A dump holds what a later process is to start from.
LEMMA WriteRestartInv == ASSUME IInv, WriteRestart PROVE IInv'
<1>1. dump' \in [deck : Decks, pin : DeckType, time : 0 .. MaxTime, cells : Problems \cup {None}]
  BY DEF IInv, TypeOK, WriteRestart
<1>2. TypeOK'
  BY <1>1 DEF IInv, TypeOK, WriteRestart, process
<1>3. ErrorsFileKept' /\ FileInv'
  BY DiskKept DEF WriteRestart
<1>4. dump' # None
  BY <1>1, NoneAssumption
<1> QED
  BY <1>2, <1>3, <1>4 DEF IInv, WriteRestart, process, WaveReady, CriterionHasParams, HooksInv, ParamsInv,
       DumpInv, CountInv, Running

LEMMA LeaveLoopInv == ASSUME IInv, LeaveLoop PROVE IInv'
<1>1. TypeOK'
  BY DEF IInv, TypeOK, LeaveLoop, process, disk
<1>2. ErrorsFileKept' /\ FileInv'
  BY DiskKept DEF LeaveLoop, disk
<1> QED
  BY <1>1, <1>2 DEF IInv, LeaveLoop, process, disk, WaveReady, CriterionHasParams, HooksInv, ParamsInv,
       DumpInv, CountInv, Running

\* A file that exists is left as it is, a new one is empty.
LEMMA OpenErrorsInv == ASSUME IInv, OpenErrors PROVE IInv'
<1>1. errors' \in Seq({"header", "row"}) /\ errors' # None
  <2>1. CASE errors = None
    BY <2>1, EmptyFile DEF OpenErrors
  <2>2. CASE errors # None
    BY <2>2 DEF IInv, TypeOK, OpenErrors
  <2> QED
    BY <2>1, <2>2
<1>2. TypeOK'
  BY <1>1 DEF IInv, TypeOK, OpenErrors, process
<1>3. ErrorsFileKept' /\ FileInv'
  <2>1. CASE errors = None
    <3>1. finished = 0
      <4>1. finished \in 0 .. MaxJobs /\ ~(finished > 0)
        BY <2>1 DEF IInv, TypeOK, ErrorsFileKept
      <4> QED
        BY <4>1
    <3> QED
      <4>1. errors' = <<>> /\ finished' = 0 /\ pc' = "fprintf header"
        BY <2>1, <3>1 DEF OpenErrors
      <4> QED
        <5>1. \A i \in 1 .. Len(<<>>) : FALSE
          OBVIOUS
        <5>2. Cardinality({i \in 1 .. Len(errors') : errors'[i] = "row"}) = finished'
          BY <4>1, NoRows DEF Rows
        <5> QED
          BY <4>1, <1>1, <5>1, <5>2 DEF ErrorsFileKept, FileInv
  <2>2. CASE errors # None
    BY <2>2 DEF IInv, OpenErrors, ErrorsFileKept, FileInv
  <2> QED
    BY <2>1, <2>2
<1> QED
  BY <1>2, <1>3 DEF IInv, OpenErrors, process, WaveReady, CriterionHasParams, HooksInv, ParamsInv,
       DumpInv, CountInv, Running

\* One row more, and a header before it in a new file alone.
LEMMA WriteErrorsInv == ASSUME IInv, WriteErrors PROVE IInv'
<1> DEFINE s == IF pc = "fprintf header" THEN <<"header">> ELSE errors
<1>1. s \in Seq({"header", "row"}) /\ Cardinality(Rows(s)) = finished
      /\ \A i \in 1 .. Len(s) : s[i] = "header" => i = 1
  <2>1. CASE pc = "fprintf header"
    <3>1. errors = <<>> /\ errors # None
      BY <2>1, EmptyFile DEF IInv, FileInv
    <3>2. finished = 0
      BY <3>1, NoRows DEF IInv, ErrorsFileKept, Rows
    <3>3. \A i \in 1 .. Len(<<"header">>) : i = 1
      OBVIOUS
    <3>4. s = <<"header">>
      BY <2>1
    <3> QED
      BY <3>2, <3>3, <3>4, HeaderAlone
  <2>2. CASE pc = "fprintf"
    BY <2>2 DEF IInv, TypeOK, FileInv, ErrorsFileKept, Rows
  <2> QED
    BY <2>1, <2>2 DEF WriteErrors
<1>2. errors' = Append(s, "row")
  <2>1. CASE pc = "fprintf header"
    <3>1. errors = <<>>
      BY <2>1 DEF IInv, FileInv
    <3>2. errors' = (errors \o <<"header">>) \o <<"row">>
      BY <2>1 DEF WriteErrors
    <3>3. <<>> \o <<"header">> = <<"header">> /\ <<"header">> \o <<"row">> = Append(<<"header">>, "row")
      BY HeaderAlone
    <3> QED
      BY <2>1, <3>1, <3>2, <3>3
  <2>2. CASE pc = "fprintf"
    <3>1. errors \in Seq({"header", "row"})
      BY <2>2 DEF IInv, TypeOK, FileInv
    <3> QED
      BY <2>2, <3>1 DEF WriteErrors
  <2> QED
    BY <2>1, <2>2 DEF WriteErrors
<1>3. errors' \in Seq({"header", "row"}) /\ Cardinality(Rows(errors')) = finished'
      /\ \A i \in 1 .. Len(errors') : errors'[i] = "header" => i = 1
  <2> HIDE DEF s
  <2>1. finished' = finished + 1
    BY DEF WriteErrors
  <2>2. \A i \in 1 .. Len(Append(s, "row")) : Append(s, "row")[i] = "header" => i \in 1 .. Len(s) /\ s[i] = "header"
    BY <1>1
  <2> QED
    BY <1>1, <1>2, <2>1, <2>2, OneMoreRow
<1>4. finished' \in 0 .. MaxJobs /\ CountInv'
  <2>1. jobs \in 0 .. MaxJobs /\ finished \in 0 .. MaxJobs /\ finished < jobs
    BY DEF IInv, TypeOK, CountInv, WriteErrors
  <2>2. jobs' = jobs /\ finished' = finished + 1 /\ pc' = "exit"
    BY DEF WriteErrors, process
  <2> QED
    BY <2>1, <2>2 DEF CountInv
<1>5. errors' # None
  BY <1>3, NoneAssumption
<1>6. TypeOK'
  BY <1>3, <1>4 DEF IInv, TypeOK, WriteErrors, process
<1>7. ErrorsFileKept' /\ FileInv'
  BY <1>3, <1>5 DEF ErrorsFileKept, FileInv, WriteErrors, Rows
<1> QED
  BY <1>4, <1>6, <1>7 DEF IInv, WriteErrors, process, WaveReady, CriterionHasParams, HooksInv, ParamsInv,
       DumpInv, Running

LEMMA StutterInv == ASSUME IInv, UNCHANGED vars PROVE IInv'
<1>1. TypeOK'
  BY DEF IInv, TypeOK, vars, process, disk
<1> QED
  BY <1>1 DEF IInv, vars, process, disk, WaveReady, CriterionHasParams, ErrorsFileKept, HooksInv,
       ParamsInv, DumpInv, CountInv, FileInv, Running

-----------------------------------------------------------------------------
\* The strengthening of the properties below is inductive: what a process is
\* about to read was set by this process, whichever way it was started, and the
\* file tells how far a process killed while writing it had come.
THEOREM Inductive == Spec => []IInv
<1>1. IInv /\ [Next]_vars => IInv'
  <2> SUFFICES ASSUME IInv, [Next]_vars PROVE IInv'
    OBVIOUS
  <2>1. CASE Launch \/ Restart
    BY <2>1, StartInv
  <2>2. CASE Kill \/ Exit
    BY <2>2, AbortInv DEF Kill, Exit
  <2>3. CASE Dispatch \/ Initialize
    BY <2>3, DispatchInv, InitializeInv
  <2>4. CASE InitUserMeshData \/ ProblemGenerator
    BY <2>4, InitUserMeshDataInv, ProblemGeneratorInv
  <2>5. CASE Cycle \/ WriteRestart \/ LeaveLoop
    BY <2>5, CycleInv, WriteRestartInv, LeaveLoopInv
  <2>6. CASE OpenErrors \/ WriteErrors
    BY <2>6, OpenErrorsInv, WriteErrorsInv
  <2>7. CASE Stop \/ UNCHANGED vars
    BY <2>7, StutterInv DEF Stop
  <2> QED
    BY <2>1, <2>2, <2>3, <2>4, <2>5, <2>6, <2>7 DEF Next
<1> QED
  BY InitInv, <1>1, PTL DEF Spec

\* The types hold for any set of decks and any number of processes.
THEOREM TypeCorrect == Spec => []TypeOK
BY Inductive, PTL DEF IInv

\* InitUserMeshData has set the globals of linear_wave.cpp in every process,
\* restarted or not, before the generator or UserWorkAfterLoop reads them.
THEOREM GlobalsSet == Spec => []WaveReady
BY Inductive, PTL DEF IInv

\* Initialize has added every parameter the criterion of the deck looks up in
\* each cycle, under the name it looks for.
THEOREM CriteriaServed == Spec => []CriterionHasParams
BY Inductive, PTL DEF IInv

\* However many processes are killed, between fopen and fprintf too, the errors
\* file holds one row for each run that wrote it and a header at most at its top.
THEOREM ErrorsFileSound == Spec => []ErrorsFileKept
BY Inductive, PTL DEF IInv
=============================================================================
