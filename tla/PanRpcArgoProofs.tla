--------------------------- MODULE PanRpcArgoProofs ---------------------------
(***************************************************************************)
(* For any number of executors, areas, retries and hazards: every variable *)
(* keeps its type (ArgoTypeCorrect), and the PAN RPC stage never reports   *)
(* success without the parts of all areas (SuccessIsComplete).  A task that*)
(* one executor works on is not computed again once its parts are merged   *)
(* (MergedIsKept).                                                         *)
(*                                                                         *)
(* The merge of an executor is described by Progress: the areas before the *)
(* one it merges next are in the output directory, although other executors*)
(* move parts out of the same workers directory, because nothing is ever   *)
(* removed from the output directory.  The last area is merged last, so    *)
(* that its part stands for all of them (MergedForGood).                   *)
(***************************************************************************)
EXTENDS PanRpcArgo, TLAPS

\* The part of the type invariant that the argument needs.
PartTypes ==
    /\ merged \subseteq Areas
    /\ pc \in [Executors -> ExecutorPC]
    /\ area \in [Executors -> Areas]

\* Where an executor stands in mergePanRpcOnPersist, and what it has merged by then.
Progress ==
    \A e \in Executors :
        /\ pc[e] = "merge" => 1 .. (area[e] - 1) \subseteq merged
        /\ pc[e] \in {"clean", "succeed"} => merged = Areas

Parts ==
    /\ PartTypes
    /\ Progress
    /\ stage = "success" => merged = Areas

LEMMA AreaNumbers == 1 \in Areas /\ NumAreas \in Areas
  BY ArgoAssumption DEF Areas

LEMMA InitParts == Init => Parts
<1> SUFFICES ASSUME Init PROVE Parts
  OBVIOUS
<1>1. PartTypes
  BY AreaNumbers DEF Init, PartTypes, ExecutorPC
<1>2. Progress /\ stage # "success"
  BY DEF Init, Progress
<1> QED
  BY <1>1, <1>2 DEF Parts

\* An executor starts over, gives up, or goes on without reporting anything.
LEMMA QuietMove ==
    ASSUME Parts, NEW e \in Executors,
           NEW s \in ExecutorPC \ {"merge", "clean", "succeed"}, Goto(e, s),
           UNCHANGED area, UNCHANGED merged, stage' # "success" \/ UNCHANGED stage
    PROVE  Parts'
<1>1. \A x \in Executors : pc'[x] = IF x = e THEN s ELSE pc[x]
  BY DEF Goto, Parts, PartTypes
<1>2. pc' \in [Executors -> ExecutorPC]
  BY DEF Goto, Parts, PartTypes
<1>3. Progress'
  BY <1>1 DEF Parts, Progress
<1> QED
  BY <1>2, <1>3 DEF Parts, PartTypes

LEMMA FailedAttempt ==
    ASSUME Parts, NEW e \in Executors, AttemptFails(e),
           UNCHANGED area, UNCHANGED merged, UNCHANGED stage
    PROVE  Parts'
<1>1. CASE Goto(e, "check")
  BY <1>1, QuietMove DEF ExecutorPC
<1>2. CASE Goto(e, "fail")
  BY <1>2, QuietMove DEF ExecutorPC
<1> QED
  BY <1>1, <1>2 DEF AttemptFails

\* A merge starts with nothing to show.
LEMMA MergeStarted ==
    ASSUME Parts, NEW e \in Executors, StartMerge(e), UNCHANGED merged, UNCHANGED stage
    PROVE  Parts'
<1>1. /\ pc' = [pc EXCEPT ![e] = "merge"]
      /\ area' = [area EXCEPT ![e] = 1]
  BY DEF StartMerge, Goto
<1>2. PartTypes'
  BY <1>1, AreaNumbers DEF Parts, PartTypes, ExecutorPC
<1>3. ASSUME NEW x \in Executors
      PROVE  /\ pc'[x] = "merge" => 1 .. (area'[x] - 1) \subseteq merged'
             /\ pc'[x] \in {"clean", "succeed"} => merged' = Areas
  <2>1. CASE x = e
    <3>1. pc'[x] = "merge" /\ area'[x] = 1
      BY <1>1, <2>1 DEF Parts, PartTypes
    <3> QED
      BY <3>1
  <2>2. CASE x # e
    <3>1. pc'[x] = pc[x] /\ area'[x] = area[x]
      BY <1>1, <2>2 DEF Parts, PartTypes
    <3> QED
      BY <3>1 DEF Parts, Progress
  <2> QED
    BY <2>1, <2>2
<1> QED
  BY <1>2, <1>3 DEF Parts, Progress

\* One pass of the merge, next to whatever the other executors do.
LEMMA AreaMerged ==
    ASSUME Parts, NEW e \in Executors, MergeArea(e)
    PROVE  Parts'
<1> USE DEF Parts
<1>0. /\ pc[e] = "merge" /\ UNCHANGED stage
      /\ area[e] \in Areas /\ 1 .. (area[e] - 1) \subseteq merged
  BY DEF MergeArea, PartTypes, Progress
<1>1. CASE AttemptFails(e) /\ UNCHANGED <<files, area>>
  BY <1>0, <1>1, FailedAttempt DEF files
<1>2. CASE ~(AttemptFails(e) /\ UNCHANGED <<files, area>>)
  <2>1. /\ merged' = merged \cup {area[e]}
        /\ \/ area[e] = NumAreas /\ Goto(e, "clean") /\ UNCHANGED area
           \/ /\ area[e] # NumAreas
              /\ area' = [area EXCEPT ![e] = area[e] + 1] /\ UNCHANGED pc
    BY <1>2 DEF MergeArea, CallFails
  <2>2. 1 .. area[e] \subseteq merged'
    BY <1>0, <2>1 DEF Areas
  <2>3. merged \subseteq merged' /\ merged' \subseteq Areas
    BY <1>0, <2>1 DEF PartTypes
  <2>4. CASE area[e] = NumAreas
    <3>1. merged' = Areas
      BY <2>2, <2>3, <2>4 DEF Areas
    <3>2. /\ pc' = [pc EXCEPT ![e] = "clean"]
          /\ UNCHANGED area
      BY <2>1, <2>4 DEF Goto
    <3>3. PartTypes'
      BY <2>3, <3>2 DEF PartTypes, ExecutorPC
    <3>4. Progress'
      <4> SUFFICES ASSUME NEW x \in Executors, pc'[x] = "merge"
                   PROVE  1 .. (area'[x] - 1) \subseteq merged'
        BY <3>1 DEF Progress
      <4>1. pc[x] = "merge"
        BY <3>2 DEF PartTypes
      <4> QED
        BY <2>3, <3>2, <4>1 DEF Progress
    <3> QED
      BY <3>1, <3>3, <3>4
  <2>5. CASE area[e] # NumAreas
    <3>1. /\ area' = [area EXCEPT ![e] = area[e] + 1]
          /\ UNCHANGED pc
      BY <2>1, <2>5
    <3>2. area[e] + 1 \in Areas
      BY <1>0, <2>5, ArgoAssumption DEF Areas
    <3>3. PartTypes'
      BY <2>3, <3>1, <3>2 DEF PartTypes
    <3>4. Progress'
      <4> SUFFICES ASSUME NEW x \in Executors
                   PROVE  /\ pc[x] = "merge" => 1 .. (area'[x] - 1) \subseteq merged'
                          /\ pc[x] \in {"clean", "succeed"} => merged' = Areas
        BY <3>1 DEF Progress
      <4>1. CASE x = e
        <5>1. area'[x] = area[e] + 1
          BY <3>1, <4>1 DEF PartTypes
        <5>2. 1 .. (area'[x] - 1) = 1 .. area[e]
          BY <1>0, <5>1 DEF Areas
        <5> QED
          BY <1>0, <2>2, <4>1, <5>2
      <4>2. CASE x # e
        <5>1. area'[x] = area[x]
          BY <3>1, <4>2 DEF PartTypes
        <5> QED
          BY <2>3, <5>1 DEF Progress
      <4> QED
        BY <4>1, <4>2
    <3> QED
      BY <1>0, <2>3, <3>3, <3>4
  <2> QED
    BY <2>4, <2>5
<1> QED
  BY <1>1, <1>2

LEMMA ExecutorParts ==
    ASSUME Parts, NEW e \in Executors, ExecutorStep(e) \/ Crash(e)
    PROVE  Parts'
<1>1. CASE Begin(e)
  BY <1>1, QuietMove DEF Begin, files, ExecutorPC
<1>2. CASE CheckMerged(e)
  <2>1. UNCHANGED merged /\ UNCHANGED area /\ UNCHANGED stage
    BY <1>2 DEF CheckMerged, files
  <2>2. CASE AttemptFails(e)
    BY <2>1, <2>2, FailedAttempt
  <2>3. CASE MergedPartsExist /\ ~AttemptFails(e)
    <3>1. pc' = [pc EXCEPT ![e] = "succeed"] /\ merged = Areas
      BY <1>2, <2>3 DEF CheckMerged, CallFails, Goto, MergedPartsExist
    <3> QED
      BY <2>1, <3>1 DEF Parts, PartTypes, Progress, ExecutorPC
  <2>4. CASE ~MergedPartsExist /\ ~AttemptFails(e)
    BY <1>2, <2>1, <2>4, QuietMove DEF CheckMerged, CallFails, ExecutorPC
  <2> QED
    BY <2>2, <2>3, <2>4
<1>3. CASE PrepareWorkerDirs(e)
  <2>1. UNCHANGED merged /\ UNCHANGED area /\ UNCHANGED stage
    BY <1>3 DEF PrepareWorkerDirs
  <2>2. Goto(e, "parts") \/ AttemptFails(e)
    BY <1>3 DEF PrepareWorkerDirs, CallFails
  <2> QED
    BY <2>1, <2>2, QuietMove, FailedAttempt DEF ExecutorPC
<1>4. CASE CheckWorkerParts(e)
  <2>1. UNCHANGED merged /\ UNCHANGED stage
    BY <1>4 DEF CheckWorkerParts, files
  <2>2. StartMerge(e) \/ (Goto(e, "latest") /\ UNCHANGED area)
    BY <1>4 DEF CheckWorkerParts
  <2> QED
    BY <2>1, <2>2, QuietMove, MergeStarted DEF ExecutorPC
<1>5. CASE LatestWorkflow(e)
  <2>1. UNCHANGED merged /\ UNCHANGED stage
    BY <1>5 DEF LatestWorkflow, files
  <2>2. \/ StartMerge(e)
        \/ (Goto(e, "wait") \/ Goto(e, "submit") \/ AttemptFails(e)) /\ UNCHANGED area
    BY <1>5 DEF LatestWorkflow, CallFails
  <2> QED
    BY <2>1, <2>2, QuietMove, MergeStarted, FailedAttempt DEF ExecutorPC
<1>6. CASE SubmitWorkflow(e)
  <2>1. UNCHANGED merged /\ UNCHANGED stage /\ UNCHANGED area
    BY <1>6 DEF SubmitWorkflow, files
  <2>2. Goto(e, "wait") \/ AttemptFails(e)
    BY <1>6 DEF SubmitWorkflow, CallFails
  <2> QED
    BY <2>1, <2>2, QuietMove, FailedAttempt DEF ExecutorPC
<1>7. CASE WaitWorkflow(e)
  <2>1. UNCHANGED merged /\ UNCHANGED stage
    BY <1>7 DEF WaitWorkflow, files
  <2>2. StartMerge(e) \/ (AttemptFails(e) /\ UNCHANGED area)
    BY <1>7 DEF WaitWorkflow, CallFails
  <2> QED
    BY <2>1, <2>2, MergeStarted, FailedAttempt
<1>8. CASE MergeArea(e)
  BY <1>8, AreaMerged
<1>9. CASE CleanWorkers(e)
  <2>1. /\ pc[e] = "clean" /\ pc' = [pc EXCEPT ![e] = "succeed"]
        /\ UNCHANGED <<merged, area, stage>>
    BY <1>9 DEF CleanWorkers, Goto
  <2>2. merged = Areas
    BY <2>1 DEF Parts, Progress
  <2> QED
    BY <2>1, <2>2 DEF Parts, PartTypes, Progress, ExecutorPC
<1>10. CASE Succeed(e)
  <2>1. /\ pc[e] = "succeed" /\ pc' = [pc EXCEPT ![e] = "done"]
        /\ UNCHANGED <<merged, area>>
    BY <1>10 DEF Succeed, Goto, files
  <2>2. merged = Areas
    BY <2>1 DEF Parts, Progress
  <2> QED
    BY <2>1, <2>2 DEF Parts, PartTypes, Progress, ExecutorPC
<1>11. CASE GiveUp(e)
  BY <1>11, QuietMove DEF GiveUp, files, ExecutorPC
<1>12. CASE Crash(e)
  BY <1>12, QuietMove DEF Crash, files, ExecutorPC
<1> QED
  BY <1>1, <1>2, <1>3, <1>4, <1>5, <1>6, <1>7, <1>8, <1>9, <1>10, <1>11, <1>12
     DEF ExecutorStep

LEMMA PartsStep == Parts /\ [Next]_vars => Parts'
<1> SUFFICES ASSUME Parts, [Next]_vars PROVE Parts'
  OBVIOUS
<1>1. CASE UNCHANGED vars
  BY <1>1 DEF vars, Parts, PartTypes, Progress
<1>2. ASSUME NEW e \in Executors, ExecutorStep(e) \/ Crash(e) PROVE Parts'
  BY <1>2, ExecutorParts
<1>3. ASSUME NEW w \in DOMAIN wf, ControllerStep(w) \/ FailWorkflow(w) PROVE Parts'
  <2>1. UNCHANGED <<stage, merged, pc, area>>
    BY <1>3 DEF ControllerStep, StartWorkflow, WritePart, EndWorkflow, FailWorkflow, files
  <2> QED
    BY <2>1 DEF Parts, PartTypes, Progress
<1> QED
  BY <1>1, <1>2, <1>3 DEF Next

\* A success of the PAN RPC stage stands for the parts of all areas, whatever restarts,
\* second deliveries, failing calls and failing workflows preceded it.
THEOREM SuccessIsComplete == Spec => []SuccessHasAllParts
<1>1. Parts => SuccessHasAllParts
  BY DEF Parts, Progress, SuccessHasAllParts
<1> QED
  BY <1>1, InitParts, PartsStep, PTL DEF Spec

-----------------------------------------------------------------------------
(* Types.                                                                  *)

\* Every step of an attempt that ends with an error.
LEMMA FailedAttemptTypes ==
    ASSUME TypeOK, NEW e \in Executors, AttemptFails(e)
    PROVE  /\ pc' \in [Executors -> ExecutorPC]
           /\ attempt' \in [Executors -> 0 .. (StageMaxRetries + 1)]
           /\ \A x \in Executors : pc'[x] = "wait" => pc[x] = "wait"
<1>0. StageMaxRetries \in Nat
  BY ArgoAssumption
<1>1. CASE attempt[e] <= StageMaxRetries
  <2>1. /\ pc' = [pc EXCEPT ![e] = "check"]
        /\ attempt' = [attempt EXCEPT ![e] = attempt[e] + 1]
    BY <1>1 DEF AttemptFails, Goto
  <2>2. attempt[e] + 1 \in 0 .. (StageMaxRetries + 1)
    BY <1>0, <1>1 DEF TypeOK
  <2> QED
    BY <2>1, <2>2 DEF TypeOK, ExecutorPC
<1>2. CASE ~(attempt[e] <= StageMaxRetries)
  <2>1. pc' = [pc EXCEPT ![e] = "fail"] /\ attempt' = attempt
    BY <1>2 DEF AttemptFails, Goto
  <2> QED
    BY <2>1 DEF TypeOK, ExecutorPC
<1> QED
  BY <1>1, <1>2

LEMMA StrikeTypes ==
    ASSUME TypeOK, NEW h \in Hazards, Strike(h)
    PROVE  spent' \in [Hazards -> Nat]
  BY DEF TypeOK, Strike

\* A step of an executor that creates no workflow.
LEMMA MoveTypes ==
    ASSUME TypeOK, NEW e \in Executors, UNCHANGED argo,
           stage' \in {"pending", "running", "success", "failed"},
           workers' \subseteq Areas, merged' \subseteq Areas,
           \/ AttemptFails(e)
           \/ /\ \E s \in ExecutorPC \ {"wait"} : Goto(e, s)
              /\ attempt' \in [Executors -> 0 .. (StageMaxRetries + 1)]
           \/ UNCHANGED <<pc, attempt>>,
           UNCHANGED seen, area' \in [Executors -> Areas],
           UNCHANGED spent \/ \E h \in Hazards : Strike(h)
    PROVE  TypeOK'
<1>1. /\ pc' \in [Executors -> ExecutorPC]
      /\ attempt' \in [Executors -> 0 .. (StageMaxRetries + 1)]
      /\ \A x \in Executors : pc'[x] = "wait" => pc[x] = "wait"
  <2>1. CASE AttemptFails(e)
    BY <2>1, FailedAttemptTypes
  <2>2. ASSUME NEW s \in ExecutorPC \ {"wait"}, Goto(e, s)
        PROVE  /\ pc' \in [Executors -> ExecutorPC]
               /\ \A x \in Executors : pc'[x] = "wait" => pc[x] = "wait"
    BY <2>2 DEF TypeOK, Goto
  <2>3. CASE UNCHANGED <<pc, attempt>>
    BY <2>3 DEF TypeOK
  <2> QED
    BY <2>1, <2>2, <2>3
<1>2. spent' \in [Hazards -> Nat]
  BY StrikeTypes DEF TypeOK
<1>3. wf' = wf /\ last' = last /\ seen' = seen
  BY DEF argo
<1> QED
  BY <1>1, <1>2, <1>3 DEF TypeOK

\* An executor starts to wait for a workflow that there is.
LEMMA WaitTypes ==
    ASSUME TypeOK, NEW e \in Executors, NEW w \in 1 .. Len(wf'),
           wf' \in Seq(Workflow), Len(wf) <= Len(wf'),
           last' \in 0 .. Len(wf'), last' = 0 => wf' = <<>>,
           Goto(e, "wait"), seen' = [seen EXCEPT ![e] = w],
           UNCHANGED <<stage, files, attempt, area, spent>>
    PROVE  TypeOK'
<1>1. Len(wf) \in Nat /\ Len(wf') \in Nat
  BY DEF TypeOK
<1>2. seen' \in [Executors -> 0 .. Len(wf')]
  BY <1>1 DEF TypeOK
<1>3. \A x \in Executors : pc'[x] = "wait" => seen'[x] # 0
  BY <1>1 DEF TypeOK, Goto
<1>4. pc' \in [Executors -> ExecutorPC]
  BY DEF TypeOK, Goto, ExecutorPC
<1>5. UNCHANGED <<stage, workers, merged, attempt, area, spent>>
  BY DEF files
<1> QED
  BY <1>2, <1>3, <1>4, <1>5 DEF TypeOK

\* What the API server has after a call that creates a workflow.
LEMMA CreationTypes ==
    ASSUME TypeOK, CreateWorkflow
    PROVE  /\ wf' \in Seq(Workflow) /\ Len(wf') = Len(wf) + 1
           /\ Len(wf) \in Nat
           /\ last' \in 1 .. Len(wf')
<1>1. [phase |-> "", left |-> Areas] \in Workflow
  BY DEF Workflow, Phase
<1>2. /\ wf \in Seq(Workflow)
      /\ wf' = Append(wf, [phase |-> "", left |-> Areas])
      /\ last \in 0 .. Len(wf)
      /\ last' = Len(wf) + 1 \/ (last' = last /\ last # 0)
  BY DEF TypeOK, CreateWorkflow
<1>3. ASSUME NEW v \in Workflow, wf' = Append(wf, v)
      PROVE  wf' \in Seq(Workflow) /\ Len(wf') = Len(wf) + 1 /\ Len(wf) \in Nat
  <2>1. wf \in Seq(Workflow)
    BY <1>2
  <2>2. wf' \in Seq(Workflow)
    BY <1>3, <2>1
  <2>3. Len(wf') = Len(wf) + 1
    BY <1>3, <2>1
  <2>4. Len(wf) \in Nat
    BY <2>1
  <2> QED
    BY <2>2, <2>3, <2>4
<1>4. wf' \in Seq(Workflow) /\ Len(wf') = Len(wf) + 1 /\ Len(wf) \in Nat
  BY <1>1, <1>2, <1>3
<1>5. last' \in 1 .. Len(wf')
  <2>1. CASE last' = Len(wf) + 1
    BY <1>4, <2>1
  <2>2. CASE last' = last /\ last # 0
    <3>1. last \in 0 .. Len(wf)
      BY DEF TypeOK
    <3> QED
      BY <1>4, <2>2, <3>1
  <2> QED
    BY <1>2, <2>1, <2>2
<1> QED
  BY <1>4, <1>5

LEMMA SubmitTypes ==
    ASSUME TypeOK, NEW e \in Executors, SubmitWorkflow(e)
    PROVE  TypeOK'
<1>0. UNCHANGED <<stage, workers, merged, area>>
  BY DEF SubmitWorkflow, files
<1>1. CASE /\ CreateWorkflow
           /\ seen' = [seen EXCEPT ![e] = Len(wf) + 1]
           /\ Goto(e, "wait")
           /\ NoHazard
           /\ UNCHANGED attempt
  <2>1. /\ wf' \in Seq(Workflow) /\ Len(wf') = Len(wf) + 1
        /\ Len(wf) \in Nat
        /\ last' \in 1 .. Len(wf')
    BY <1>1, CreationTypes
  <2>2. /\ Len(wf) + 1 \in 1 .. Len(wf') /\ Len(wf) <= Len(wf')
        /\ last' \in 0 .. Len(wf') /\ last' # 0
    BY <2>1
  <2> QED
    BY <1>0, <1>1, <2>1, <2>2, WaitTypes DEF NoHazard, files
<1>2. CASE CallFails(e) /\ UNCHANGED argo /\ UNCHANGED seen
  <2>1. \E h \in Hazards : Strike(h)
    BY <1>2 DEF CallFails, Hazards
  <2> QED
    BY <1>0, <1>2, <2>1, MoveTypes DEF CallFails, TypeOK
<1>3. CASE CallFails(e) /\ CreateWorkflow /\ UNCHANGED seen
  <2>1. /\ wf' \in Seq(Workflow) /\ Len(wf') = Len(wf) + 1
        /\ Len(wf) \in Nat
        /\ last' \in 1 .. Len(wf')
    BY <1>3, CreationTypes
  <2>2. /\ pc' \in [Executors -> ExecutorPC]
        /\ attempt' \in [Executors -> 0 .. (StageMaxRetries + 1)]
        /\ \A x \in Executors : pc'[x] = "wait" => pc[x] = "wait"
    BY <1>3, FailedAttemptTypes DEF CallFails
  <2>3. spent' \in [Hazards -> Nat]
    BY <1>3, StrikeTypes DEF CallFails, Hazards
  <2>4. seen' \in [Executors -> 0 .. Len(wf')]
    BY <1>3, <2>1 DEF TypeOK
  <2>5. last' \in 0 .. Len(wf') /\ last' # 0
    BY <2>1
  <2>6. \A x \in Executors : pc'[x] = "wait" => seen'[x] # 0
    BY <1>3, <2>2 DEF TypeOK
  <2> QED
    BY <1>0, <2>1, <2>2, <2>3, <2>4, <2>5, <2>6 DEF TypeOK
<1> QED
  BY <1>1, <1>2, <1>3 DEF SubmitWorkflow

LEMMA MergeTypes ==
    ASSUME TypeOK, NEW e \in Executors, MergeArea(e)
    PROVE  TypeOK'
<1>0. UNCHANGED <<stage, argo, seen>>
  BY DEF MergeArea
<1>1. area[e] \in Areas /\ attempt \in [Executors -> 0 .. (StageMaxRetries + 1)]
  BY DEF TypeOK
<1>2. CASE AttemptFails(e) /\ UNCHANGED <<files, area>> /\ (NoHazard \/ Strike("fault"))
  BY <1>0, <1>2, MoveTypes DEF files, NoHazard, Hazards, TypeOK
<1>3. CASE /\ workers' = workers \ {area[e]}
           /\ merged' = merged \cup {area[e]}
           /\ area[e] = NumAreas /\ Goto(e, "clean") /\ UNCHANGED <<area, attempt>>
           /\ NoHazard
  <2>1. "clean" \in ExecutorPC \ {"wait"}
    BY DEF ExecutorPC
  <2> QED
    BY <1>0, <1>1, <1>3, <2>1, MoveTypes DEF NoHazard, TypeOK
<1>4. CASE /\ workers' = workers \ {area[e]}
           /\ merged' = merged \cup {area[e]}
           /\ area[e] # NumAreas
           /\ area' = [area EXCEPT ![e] = area[e] + 1] /\ UNCHANGED <<pc, attempt>>
           /\ NoHazard
  <2>1. area[e] + 1 \in Areas
    BY <1>1, <1>4, ArgoAssumption DEF Areas
  <2>2. area' \in [Executors -> Areas]
    BY <1>4, <2>1 DEF TypeOK
  <2> QED
    BY <1>0, <1>1, <1>4, <2>2, MoveTypes DEF NoHazard, TypeOK
<1> QED
  BY <1>2, <1>3, <1>4 DEF MergeArea, CallFails

LEMMA ExecutorTypes ==
    ASSUME TypeOK, NEW e \in Executors, ExecutorStep(e) \/ Crash(e)
    PROVE  TypeOK'
<1> USE DEF files
<1>0. /\ 1 \in 0 .. (StageMaxRetries + 1)
      /\ ExecutorPC \ {"wait"} = {"idle", "check", "prepare", "parts", "latest", "submit",
                                  "merge", "clean", "succeed", "fail", "done"}
      /\ 1 \in Areas
  BY ArgoAssumption, AreaNumbers DEF ExecutorPC
<1>h. {"crash", "mergeCrash", "fault", "timeout"} \subseteq Hazards
  BY DEF Hazards
<1>1. CASE Begin(e)
  <2>1. attempt' \in [Executors -> 0 .. (StageMaxRetries + 1)]
    BY <1>0, <1>1 DEF Begin, TypeOK
  <2> QED
    BY <1>0, <1>1, <2>1, MoveTypes DEF Begin, TypeOK
<1>2. CASE CheckMerged(e)
  BY <1>0, <1>h, <1>2, MoveTypes DEF CheckMerged, CallFails, NoHazard, TypeOK
<1>3. CASE PrepareWorkerDirs(e)
  <2>1. workers' \subseteq Areas
    BY <1>3 DEF PrepareWorkerDirs, TypeOK
  <2> QED
    BY <1>0, <1>h, <1>3, <2>1, MoveTypes DEF PrepareWorkerDirs, CallFails, NoHazard, TypeOK
<1>4. CASE CheckWorkerParts(e)
  <2>1. area' \in [Executors -> Areas]
    BY <1>0, <1>4 DEF CheckWorkerParts, StartMerge, TypeOK
  <2> QED
    BY <1>0, <1>4, <2>1, MoveTypes DEF CheckWorkerParts, StartMerge, TypeOK
<1>5. CASE LatestWorkflow(e)
  <2>1. CASE LatestPhase = "Running" /\ seen' = [seen EXCEPT ![e] = last] /\ Goto(e, "wait")
             /\ NoHazard /\ UNCHANGED <<attempt, area>>
    <3>0. last # 0 /\ wf' = wf /\ last \in 0 .. Len(wf)
      BY <1>5, <2>1 DEF LatestWorkflow, LatestPhase, argo, TypeOK
    <3>1. last \in 1 .. Len(wf')
      BY <3>0
    <3>2. /\ wf' = wf /\ last' = last /\ UNCHANGED <<stage, files, attempt, area, spent>>
          /\ Len(wf) \in Nat
      BY <1>5, <2>1 DEF LatestWorkflow, NoHazard, argo, TypeOK
    <3>3. wf' \in Seq(Workflow) /\ Len(wf) <= Len(wf') /\ last' \in 0 .. Len(wf') /\ (last' = 0 => wf' = <<>>)
      BY <3>2 DEF TypeOK
    <3> QED
      BY <2>1, <3>1, <3>2, <3>3, WaitTypes
  <2>2. CASE UNCHANGED seen
    <3>1. area' \in [Executors -> Areas]
      BY <1>0, <1>5 DEF LatestWorkflow, StartMerge, TypeOK
    <3>2. \/ AttemptFails(e) /\ Strike("fault")
          \/ (Goto(e, "merge") \/ Goto(e, "submit")) /\ UNCHANGED <<attempt, spent>>
          \/ LatestPhase = "Running" /\ seen' = [seen EXCEPT ![e] = last] /\ Goto(e, "wait")
              /\ NoHazard /\ UNCHANGED <<attempt, area>>
      BY <1>5 DEF LatestWorkflow, CallFails, NoHazard, StartMerge
    <3> QED
      BY <1>0, <1>h, <1>5, <2>1, <2>2, <3>1, <3>2, MoveTypes DEF LatestWorkflow, TypeOK
  <2> QED
    BY <1>5, <2>1, <2>2 DEF LatestWorkflow
<1>6. CASE SubmitWorkflow(e)
  BY <1>6, SubmitTypes
<1>7. CASE WaitWorkflow(e)
  <2>1. area' \in [Executors -> Areas]
    BY <1>0, <1>7 DEF WaitWorkflow, StartMerge, TypeOK
  <2> QED
    BY <1>0, <1>h, <1>7, <2>1, MoveTypes
       DEF WaitWorkflow, CallFails, StartMerge, NoHazard, TypeOK
<1>8. CASE MergeArea(e)
  BY <1>8, MergeTypes
<1>9. CASE CleanWorkers(e)
  BY <1>0, <1>h, <1>9, MoveTypes DEF CleanWorkers, NoHazard, TypeOK
<1>10. CASE Succeed(e)
  BY <1>0, <1>10, MoveTypes DEF Succeed, TypeOK
<1>11. CASE GiveUp(e)
  BY <1>0, <1>11, MoveTypes DEF GiveUp, TypeOK
<1>12. CASE Crash(e)
  BY <1>0, <1>h, <1>12, MoveTypes DEF Crash, TypeOK
<1> QED
  BY <1>1, <1>2, <1>3, <1>4, <1>5, <1>6, <1>7, <1>8, <1>9, <1>10, <1>11, <1>12
     DEF ExecutorStep

\* The controller and the Pods only change what is recorded of a workflow.
LEMMA ControllerWorkflows ==
    ASSUME TypeOK, NEW w \in DOMAIN wf, ControllerStep(w) \/ FailWorkflow(w)
    PROVE  /\ wf' \in Seq(Workflow) /\ Len(wf') = Len(wf)
           /\ workers' \subseteq Areas
           /\ UNCHANGED spent \/ Strike("workflow")
           /\ UNCHANGED <<stage, merged, last, pc, attempt, seen, area>>
<1>1. /\ wf \in Seq(Workflow) /\ DOMAIN wf = 1 .. Len(wf) /\ wf[w] \in Workflow
      /\ workers \subseteq Areas
  BY DEF TypeOK
<1>2. ASSUME NEW v \in Workflow, wf' = [wf EXCEPT ![w] = v]
      PROVE  wf' \in Seq(Workflow) /\ Len(wf') = Len(wf)
  BY <1>1, <1>2
<1>3. ASSUME NEW p \in Phase, SetPhase(w, p)
      PROVE  wf' \in Seq(Workflow) /\ Len(wf') = Len(wf)
  <2>1. [wf[w] EXCEPT !.phase = p] \in Workflow
    BY <1>1 DEF Workflow
  <2>2. wf' = [wf EXCEPT ![w] = [wf[w] EXCEPT !.phase = p]]
    BY <1>3 DEF SetPhase
  <2> QED
    BY <1>2, <2>1, <2>2
<1>4. CASE StartWorkflow(w)
  BY <1>1, <1>3, <1>4 DEF StartWorkflow, files, Phase
<1>5. CASE WritePart(w)
  <2>1. PICK a \in wf[w].left : /\ workers' = workers \cup {a}
                                /\ wf' = [wf EXCEPT ![w].left = @ \ {a}]
    BY <1>5 DEF WritePart
  <2>2. wf[w].left \subseteq Areas
    BY <1>1 DEF Workflow
  <2>3. [wf[w] EXCEPT !.left = wf[w].left \ {a}] \in Workflow
    BY <1>1, <2>2 DEF Workflow
  <2>4. wf' = [wf EXCEPT ![w] = [wf[w] EXCEPT !.left = wf[w].left \ {a}]]
    BY <2>1
  <2> QED
    BY <1>1, <1>2, <1>5, <2>1, <2>2, <2>3, <2>4 DEF WritePart
<1>6. CASE EndWorkflow(w)
  BY <1>1, <1>3, <1>6 DEF EndWorkflow, files, Phase
<1>7. CASE FailWorkflow(w)
  BY <1>1, <1>3, <1>7 DEF FailWorkflow, files, Phase
<1> QED
  BY <1>4, <1>5, <1>6, <1>7 DEF ControllerStep

LEMMA InitTypes == Init => TypeOK
<1> SUFFICES ASSUME Init PROVE TypeOK
  OBVIOUS
<1>1. 0 \in 0 .. (StageMaxRetries + 1) /\ Len(wf) = 0 /\ wf \in Seq(Workflow)
  BY ArgoAssumption DEF Init
<1> QED
  BY <1>1, AreaNumbers DEF Init, TypeOK, ExecutorPC

LEMMA TypesStep == TypeOK /\ [Next]_vars => TypeOK'
<1> SUFFICES ASSUME TypeOK, [Next]_vars PROVE TypeOK'
  OBVIOUS
<1>1. CASE UNCHANGED vars
  BY <1>1 DEF vars, TypeOK
<1>2. ASSUME NEW e \in Executors, ExecutorStep(e) \/ Crash(e) PROVE TypeOK'
  BY <1>2, ExecutorTypes
<1>3. ASSUME NEW w \in DOMAIN wf, ControllerStep(w) \/ FailWorkflow(w) PROVE TypeOK'
  <2>1. /\ wf' \in Seq(Workflow) /\ Len(wf') = Len(wf)
        /\ workers' \subseteq Areas
        /\ UNCHANGED spent \/ Strike("workflow")
        /\ UNCHANGED <<stage, merged, last, pc, attempt, seen, area>>
    BY <1>3, ControllerWorkflows
  <2>2. spent' \in [Hazards -> Nat]
    BY <2>1, StrikeTypes DEF Hazards, TypeOK
  <2>3. last' = 0 => wf' = <<>>
    <3>1. wf = <<>> => Len(wf) = 0
      OBVIOUS
    <3> QED
      BY <2>1, <3>1 DEF TypeOK
  <2> QED
    BY <2>1, <2>2, <2>3 DEF TypeOK
<1> QED
  BY <1>1, <1>2, <1>3 DEF Next

\* Every variable keeps its type; in particular an executor only ever waits for a workflow
\* that there is, and the API server lists one last as soon as there is one.
THEOREM ArgoTypeCorrect == Spec => []TypeOK
  BY InitTypes, TypesStep, PTL DEF Spec

-----------------------------------------------------------------------------
(* What a restart does not repeat.                                         *)

\* Where an executor is once the last area has been merged: it reports the success, or
\* its process ended and it looks at the merged parts again.
Settled == {"clean", "succeed", "idle", "check", "fail", "done"}

MergedForGood ==
    NumAreas \in merged => merged = Areas /\ \A e \in Executors : pc[e] \in Settled

LEMMA SettledStep ==
    ASSUME TypeOK, NEW e \in Executors, ExecutorStep(e) \/ Crash(e),
           merged = Areas, pc[e] \in Settled
    PROVE  merged' = merged /\ wf' = wf /\ pc'[e] \in Settled
<1> USE DEF Settled, Goto, AttemptFails, CallFails, files, argo
<1>0. pc \in [Executors -> ExecutorPC]
  BY DEF TypeOK
<1>1. CASE Begin(e)
  BY <1>0, <1>1 DEF Begin
<1>2. CASE CheckMerged(e)
  BY <1>0, <1>2 DEF CheckMerged, MergedPartsExist
<1>3. CASE CleanWorkers(e)
  BY <1>0, <1>3 DEF CleanWorkers
<1>4. CASE Succeed(e)
  BY <1>0, <1>4 DEF Succeed
<1>5. CASE GiveUp(e)
  BY <1>0, <1>5 DEF GiveUp
<1>6. CASE Crash(e)
  BY <1>0, <1>6 DEF Crash
<1> QED
  BY <1>1, <1>2, <1>3, <1>4, <1>5, <1>6
     DEF ExecutorStep, PrepareWorkerDirs, CheckWorkerParts, LatestWorkflow, SubmitWorkflow,
         WaitWorkflow, MergeArea

\* The last area is merged as the end of a merge.
LEMMA LastAreaMerged ==
    ASSUME Parts, Parts', NEW e \in Executors, ExecutorStep(e) \/ Crash(e),
           NumAreas \notin merged, NumAreas \in merged'
    PROVE  merged' = Areas /\ pc'[e] = "clean"
<1>1. MergeArea(e)
  BY DEF ExecutorStep, Begin, CheckMerged, PrepareWorkerDirs, CheckWorkerParts, LatestWorkflow,
         SubmitWorkflow, WaitWorkflow, CleanWorkers, Succeed, GiveUp, Crash, files
<1>2. area[e] = NumAreas /\ Goto(e, "clean")
  BY <1>1 DEF MergeArea, CallFails, files
<1>3. pc'[e] = "clean"
  BY <1>2 DEF Goto, Parts, PartTypes
<1> QED
  BY <1>3 DEF Parts, Progress

\* The stage of a task whose job is executed by one worker is not computed again when all
\* its parts are merged, whatever crashes, failing calls and timeouts follow (the first
\* resume branch of executePanRpcViaArgo).
THEOREM MergedIsKept ==
    ASSUME \A d, e \in Executors : d = e
    PROVE  Spec => MergedIsNotRecomputed
<1>1. Init => MergedForGood
  BY ArgoAssumption DEF Init, MergedForGood
<1>2. ASSUME TypeOK, Parts, Parts', MergedForGood, Next
      PROVE  MergedForGood' /\ (merged = Areas => Len(wf') = Len(wf))
  <2>0. NumAreas \in Areas
    BY AreaNumbers
  <2>1. ASSUME NEW e \in Executors, ExecutorStep(e) \/ Crash(e)
        PROVE  MergedForGood' /\ (merged = Areas => Len(wf') = Len(wf))
    <3>1. \A x \in Executors : x = e
      OBVIOUS
    <3>2. CASE NumAreas \in merged
      <4>1. merged = Areas /\ pc[e] \in Settled
        BY <1>2, <3>2 DEF MergedForGood
      <4>2. merged' = merged /\ wf' = wf /\ pc'[e] \in Settled
        BY <1>2, <2>1, <4>1, SettledStep
      <4> QED
        BY <3>1, <4>1, <4>2 DEF MergedForGood
    <3>3. CASE NumAreas \notin merged /\ NumAreas \in merged'
      <4>1. merged' = Areas /\ pc'[e] = "clean"
        BY <1>2, <2>1, <3>3, LastAreaMerged
      <4> QED
        BY <2>0, <3>1, <3>3, <4>1 DEF MergedForGood, Settled
    <3>4. CASE NumAreas \notin merged /\ NumAreas \notin merged'
      BY <2>0, <3>4 DEF MergedForGood
    <3> QED
      BY <3>2, <3>3, <3>4
  <2>2. ASSUME NEW w \in DOMAIN wf, ControllerStep(w) \/ FailWorkflow(w)
        PROVE  MergedForGood' /\ (merged = Areas => Len(wf') = Len(wf))
    <3>1. Len(wf') = Len(wf) /\ UNCHANGED <<merged, pc>>
      BY <1>2, <2>2, ControllerWorkflows
    <3> QED
      BY <1>2, <3>1 DEF MergedForGood
  <2> QED
    BY <1>2, <2>1, <2>2 DEF Next
<1>3. ASSUME MergedForGood, UNCHANGED vars PROVE MergedForGood'
  BY <1>3 DEF vars, MergedForGood
<1>5. Parts /\ [Next]_vars => Parts'
  BY PartsStep
<1>6. Init => TypeOK
  BY InitTypes
<1>7. TypeOK /\ Parts /\ MergedForGood /\ [Next]_vars => MergedForGood'
  BY <1>2, <1>3, <1>5
<1>8. TypeOK /\ Parts /\ MergedForGood /\ [Next]_vars => [merged = Areas => Len(wf') = Len(wf)]_vars
  BY <1>2, <1>5
<1> QED
  BY <1>1, <1>5, <1>6, <1>7, <1>8, InitParts, TypesStep, PTL DEF Spec, MergedIsNotRecomputed
=============================================================================
