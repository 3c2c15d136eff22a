------------------------ MODULE PreflightRunner_proofs ------------------------
(***************************************************************************)
(* Proofs about PreflightRunner: its type invariant and its four safety    *)
(* invariants, for every command line and every list of results.           *)
(*                                                                         *)
(* The two loops of report.go are folds, so the invariant says what they   *)
(* have computed after the elements seen so far: status is Worst of the    *)
(* results of the current stage, verdict relates to the stages below stage *)
(* and shortCircuited says that one of those is a blocking red.            *)
(***************************************************************************)
EXTENDS PreflightRunner, TLAPS

Before(id) == {j \in StageIDs : j < id}

BlockingRed(id) == Blocking(id) /\ report[id] = "red"

\* Nothing has happened yet.
AtFlags ==
    pc = "flags" =>
        /\ ~failed
        /\ stage = 0
        /\ ~shortCircuited
        /\ verdict = "green"
        /\ status = "green"
        /\ \A id \in StageIDs : results[id] = {} /\ report[id] = "none"

\* What emitError leaves.
AfterError ==
    failed =>
        /\ pc = "printed"
        /\ verdict = "red"
        /\ results[0] = {"red"} /\ report[0] = "red"
        /\ \A id \in StageIDs : id # 0 => results[id] = {} /\ report[id] = "none"

\* Stages not begun hold nothing; stages behind are reported at their true
\* severity or skipped with no results.
Progress ==
    ~failed =>
        /\ pc = "printed" => stage = 6
        /\ pc # "flags" => ~CannotRun
        /\ \A id \in StageIDs : id >= stage => report[id] = "none"
        /\ \A id \in StageIDs : id > stage => results[id] = {}
        /\ \A id \in StageIDs : id < stage =>
              \/ report[id] = "skipped" /\ results[id] = {}
              \/ report[id] \in Severities /\ report[id] = Worst(results[id])

\* The fold over the current stage's results.
CurrentStage ==
    ~failed /\ stage < 6 =>
        /\ status = Worst(results[stage])
        /\ shortCircuited => results[stage] = {}

\* The flag, and what it causes.
ShortCircuit ==
    ~failed =>
        /\ shortCircuited <=> \E j \in Before(stage) : BlockingRed(j)
        /\ \A id \in Before(stage) :
              report[id] = "skipped" <=> \E j \in Before(id) : BlockingRed(j)

\* The fold over the stages reported so far.
VerdictSoFar ==
    ~failed =>
        /\ verdict = "red" <=> \E j \in Before(stage) : BlockingRed(j)
        /\ verdict = "green" <=> \A j \in Before(stage) : report[j] \in {"green", "skipped"}

\* Stage 4 without a kubeconfig.
NoCluster ==
    ~failed /\ options.kubeconfig = "none" =>
        /\ results[4] \subseteq {"red"}
        /\ results[5] = {}
        /\ stage > 4 => report[4] = "skipped" \/ results[4] = {"red"}

IInv ==
    /\ TypeOK
    /\ AtFlags
    /\ AfterError
    /\ Progress
    /\ CurrentStage
    /\ ShortCircuit
    /\ VerdictSoFar
    /\ NoCluster

-----------------------------------------------------------------------------
(* The severity algebra.                                                    *)

\* Worse never leaves the severities; on them it is the more severe one.
LEMMA WorseIsWorst ==
    ASSUME NEW a \in Severities, NEW b \in Severities
    PROVE  /\ Worse(a, b) \in Severities
           /\ Worse(a, b) = "red" <=> a = "red" \/ b = "red"
           /\ Worse(a, b) = "green" <=> a = "green" /\ b = "green"
BY DEF Worse, Rank, Severities

\* What Worst says of a set.
LEMMA WorstMeaning ==
    ASSUME NEW S
    PROVE  /\ Worst(S) \in Severities
           /\ Worst(S) = "red" <=> "red" \in S
           /\ Worst(S) = "green" <=> "red" \notin S /\ "amber" \notin S
<1>1. CASE "red" \in S
  BY <1>1 DEF Worst, Severities
<1>2. CASE "red" \notin S /\ "amber" \in S
  BY <1>2 DEF Worst, Severities
<1>3. CASE "red" \notin S /\ "amber" \notin S
  BY <1>3 DEF Worst, Severities
<1> QED BY <1>1, <1>2, <1>3

\* One step of the fold of StageStatus: adding a result to a set of results.
LEMMA WorstOfOneMore ==
    ASSUME NEW S \in SUBSET Severities, NEW s \in Severities
    PROVE  Worse(Worst(S), s) = Worst(S \cup {s})
<1>1. /\ Worst(S) \in Severities
      /\ Worst(S) = "red" <=> "red" \in S
      /\ Worst(S) = "green" <=> "red" \notin S /\ "amber" \notin S
  BY WorstMeaning
<1>2. /\ Worse(Worst(S), s) \in Severities
      /\ Worse(Worst(S), s) = "red" <=> Worst(S) = "red" \/ s = "red"
      /\ Worse(Worst(S), s) = "green" <=> Worst(S) = "green" /\ s = "green"
  BY <1>1, WorseIsWorst
<1>3. /\ Worst(S \cup {s}) \in Severities
      /\ Worst(S \cup {s}) = "red" <=> "red" \in S \/ s = "red"
      /\ Worst(S \cup {s}) = "green" <=> "red" \notin S /\ "amber" \notin S /\ s \notin {"red", "amber"}
  BY WorstMeaning
<1> QED BY <1>1, <1>2, <1>3 DEF Severities

\* One step of the fold of ComputeVerdict: a stage enters the verdict with its
\* effective severity.
LEMMA WorseEffective ==
    ASSUME NEW v \in Severities, NEW s \in Statuses, NEW blocking \in BOOLEAN
    PROVE  LET w == Worse(v, Effective(blocking, s)) IN
           /\ w \in Severities
           /\ w = "red" <=> v = "red" \/ (blocking /\ s = "red")
           /\ w = "green" <=> v = "green" /\ s \in {"green", "skipped"}
BY DEF Worse, Rank, Effective, Statuses, Severities

-----------------------------------------------------------------------------
(* The invariant is inductive.                                              *)

LEMMA InitIInv == Init => IInv
<1> SUFFICES ASSUME Init PROVE IInv
  OBVIOUS
<1>1. TypeOK
  <2>1. failed \in BOOLEAN /\ shortCircuited \in BOOLEAN
    BY Zenon DEF Init
  <2>2. /\ options \in Options
        /\ pc \in {"flags", "stages", "printed"}
        /\ stage \in 0..6
        /\ results \in [StageIDs -> SUBSET Severities]
        /\ status \in Severities
        /\ report \in [StageIDs -> Statuses \cup {"none"}]
        /\ verdict \in Severities
    BY DEF Init, Severities, Statuses
  <2> QED BY <2>1, <2>2 DEF TypeOK
<1>2. AtFlags /\ AfterError /\ Progress /\ CurrentStage
  BY DEF Init, AtFlags, AfterError, Progress, CurrentStage, StageIDs, Worst
<1>3. ShortCircuit /\ VerdictSoFar
  <2>1. Before(stage) = {}
    BY DEF Init, Before, StageIDs
  <2> QED BY <2>1 DEF Init, ShortCircuit, VerdictSoFar
<1>4. NoCluster
  BY DEF Init, NoCluster, StageIDs
<1> QED BY <1>1, <1>2, <1>3, <1>4 DEF IInv

\* run starts the stages.
LEMMA StartStagesKeepsIInv == IInv /\ StartStages => IInv'
BY DEF StartStages, IInv, TypeOK, AtFlags, AfterError, Progress, CurrentStage, ShortCircuit,
       VerdictSoFar, NoCluster, Before, BlockingRed, Blocking, StageIDs, CannotRun, Worst

\* emitError.
LEMMA EmitErrorKeepsIInv == IInv /\ EmitError => IInv'
BY DEF EmitError, IInv, TypeOK, AtFlags, AfterError, Progress, CurrentStage, ShortCircuit,
       VerdictSoFar, NoCluster, StageIDs, StageIdentity, Severities, Statuses

\* A check returns a result.
LEMMA ReportResultKeepsIInv ==
    ASSUME NEW s \in Severities, IInv, ReportResult(s)
    PROVE  IInv'
<1> USE DEF StageIDs, StageKubernetes, StageWorkload
<1>1. /\ stage \in StageIDs /\ pc = "stages" /\ ~failed /\ ~shortCircuited
      /\ results' = [results EXCEPT ![stage] = @ \cup {s}]
      /\ status = Worst(results[stage]) /\ results[stage] \in SUBSET Severities
  BY DEF IInv, TypeOK, AfterError, CurrentStage, ReportResult, Running
<1>2. status' = Worst(results'[stage]) /\ status' \in Severities
  <2>1. results'[stage] = results[stage] \cup {s}
    BY <1>1 DEF IInv, TypeOK
  <2>2. status' = Worse(Worst(results[stage]), s)
    BY <1>1 DEF ReportResult
  <2> QED BY <2>1, <2>2, <1>1, WorstOfOneMore, WorstMeaning
<1>3. \A id \in StageIDs : id # stage => results'[id] = results[id]
  BY <1>1 DEF IInv, TypeOK
<1>4. TypeOK'
  BY <1>1, <1>2 DEF IInv, TypeOK, ReportResult
<1>5. AtFlags' /\ AfterError'
  BY <1>1 DEF ReportResult, AtFlags, AfterError
<1>6. Progress'
  BY <1>1, <1>3 DEF IInv, TypeOK, Progress, ReportResult, CannotRun
<1>7. CurrentStage'
  BY <1>1, <1>2 DEF CurrentStage, ReportResult
<1>8. ShortCircuit' /\ VerdictSoFar'
  BY <1>1 DEF IInv, ShortCircuit, VerdictSoFar, Before, BlockingRed, Blocking, ReportResult
<1>9. NoCluster'
  BY <1>1, <1>3 DEF IInv, TypeOK, NoCluster, MayReturn, ReportResult
<1> QED BY <1>4, <1>5, <1>6, <1>7, <1>8, <1>9 DEF IInv

\* A stage enters the report with status s, and the verdict takes it in.
LEMMA ReportedStageKeepsVerdict ==
    ASSUME NEW s \in Statuses, IInv, ~failed, stage \in StageIDs,
           report' = [report EXCEPT ![stage] = s],
           verdict' = Worse(verdict, Effective(Blocking(stage), s)),
           stage' = stage + 1,
           UNCHANGED <<options, failed>>
    PROVE  /\ VerdictSoFar'
           /\ verdict' \in Severities
           /\ (\E j \in Before(stage') : Blocking(j) /\ report'[j] = "red")
                <=> (\E j \in Before(stage) : BlockingRed(j)) \/ (Blocking(stage) /\ s = "red")
           /\ \A id \in Before(stage) : report'[id] = report[id]
           /\ report'[stage] = s
<1> DEFINE w == Worse(verdict, Effective(Blocking(stage), s))
<1>1. Blocking(stage) \in BOOLEAN /\ verdict \in Severities /\ report \in [StageIDs -> Statuses \cup {"none"}]
  BY DEF Blocking, IInv, TypeOK
<1>2. /\ w \in Severities
      /\ w = "red" <=> verdict = "red" \/ (Blocking(stage) /\ s = "red")
      /\ w = "green" <=> verdict = "green" /\ s \in {"green", "skipped"}
  BY <1>1, WorseEffective
<1>3. report'[stage] = s /\ \A id \in StageIDs : id # stage => report'[id] = report[id]
  BY <1>1
<1>4. Before(stage') = Before(stage) \cup {stage} /\ stage \notin Before(stage)
  BY DEF Before, StageIDs
<1>5. \A id \in Before(stage) : report'[id] = report[id]
  BY <1>3 DEF Before, StageIDs
<1>6. (\E j \in Before(stage') : Blocking(j) /\ report'[j] = "red")
        <=> (\E j \in Before(stage) : BlockingRed(j)) \/ (Blocking(stage) /\ s = "red")
  BY <1>3, <1>4, <1>5 DEF BlockingRed
<1>7. (\A j \in Before(stage') : report'[j] \in {"green", "skipped"})
        <=> (\A j \in Before(stage) : report[j] \in {"green", "skipped"}) /\ s \in {"green", "skipped"}
  BY <1>3, <1>4, <1>5
<1>8. /\ verdict = "red" <=> \E j \in Before(stage) : BlockingRed(j)
      /\ verdict = "green" <=> \A j \in Before(stage) : report[j] \in {"green", "skipped"}
  BY DEF IInv, VerdictSoFar
<1>9. /\ verdict' = "red" <=> \E j \in Before(stage') : Blocking(j) /\ report'[j] = "red"
      /\ verdict' = "green" <=> \A j \in Before(stage') : report'[j] \in {"green", "skipped"}
  BY <1>2, <1>6, <1>7, <1>8
<1>10. VerdictSoFar'
  BY <1>9 DEF VerdictSoFar, Before, BlockingRed, Blocking
<1> QED BY <1>2, <1>3, <1>5, <1>6, <1>10

\* The checks of a stage are done.
LEMMA EndStageKeepsIInv == IInv /\ EndStage => IInv'
<1> SUFFICES ASSUME IInv, EndStage PROVE IInv'
  OBVIOUS
<1>1. /\ stage \in StageIDs /\ stage' = stage + 1 /\ pc = "stages" /\ ~failed /\ ~shortCircuited
      /\ status \in Severities /\ status \in Statuses
      /\ status = Worst(results[stage])
      /\ UNCHANGED <<options, pc, failed, results>>
  BY DEF IInv, TypeOK, AfterError, CurrentStage, EndStage, Running, StageIDs, Statuses
<1>2. /\ VerdictSoFar' /\ verdict' \in Severities
      /\ (\E j \in Before(stage') : Blocking(j) /\ report'[j] = "red")
           <=> (\E j \in Before(stage) : BlockingRed(j)) \/ (Blocking(stage) /\ status = "red")
      /\ \A id \in Before(stage) : report'[id] = report[id]
      /\ report'[stage] = status
  BY <1>1, ReportedStageKeepsVerdict DEF EndStage
<1>3. TypeOK'
  BY <1>1, <1>2 DEF IInv, TypeOK, EndStage, Statuses, Severities, StageIDs
<1>4. AtFlags' /\ AfterError'
  BY <1>1 DEF AtFlags, AfterError
<1>5. Progress'
  <2>1. \A id \in StageIDs : id >= stage' => report'[id] = "none"
    BY <1>1 DEF IInv, TypeOK, Progress, EndStage, StageIDs
  <2>2. \A id \in StageIDs : id < stage' => id \in Before(stage) \/ id = stage
    BY <1>1 DEF Before, StageIDs
  <2>3. \A id \in StageIDs : id < stage' =>
            \/ report'[id] = "skipped" /\ results'[id] = {}
            \/ report'[id] \in Severities /\ report'[id] = Worst(results'[id])
    BY <1>1, <1>2, <2>2 DEF IInv, Progress, Before
  <2>4. \A id \in StageIDs : id > stage' => results'[id] = {}
    BY <1>1 DEF IInv, Progress, StageIDs
  <2> QED BY <1>1, <2>1, <2>3, <2>4 DEF IInv, Progress, CannotRun
<1>6. CurrentStage'
  <2>1. stage' < 6 => results'[stage'] = {}
    BY <1>1 DEF IInv, Progress, StageIDs
  <2> QED BY <1>1, <2>1 DEF CurrentStage, EndStage, Worst
<1>7. ShortCircuit'
  <2>1. ~\E j \in Before(stage) : BlockingRed(j)
    BY <1>1 DEF IInv, ShortCircuit
  <2>2. shortCircuited' <=> \E j \in Before(stage') : Blocking(j) /\ report'[j] = "red"
    BY <1>2, <2>1 DEF EndStage
  <2>3. ASSUME NEW id \in Before(stage')
        PROVE  report'[id] # "skipped" /\ ~\E j \in Before(id) : Blocking(j) /\ report'[j] = "red"
    <3>1. Before(id) \subseteq Before(stage)
      BY <1>1 DEF Before, StageIDs
    <3>2. ~\E j \in Before(id) : Blocking(j) /\ report'[j] = "red"
      BY <3>1, <1>2, <2>1 DEF BlockingRed
    <3>3. CASE id = stage
      BY <1>1, <1>2, <3>2, <3>3 DEF Severities
    <3>4. CASE id # stage
      <4>1. id \in Before(stage)
        BY <1>1, <3>4 DEF Before, StageIDs
      <4>2. report[id] # "skipped"
        BY <1>1, <4>1, <3>1, <2>1 DEF IInv, ShortCircuit
      <4> QED BY <4>1, <4>2, <1>2, <3>2
    <3> QED BY <3>3, <3>4
  <2>4. \A id \in Before(stage') :
            report'[id] = "skipped" <=> \E j \in Before(id) : Blocking(j) /\ report'[j] = "red"
    BY <2>3
  <2> QED BY <1>1, <2>2, <2>4 DEF ShortCircuit, Before, BlockingRed, Blocking
<1>8. NoCluster'
  BY <1>1, <1>2 DEF IInv, TypeOK, NoCluster, EndStage, Complete, StageIDs, StageKubernetes, Before
<1> QED BY <1>2, <1>3, <1>4, <1>5, <1>6, <1>7, <1>8 DEF IInv

\* A stage is skipped.
LEMMA SkipStageKeepsIInv == IInv /\ SkipStage => IInv'
<1> SUFFICES ASSUME IInv, SkipStage PROVE IInv'
  OBVIOUS
<1>1. /\ stage \in StageIDs /\ stage' = stage + 1 /\ pc = "stages" /\ ~failed /\ shortCircuited
      /\ status = Worst(results[stage]) /\ results[stage] = {}
      /\ UNCHANGED <<options, pc, failed, results, status, shortCircuited>>
  BY DEF IInv, TypeOK, AfterError, CurrentStage, SkipStage, StageIDs
<1>2. /\ VerdictSoFar' /\ verdict' \in Severities
      /\ (\E j \in Before(stage') : Blocking(j) /\ report'[j] = "red")
           <=> (\E j \in Before(stage) : BlockingRed(j))
      /\ \A id \in Before(stage) : report'[id] = report[id]
      /\ report'[stage] = "skipped"
  <2>1. "skipped" \in Statuses
    BY DEF Statuses
  <2> QED BY <1>1, <2>1, ReportedStageKeepsVerdict DEF SkipStage
<1>3. TypeOK'
  BY <1>1, <1>2 DEF IInv, TypeOK, SkipStage, Statuses, StageIDs
<1>4. AtFlags' /\ AfterError'
  BY <1>1 DEF AtFlags, AfterError
<1>5. Progress'
  <2>1. \A id \in StageIDs : id >= stage' => report'[id] = "none"
    BY <1>1 DEF IInv, TypeOK, Progress, SkipStage, StageIDs
  <2>2. \A id \in StageIDs : id < stage' => id \in Before(stage) \/ id = stage
    BY <1>1 DEF Before, StageIDs
  <2>3. \A id \in StageIDs : id < stage' =>
            \/ report'[id] = "skipped" /\ results'[id] = {}
            \/ report'[id] \in Severities /\ report'[id] = Worst(results'[id])
    BY <1>1, <1>2, <2>2 DEF IInv, Progress, Before
  <2>4. \A id \in StageIDs : id > stage' => results'[id] = {}
    BY <1>1 DEF IInv, Progress, StageIDs
  <2> QED BY <1>1, <2>1, <2>3, <2>4 DEF IInv, Progress, CannotRun
<1>6. CurrentStage'
  <2>1. stage' < 6 => results'[stage'] = {}
    BY <1>1 DEF IInv, Progress, StageIDs
  <2> QED BY <1>1, <2>1 DEF CurrentStage, Worst
<1>7. ShortCircuit'
  <2>1. \E j \in Before(stage) : BlockingRed(j)
    BY <1>1 DEF IInv, ShortCircuit
  <2>2. shortCircuited' <=> \E j \in Before(stage') : Blocking(j) /\ report'[j] = "red"
    BY <1>1, <1>2, <2>1
  <2>3. ASSUME NEW id \in Before(stage')
        PROVE  report'[id] = "skipped" <=> \E j \in Before(id) : Blocking(j) /\ report'[j] = "red"
    <3>1. Before(id) \subseteq Before(stage)
      BY <1>1 DEF Before, StageIDs
    <3>2. (\E j \in Before(id) : Blocking(j) /\ report'[j] = "red")
            <=> \E j \in Before(id) : BlockingRed(j)
      BY <3>1, <1>2 DEF BlockingRed
    <3>3. CASE id = stage
      BY <1>2, <2>1, <3>2, <3>3
    <3>4. CASE id # stage
      <4>1. id \in Before(stage)
        BY <1>1, <3>4 DEF Before, StageIDs
      <4>2. report[id] = "skipped" <=> \E j \in Before(id) : BlockingRed(j)
        BY <1>1, <4>1 DEF IInv, ShortCircuit
      <4> QED BY <4>1, <4>2, <1>2, <3>2
    <3> QED BY <3>3, <3>4
  <2> QED BY <1>1, <2>2, <2>3 DEF ShortCircuit, Before, BlockingRed, Blocking
<1>8. NoCluster'
  BY <1>1, <1>2 DEF IInv, TypeOK, NoCluster, StageIDs, Before
<1> QED BY <1>2, <1>3, <1>4, <1>5, <1>6, <1>7, <1>8 DEF IInv

\* The report is printed.
LEMMA PrintReportKeepsIInv == IInv /\ PrintReport => IInv'
BY DEF PrintReport, IInv, TypeOK, AtFlags, AfterError, Progress, CurrentStage, ShortCircuit,
       VerdictSoFar, NoCluster, Before, BlockingRed, Blocking, StageIDs, CannotRun

\* A step that changes nothing.
LEMMA StutterKeepsIInv == IInv /\ UNCHANGED vars => IInv'
BY DEF vars, IInv, TypeOK, AtFlags, AfterError, Progress, CurrentStage, ShortCircuit,
       VerdictSoFar, NoCluster, Before, BlockingRed, Blocking, CannotRun

\* Every step keeps the invariant.
LEMMA NextKeepsIInv == IInv /\ [Next]_vars => IInv'
BY StartStagesKeepsIInv, EmitErrorKeepsIInv, ReportResultKeepsIInv, EndStageKeepsIInv,
   SkipStageKeepsIInv, PrintReportKeepsIInv, StutterKeepsIInv DEF Next, Check

\* The invariant the theorems rest on.
LEMMA Invariance == Spec => []IInv
BY InitIInv, NextKeepsIInv, PTL DEF Spec

-----------------------------------------------------------------------------
(* The theorems.                                                            *)

\* Every variable keeps its type: the stage loop never leaves the six stages.
THEOREM RunnerTypeCorrect == Spec => []TypeOK
<1>1. IInv => TypeOK
  BY DEF IInv
<1> QED BY <1>1, Invariance, PTL

\* The invariant implies that the verdict is true.
LEMMA IInvGivesTruth == IInv => VerdictIsTruth
<1> SUFFICES ASSUME IInv, pc = "printed" PROVE VerdictIsTruth
  BY DEF VerdictIsTruth
<1>1. CASE failed
  <2>1. Blocking(0) /\ "red" \in results[0] /\ verdict = "red" /\ 0 \in StageIDs
    BY <1>1 DEF IInv, AfterError, Blocking, StageIDs
  <2> QED BY <2>1 DEF VerdictIsTruth
<1>2. CASE ~failed
  <2>1. stage = 6 /\ Before(stage) = StageIDs
    BY <1>2 DEF IInv, Progress, Before, StageIDs
  <2>2. \A id \in StageIDs : /\ report[id] = "red" <=> "red" \in results[id]
                             /\ report[id] \in {"green", "skipped"} <=> results[id] \subseteq {"green"}
    <3> SUFFICES ASSUME NEW id \in StageIDs
                 PROVE  /\ report[id] = "red" <=> "red" \in results[id]
                        /\ report[id] \in {"green", "skipped"} <=> results[id] \subseteq {"green"}
      OBVIOUS
    <3>1. id < stage /\ results[id] \in SUBSET Severities
      BY <2>1 DEF IInv, TypeOK, StageIDs
    <3>2. \/ report[id] = "skipped" /\ results[id] = {}
          \/ report[id] \in Severities /\ report[id] = Worst(results[id])
      BY <1>2, <3>1 DEF IInv, Progress
    <3> QED BY <3>1, <3>2, WorstMeaning DEF Severities
  <2>3. /\ verdict = "red" <=> \E id \in StageIDs : BlockingRed(id)
        /\ verdict = "green" <=> \A id \in StageIDs : report[id] \in {"green", "skipped"}
    BY <1>2, <2>1 DEF IInv, VerdictSoFar
  <2> QED BY <2>2, <2>3 DEF VerdictIsTruth, BlockingRed
<1> QED BY <1>1, <1>2

\* The verdict printed is red exactly for a blocking red and green exactly when
\* every check was green (ComputeVerdict, report.go:109-132).
THEOREM VerdictIsSound == Spec => []VerdictIsTruth
BY IInvGivesTruth, Invariance, PTL

\* The report shows every stage that ran at its true severity (check.go:103-108).
THEOREM SeverityIsKept == Spec => []TrueSeverity
<1>1. IInv => TrueSeverity
  <2> SUFFICES ASSUME IInv, NEW id \in StageIDs, report[id] \in Severities
               PROVE  report[id] = Worst(results[id])
    BY DEF TrueSeverity
  <2>1. CASE failed
    BY <2>1 DEF IInv, AfterError, StageIDs, Severities, Worst
  <2>2. CASE ~failed
    <3>1. id < stage
      BY <2>2 DEF IInv, TypeOK, Progress, StageIDs, Severities
    <3> QED BY <2>2, <3>1 DEF IInv, Progress, Severities
  <2> QED BY <2>1, <2>2
<1> QED BY <1>1, Invariance, PTL

\* A stage is skipped exactly behind a blocking red (check.go:91-114).
THEOREM SkippingIsJustified == Spec => []SkippedOnlyBehindRed
<1>1. IInv => SkippedOnlyBehindRed
  <2> SUFFICES ASSUME IInv, pc = "printed", ~failed, NEW id \in StageIDs
               PROVE  /\ report[id] # "none"
                      /\ report[id] = "skipped" <=>
                            \E j \in StageIDs : j < id /\ Blocking(j) /\ report[j] = "red"
    BY DEF SkippedOnlyBehindRed
  <2>1. stage = 6 /\ id < stage /\ id \in Before(stage)
    BY DEF IInv, Progress, Before, StageIDs
  <2>2. report[id] # "none"
    BY <2>1 DEF IInv, Progress, Severities
  <2>3. report[id] = "skipped" <=> \E j \in Before(id) : BlockingRed(j)
    BY <2>1 DEF IInv, ShortCircuit
  <2> QED BY <2>2, <2>3 DEF Before, BlockingRed
<1> QED BY <1>1, Invariance, PTL

\* The invariant implies a red verdict without a cluster.
LEMMA IInvGivesNoGo == IInv => NoClusterNoGo
<1> SUFFICES ASSUME IInv, pc = "printed", options.kubeconfig # "ok"
             PROVE  verdict = "red"
  BY DEF NoClusterNoGo
<1>1. CASE failed
  BY <1>1 DEF IInv, AfterError
<1>2. CASE ~failed
  <2>1. stage = 6 /\ options.kubeconfig = "none" /\ 4 \in Before(stage)
    BY <1>2 DEF IInv, TypeOK, Options, Progress, CannotRun, Before, StageIDs
  <2>2. CASE report[4] = "skipped"
    <3>1. \E j \in Before(4) : BlockingRed(j)
      BY <1>2, <2>1, <2>2 DEF IInv, ShortCircuit
    <3>2. Before(4) \subseteq Before(stage)
      BY <2>1 DEF Before, StageIDs
    <3> QED BY <1>2, <3>1, <3>2 DEF IInv, VerdictSoFar
  <2>3. CASE report[4] # "skipped"
    <3>1. results[4] = {"red"}
      BY <1>2, <2>1, <2>3 DEF IInv, NoCluster
    <3>2. report[4] = "red"
      BY <1>2, <2>1, <2>3, <3>1 DEF IInv, Progress, Worst, StageIDs
    <3>3. BlockingRed(4)
      BY <3>2 DEF BlockingRed, Blocking, Provisioned, StageIdentity, StageNetwork
    <3> QED BY <1>2, <2>1, <3>3 DEF IInv, VerdictSoFar
  <2> QED BY <2>2, <2>3
<1> QED BY <1>1, <1>2

\* Without a usable cluster the verdict is red (cmd/preflight/main.go:90-95).
THEOREM NoClusterIsRed == Spec => []NoClusterNoGo
BY IInvGivesNoGo, Invariance, PTL

\* Every step of a run is a step of the gate or none, so what holds of every
\* gate holds of the binary (check.go:78-119, report.go:99-132).
THEOREM RunnerImplementsGate == Spec => ImplementsGate
<1>1. Init => Gate!GateInit
  BY DEF Init, Gating, Informing, Announced, Gate!GateInit
<1>2. IInv /\ VerdictIsTruth' /\ [Next]_vars => [Gate!GateNext]_(Gate!gateVars)
  <2> SUFFICES ASSUME IInv, VerdictIsTruth', [Next]_vars
               PROVE  [Gate!GateNext]_(Gate!gateVars)
    OBVIOUS
  <2>1. ASSUME UNCHANGED <<options, failed, results>>
        PROVE  Gating' = Gating /\ Informing' = Informing
    BY <2>1 DEF Gating, Informing, Blocking
  <2>2. CASE StartStages
    BY <2>1, <2>2 DEF StartStages, Announced, Gate!gateVars
  <2>3. CASE EmitError
    <3>1. Gating = {} /\ Informing = {} /\ Announced = "none"
      BY <2>3 DEF EmitError, IInv, AtFlags, Gating, Informing, Announced
    <3>2. Blocking(0)' /\ (\A id \in StageIDs : Blocking(id)')
      BY <2>3 DEF EmitError, Blocking
    <3>3. results'[0] = {"red"} /\ \A id \in StageIDs : id # 0 => results'[id] = {}
      BY <2>3 DEF EmitError, IInv, TypeOK, AtFlags, StageIDs, StageIdentity
    <3>4. Gating' = {"red"} /\ Informing' = {}
      BY <3>2, <3>3 DEF Gating, Informing, Severities, StageIDs
    <3>5. Announced' = "red"
      BY <2>3 DEF EmitError, Announced
    <3> QED BY <3>1, <3>4, <3>5 DEF Gate!GateNext, Gate!BreakDown
  <2>4. ASSUME NEW s \in Severities, ReportResult(s)
        PROVE  [Gate!GateNext]_(Gate!gateVars)
    <3>1. /\ stage \in StageIDs
          /\ results'[stage] = results[stage] \cup {s}
          /\ \A id \in StageIDs : id # stage => results'[id] = results[id]
          /\ UNCHANGED <<options, failed>>
      BY <2>4 DEF ReportResult, Running, IInv, TypeOK, StageIDs
    <3>2. Announced = "none" /\ Announced' = "none"
      BY <2>4 DEF ReportResult, Running, Announced
    <3>3. CASE Blocking(stage)
      <4>1. Gating' = Gating \cup {s} /\ Informing' = Informing
        BY <3>1, <3>3 DEF Gating, Informing, Blocking
      <4>2. Gate!Find(s)
        BY <3>2, <4>1 DEF Gate!Find
      <4> QED BY <4>2 DEF Gate!GateNext, Gate!Severities, Severities
    <3>4. CASE ~Blocking(stage)
      <4>1. Informing' = Informing \cup {s} /\ Gating' = Gating
        BY <3>1, <3>4 DEF Gating, Informing, Blocking
      <4>2. Gate!Find(s)
        BY <3>2, <4>1 DEF Gate!Find
      <4> QED BY <4>2 DEF Gate!GateNext, Gate!Severities, Severities
    <3> QED BY <3>3, <3>4
  <2>5. CASE EndStage
    BY <2>1, <2>5 DEF EndStage, Running, Announced, Gate!gateVars
  <2>6. CASE SkipStage
    BY <2>1, <2>6 DEF SkipStage, Announced, Gate!gateVars
  <2>7. CASE PrintReport
    <3>1. Gating' = Gating /\ Informing' = Informing /\ Announced = "none"
      BY <2>1, <2>7 DEF PrintReport, Announced
    <3>2. /\ Announced' = verdict /\ verdict \in Severities
          /\ verdict = "red" <=> \E id \in StageIDs : Blocking(id) /\ "red" \in results[id]
          /\ verdict = "green" <=> \A id \in StageIDs : results[id] \subseteq {"green"}
      BY <2>7 DEF PrintReport, Announced, VerdictIsTruth, IInv, TypeOK, Blocking
    <3>3. "red" \in Gating <=> \E id \in StageIDs : Blocking(id) /\ "red" \in results[id]
      BY DEF Gating, Severities
    <3>4. Gating \cup Informing \subseteq {"green"} <=> \A id \in StageIDs : results[id] \subseteq {"green"}
      BY DEF Gating, Informing, IInv, TypeOK
    <3>5. Announced' = Gate!VerdictOf(Gating, Informing)
      BY <3>2, <3>3, <3>4 DEF Gate!VerdictOf, Severities
    <3> QED BY <3>1, <3>5 DEF Gate!GateNext, Gate!Announce
  <2>8. CASE UNCHANGED vars
    BY <2>1, <2>8 DEF vars, Announced, Gate!gateVars
  <2> QED BY <2>2, <2>3, <2>4, <2>5, <2>6, <2>7, <2>8 DEF Next, Check
<1> QED BY <1>1, <1>2, VerdictIsSound, Invariance, PTL DEF Spec, ImplementsGate, Gate!GateSpec
===============================================================================
