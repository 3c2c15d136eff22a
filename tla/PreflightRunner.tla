--------------------------- MODULE PreflightRunner ----------------------------
(***************************************************************************)
(* One execution of the preflight binary (operator/cmd/preflight, run and  *)
(* main; operator/internal/preflight, Runner).  What a check returns is    *)
(* left open here; module ClusterChecks says it for stages 4 and 5.        *)
(*                                                                         *)
(* StageStatus and ComputeVerdict fold a list in order with Worse, from    *)
(* green.  The folds are taken one element at a time, as the elements      *)
(* arrive: status is StageStatus of the results of the current stage so    *)
(* far, verdict is ComputeVerdict of the stages reported so far.           *)
(***************************************************************************)
EXTENDS PreflightReport

VARIABLES
    options,    \* the command line: mode, provider and kubeconfig
    pc,         \* "flags", "stages", then "printed"
    failed,     \* run returned an error: emitError wrote the report
    stage,      \* the stage being run, 6 after the last
    results,    \* per stage: the severities its checks returned
    status,     \* StageStatus of results[stage]
    report,     \* per stage: Stage.Status, "none" when not in the report
    shortCircuited,
    verdict     \* ComputeVerdict of the report

vars == <<options, pc, failed, stage, results, status, report, shortCircuited, verdict>>

Options == [mode       : {"agnostic", "full", "unknown"},
            provider   : {"ok", "error"},     \* selectProvider
            kubeconfig : {"none", "broken", "ok"}]

TypeOK ==
    /\ options \in Options
    /\ pc \in {"flags", "stages", "printed"}
    /\ failed \in BOOLEAN
    /\ stage \in 0..6
    /\ results \in [StageIDs -> SUBSET Severities]
    /\ status \in Severities
    /\ report \in [StageIDs -> Statuses \cup {"none"}]
    /\ shortCircuited \in BOOLEAN
    /\ verdict \in Severities

Init ==
    /\ options \in Options
    /\ pc = "flags"
    /\ failed = FALSE
    /\ stage = 0
    /\ results = [id \in StageIDs |-> {}]
    /\ status = "green"
    /\ report = [id \in StageIDs |-> "none"]
    /\ shortCircuited = FALSE
    /\ verdict = "green"

-----------------------------------------------------------------------------

\* Stages 0..3 are provisioned by the same apply in full mode.
Provisioned == StageIdentity..StageNetwork

\* The stage emitError reports is blocking whatever the mode.
Blocking(id) == failed \/ ~(options.mode = "full" /\ id \in Provisioned)

\* run gives up before any check: provider, clients or mode cannot be had.
CannotRun ==
    \/ options.provider = "error"
    \/ options.kubeconfig = "broken"
    \/ options.mode = "unknown"

StartStages ==
    /\ pc = "flags"
    /\ ~CannotRun
    /\ pc' = "stages"
    /\ UNCHANGED <<options, failed, stage, results, status, report, shortCircuited, verdict>>

BugErrorExits ==
    /\ pc = "flags"
    /\ CannotRun
    /\ pc' = "exited"
    /\ UNCHANGED <<options, failed, stage, results, status, report, shortCircuited, verdict>>

\* emitError: a report of one blocking red stage, with a red verdict.
EmitError ==
    /\ pc = "flags"
    /\ CannotRun
    /\ pc' = "printed"
    /\ failed' = TRUE
    /\ results' = [results EXCEPT ![StageIdentity] = {"red"}]
    /\ report' = [report EXCEPT ![StageIdentity] = "red"]
    /\ verdict' = "red"
    /\ UNCHANGED <<options, stage, status, shortCircuited>>

\* What a check of stage id may return.  Without a kubeconfig stage 4 has one
\* check, which is red, and stage 5 has none.
MayReturn(id, s) ==
    options.kubeconfig = "none" =>
        CASE id = StageKubernetes -> s = "red"
          [] id = StageWorkload   -> FALSE
          [] OTHER                -> TRUE

BugSilentSkip(id) == TRUE

\* The checks of stage id have all run.
Complete(id) ==
    options.kubeconfig = "none" /\ id = StageKubernetes => results[id] # {}

Running == pc = "stages" /\ stage < 6 /\ ~shortCircuited

\* A check of the current stage returns one more result.
ReportResult(s) ==
    /\ Running
    /\ MayReturn(stage, s)
    /\ results' = [results EXCEPT ![stage] = @ \cup {s}]
    /\ status' = Worse(status, s)
    /\ UNCHANGED <<options, pc, failed, stage, report, shortCircuited, verdict>>

BugStopsAtAnyRed ==
    /\ Running
    /\ Complete(stage)
    /\ report' = [report EXCEPT ![stage] = status]
    /\ shortCircuited' = (status = "red")
    /\ verdict' = Worse(verdict, Effective(Blocking(stage), status))
    /\ stage' = stage + 1
    /\ status' = "green"
    /\ UNCHANGED <<options, pc, failed, results>>

\* The stage is over: its status enters the report; a blocking red stops the
\* stages that follow.
EndStage ==
    /\ Running
    /\ Complete(stage)
    /\ report' = [report EXCEPT ![stage] = status]
    /\ shortCircuited' = (Blocking(stage) /\ status = "red")
    /\ verdict' = Worse(verdict, Effective(Blocking(stage), status))
    /\ stage' = stage + 1
    /\ status' = "green"
    /\ UNCHANGED <<options, pc, failed, results>>

BugSkipOffByOne ==
    /\ pc = "stages"
    /\ stage <= 6
    /\ shortCircuited
    /\ report' = [report EXCEPT ![stage] = "skipped"]
    /\ verdict' = Worse(verdict, Effective(Blocking(stage), "skipped"))
    /\ stage' = stage + 1
    /\ UNCHANGED <<options, pc, failed, results, status, shortCircuited>>

SkipStage ==
    /\ pc = "stages"
    /\ stage < 6
    /\ shortCircuited
    /\ report' = [report EXCEPT ![stage] = "skipped"]
    /\ verdict' = Worse(verdict, Effective(Blocking(stage), "skipped"))
    /\ stage' = stage + 1
    /\ UNCHANGED <<options, pc, failed, results, status, shortCircuited>>

\* emit: the report goes to stdout.
PrintReport ==
    /\ pc = "stages"
    /\ stage = 6
    /\ pc' = "printed"
    /\ UNCHANGED <<options, failed, stage, results, status, report, shortCircuited, verdict>>

Check == \E s \in Severities : ReportResult(s)

Next == StartStages \/ EmitError \/ Check \/ EndStage \/ SkipStage \/ PrintReport

\* The process keeps running and every check returns.
Spec == Init /\ [][Next]_vars /\ WF_vars(Next)

-----------------------------------------------------------------------------
(* Properties.                                                              *)

\* The verdict is red exactly when a check of a blocking stage came back red,
\* and green exactly when every check came back green: an informational red is
\* masked to amber and never hidden, a stage that did not run decides nothing
\* (report.go:109-132, check.go:54-64).
VerdictIsTruth ==
    pc = "printed" =>
        /\ verdict = "red" <=> \E id \in StageIDs : Blocking(id) /\ "red" \in results[id]
        /\ verdict = "green" <=> \A id \in StageIDs : results[id] \subseteq {"green"}

\* The report keeps every stage at its true severity, in both modes and also
\* behind an informational red (check.go:103-108).
TrueSeverity ==
    \A id \in StageIDs : report[id] \in Severities => report[id] = Worst(results[id])

\* A complete report has six stages, and one is skipped exactly when a blocking
\* stage before it is red: in full mode the deploy target, stage 4, always runs
\* (check.go:62-64, 91-114).
SkippedOnlyBehindRed ==
    pc = "printed" /\ ~failed =>
        \A id \in StageIDs :
            /\ report[id] # "none"
            /\ report[id] = "skipped" <=>
                  \E j \in StageIDs : j < id /\ Blocking(j) /\ report[j] = "red"

\* Without a usable cluster the verdict is red, in every mode: never a false go
\* from stages that did not run (cmd/preflight/main.go:90-95, 54-65).
NoClusterNoGo == pc = "printed" /\ options.kubeconfig # "ok" => verdict = "red"

\* The binary always prints a report: on every option and every error
\* (cmd/preflight/main.go:4-9).
AlwaysPrints == <>(pc = "printed")

\* What the binary shows to its caller.
Gating    == {s \in Severities : \E id \in StageIDs : Blocking(id) /\ s \in results[id]}
Informing == {s \in Severities : \E id \in StageIDs : ~Blocking(id) /\ s \in results[id]}
Announced == IF pc = "printed" THEN verdict ELSE "none"

Gate == INSTANCE PreflightGate WITH
    gating <- Gating, informing <- Informing, announced <- Announced

\* The stages, the short circuit and the two folds implement the gate: the
\* verdict is the one its findings call for, it is announced once and nothing is
\* found afterwards (check.go:78-119, report.go:99-132).
ImplementsGate == Gate!GateSpec
===============================================================================
