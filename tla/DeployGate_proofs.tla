--------------------------- MODULE DeployGate_proofs ---------------------------
(***************************************************************************)
(* The Terraform side of the preflight, for any settings, any cluster and  *)
(* any failing calls.  It only reads the report, so what is proved of the  *)
(* runner and of the checks holds of it; and once the report is printed    *)
(* nothing but the cluster moves, so the plan goes by what was found.      *)
(***************************************************************************)
EXTENDS DeployGate, ClusterChecks_proofs

\* Every step is one of the preflight and its cluster, or leaves them alone.
LEMMA DeployIsCluster == [DeployNext]_<<allVars, deployVars>> => [ClusterNext]_allVars
BY DEF DeployNext, Plan, ApplyPlan

-----------------------------------------------------------------------------

\* The call-by-call preflight, run by Terraform on a cluster that changes,
\* implements the runner (k8sstages.go against check.go and main.go).
THEOREM DeployImplementsRunner == DeploySpec => Init /\ [][Next]_vars
<1>1. DeployInit => Init
  BY DEF DeployInit, ClusterInit
<1> QED BY <1>1, DeployIsCluster, ClusterIsRunner, PTL DEF DeploySpec

\* The invariants of the runner and of the checks, of the whole.
LEMMA DeployKeepsClusterInv == DeploySpec => [](IInv /\ ClusterInv)
<1>1. DeployInit => IInv /\ ClusterInv
  BY InitIInv, InitClusterInv DEF DeployInit, ClusterInit
<1>2. IInv /\ ClusterInv /\ [DeployNext]_<<allVars, deployVars>> => (IInv /\ ClusterInv)'
  BY NextKeepsIInv, NextKeepsClusterInv, ClusterIsRunner, DeployIsCluster
<1> QED BY <1>1, <1>2, PTL DEF DeploySpec

\* The report is printed: only the cluster still moves.
LEMMA AfterPrint ==
    ASSUME ClusterInv, pc = "printed", [ClusterNext]_allVars
    PROVE  UNCHANGED <<vars, found>> /\ Widens
<1>1. ~Running /\ pc # "flags" /\ pc # "stages"
  BY DEF Running
<1>2. ~CheckAction
  BY <1>1, EveryCheckSteps DEF ClusterInv, CheckStep
<1>3. ~CloudCheck /\ ~StageDone /\ ~(StartStages \/ EmitError \/ SkipStage \/ PrintReport)
  BY <1>1 DEF CloudCheck, ReportResult, StageDone, EndStage, StartStages, EmitError, SkipStage,
              PrintReport
<1>4. ASSUME NEW f \in Varying, Change(f) PROVE UNCHANGED <<vars, found>> /\ Widens
  BY <1>4, ChangeKeepsBracket DEF Change, checkVars, ClusterInv
<1>5. CASE UNCHANGED allVars
  BY <1>5 DEF allVars, clusterVars, probeVars, checkVars, Widens
<1> QED BY <1>2, <1>3, <1>4, <1>5 DEF ClusterNext, Preflight, CheckAction

-----------------------------------------------------------------------------
(* The plan.                                                                *)

\* A plan that went ahead has a printed report that passed the postcondition and
\* the tier the report gave it.
DeployInv ==
    /\ settings \in Settings
    /\ terraform \in {"planning", "blocked", "crashed", "rejected", "planned", "applied", "failed"}
    /\ tier \in {"", "A", "B", "RED"}
    /\ GoesAhead =>
          /\ pc = "printed" /\ ~(settings.fail_on_red /\ verdict = "red")
          /\ tier \in {"A", "B"} /\ tier = InstallTierOut

LEMMA InitDeployInv == DeployInit => DeployInv
BY DEF DeployInit, DeployInv, GoesAhead

\* The preflight runs, the cluster changes.
LEMMA ClusterKeepsDeployInv ==
    ASSUME ClusterInv, DeployInv, [ClusterNext]_allVars, UNCHANGED deployVars
    PROVE  DeployInv'
<1>1. UNCHANGED <<settings, terraform, tier>>
  BY DEF deployVars
<1>2. CASE GoesAhead
  <2>1. pc = "printed"
    BY <1>2 DEF DeployInv
  <2>2. UNCHANGED <<pc, verdict, found>>
    BY <2>1, AfterPrint DEF vars
  <2> QED BY <1>1, <2>2 DEF DeployInv, GoesAhead, InstallTierOut, DerivedTier
<1>3. CASE ~GoesAhead
  BY <1>1, <1>3 DEF DeployInv, GoesAhead
<1> QED BY <1>2, <1>3

LEMMA PlanKeepsDeployInv == ASSUME DeployInv, Plan PROVE DeployInv'
<1>1. UNCHANGED <<settings, pc, verdict, found>> /\ pc = "printed"
  BY DEF Plan, allVars, vars, checkVars
<1>2. InstallTierOut' = InstallTierOut
  BY <1>1 DEF InstallTierOut, DerivedTier
<1>3. \/ terraform' = "blocked" /\ tier' = tier
      \/ terraform' = "crashed" /\ tier' = tier
      \/ terraform' = "rejected" /\ tier' = InstallTierOut
      \/ /\ terraform' = "planned" /\ tier' = InstallTierOut /\ InstallTierOut \in {"A", "B"}
         /\ Postcondition
  BY DEF Plan
<1>4. InstallTierOut \in {"A", "B", "RED"}
  BY DEF InstallTierOut, DerivedTier, DeployInv, Settings
<1> QED BY <1>1, <1>2, <1>3, <1>4 DEF DeployInv, GoesAhead, Postcondition

LEMMA ApplyKeepsDeployInv == ASSUME DeployInv, ApplyPlan PROVE DeployInv'
<1>1. /\ GoesAhead /\ terraform' \in {"applied", "failed"}
      /\ UNCHANGED <<settings, tier, pc, verdict, found>>
  BY DEF ApplyPlan, GoesAhead, allVars, vars, checkVars
<1>2. InstallTierOut' = InstallTierOut
  BY <1>1 DEF InstallTierOut, DerivedTier
<1> QED BY <1>1, <1>2 DEF DeployInv, GoesAhead

\* The invariant the theorems rest on.
LEMMA DeployInvariance == DeploySpec => []DeployInv
<1>1. ClusterInv /\ DeployInv /\ [DeployNext]_<<allVars, deployVars>> => DeployInv'
  <2> SUFFICES ASSUME ClusterInv, DeployInv, [DeployNext]_<<allVars, deployVars>>
               PROVE  DeployInv'
    OBVIOUS
  <2>1. CASE Plan
    BY <2>1, PlanKeepsDeployInv
  <2>2. CASE ApplyPlan
    BY <2>2, ApplyKeepsDeployInv
  <2>3. CASE [ClusterNext]_allVars /\ UNCHANGED deployVars
    BY <2>3, ClusterKeepsDeployInv
  <2> QED BY <2>1, <2>2, <2>3 DEF DeployNext
<1> QED BY <1>1, InitDeployInv, DeployKeepsClusterInv, PTL DEF DeploySpec

-----------------------------------------------------------------------------
(* The theorems.                                                            *)

\* Terraform keeps its types: only a printed report is planned on, and only a
\* tier the workload module accepts (modules/preflight/main.tf:25-66).
THEOREM DeployTypeCorrect == DeploySpec => []DeployTypeOK
<1>1. DeployInv => DeployTypeOK
  BY DEF DeployInv, DeployTypeOK, GoesAhead
<1> QED BY <1>1, DeployInvariance, PTL

\* With fail_on_red no plan goes ahead over a blocking red finding, without a
\* cluster or after an error (modules/preflight/main.tf:25-32).
THEOREM RedIsStopped == DeploySpec => []RedNeverDeploys
<1>1. IInv /\ DeployInv => RedNeverDeploys
  <2> SUFFICES ASSUME IInv, DeployInv, settings.fail_on_red, GoesAhead
               PROVE  /\ \A id \in StageIDs : Blocking(id) => "red" \notin results[id]
                      /\ options.kubeconfig = "ok" /\ ~failed
    BY DEF RedNeverDeploys
  <2>1. pc = "printed" /\ verdict # "red"
    BY DEF DeployInv
  <2>2. failed => verdict = "red"
    BY DEF IInv, AfterError
  <2> QED BY <2>1, <2>2, IInvGivesTruth, IInvGivesNoGo DEF VerdictIsTruth, NoClusterNoGo
<1> QED BY <1>1, DeployInvariance, DeployKeepsClusterInv, PTL

\* The install tier that Terraform reads is what the identity may do, whenever it
\* reads it (k8sstages.go:383-418, modules/preflight/main.tf:53-66).
THEOREM DeployedTierIsHonest == DeploySpec => []TierIsHonest
BY InvGivesTier, DeployKeepsClusterInv, PTL

\* The tier of a plan is one whose reviewed rights were held during the run, unless
\* it is forced; without a result, and so without a review, a plan goes ahead only
\* with fail_on_red off (k8sstages.go:383-418, modules/preflight/main.tf:53-66).
THEOREM PlanKnowsItsTier == DeploySpec => []PlannedTierWasHeld
<1>1. IInv /\ ClusterInv /\ DeployInv => PlannedTierWasHeld
  <2> SUFFICES ASSUME IInv, ClusterInv, DeployInv, GoesAhead, settings.install_tier_override = ""
               PROVE  IF found["k8s.installtier"] = "none"
                      THEN tier = "B" /\ ~settings.fail_on_red
                      ELSE Reviewed(tier) \subseteq ever
    BY DEF PlannedTierWasHeld
  <2>1. /\ pc = "printed" /\ ~(settings.fail_on_red /\ verdict = "red")
        /\ tier = DerivedTier /\ DerivedTier \in {"A", "B"}
    BY DEF DeployInv, InstallTierOut
  <2>2. found["k8s.installtier"] \in Severities \cup {"none"}
    BY DEF ClusterInv, ClusterTypeOK, ResultIDs
  <2>3. CASE found["k8s.installtier"] = "none"
    <3>1. tier = "B"
      BY <2>1, <2>3 DEF DerivedTier
    <3>2. verdict # "red" => Printed
      BY <2>1 DEF IInv, AfterError, Printed
    <3>3. verdict # "red" => found["k8s.installtier"] \in {"green", "amber"}
      BY <3>2, GoMeansResults DEF OnCluster, ResultIDs, CanaryParts
    <3> QED BY <2>1, <2>3, <3>1, <3>3
  <2>4. CASE found["k8s.installtier"] # "none"
    <3>1. \/ found["k8s.installtier"] = "green" /\ tier = "A"
          \/ found["k8s.installtier"] = "amber" /\ tier = "B"
      BY <2>1, <2>2, <2>4 DEF DerivedTier, Severities
    <3> QED BY <2>4, <3>1, InvGivesTier DEF TierIsHonest, Reviewed
  <2> QED BY <2>3, <2>4
<1> QED BY <1>1, DeployInvariance, DeployKeepsClusterInv, PTL
===============================================================================
