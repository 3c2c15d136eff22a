------------------------------ MODULE DeployGate -------------------------------
(***************************************************************************)
(* The Terraform side of the preflight (modules/preflight) and the install *)
(* tier it hands to modules/workload: the report gates the plan, the plan  *)
(* is applied later, on the cluster as it is then, and needs more than the *)
(* preflight has asked for.                                                *)
(***************************************************************************)
EXTENDS ClusterChecks

VARIABLES
    settings,   \* the preflight module's variables
    terraform,  \* how far the plan and the apply have come
    tier        \* install_tier of the plan

deployVars == <<settings, terraform, tier>>

Settings == [fail_on_red : BOOLEAN, install_tier_override : {"", "A", "B"}]

DeployTypeOK ==
    /\ settings \in Settings
    /\ terraform \in {"planning", "blocked", "crashed", "rejected", "planned", "applied", "failed"}
    /\ tier \in {"", "A", "B", "RED"}
    /\ terraform \in {"planned", "applied", "failed"} => pc = "printed" /\ tier \in {"A", "B"}

\* variable "mode" is validated before the binary runs.
DeployInit ==
    /\ ClusterInit
    /\ options.mode # "unknown"
    /\ settings \in Settings
    /\ terraform = "planning"
    /\ tier = ""

-----------------------------------------------------------------------------

BugPostcondition == settings.fail_on_red => found["k8s.installtier"] # "red"

\* The data source's postcondition.
Postcondition == ~(settings.fail_on_red /\ verdict = "red")

\* A skipped stage is in the report without a list of results: local.stage4 is
\* not null and "for r in local.stage4.results" iterates over null.
ResultsAreNull == report[StageKubernetes] = "skipped"

BugDerivedTierFloor ==
    IF found["k8s.installtier"] = "green" THEN "A" ELSE "B"

DerivedTier ==
    CASE found["k8s.installtier"] = "green" -> "A"
      [] found["k8s.installtier"] = "red"   -> "RED"
      [] OTHER                              -> "B"

InstallTierOut ==
    IF settings.install_tier_override # "" THEN settings.install_tier_override ELSE DerivedTier

BugPlanUnvalidated ==
    /\ pc = "printed"
    /\ terraform = "planning"
    /\ tier' = IF Postcondition /\ ~ResultsAreNull THEN InstallTierOut ELSE tier
    /\ terraform' = IF ~Postcondition THEN "blocked"
                    ELSE IF ResultsAreNull THEN "crashed" ELSE "planned"
    /\ UNCHANGED <<allVars, settings>>

\* terraform plan: the postcondition, the locals, then the validation of
\* install_tier in modules/workload.
Plan ==
    /\ pc = "printed"
    /\ terraform = "planning"
    /\ tier' = IF Postcondition /\ ~ResultsAreNull THEN InstallTierOut ELSE tier
    /\ terraform' = IF ~Postcondition THEN "blocked"
                    ELSE IF ResultsAreNull THEN "crashed"
                    ELSE IF InstallTierOut \notin {"A", "B"} THEN "rejected"
                    ELSE "planned"
    /\ UNCHANGED <<allVars, settings>>

\* Of the facts, those without which a first install of the tier cannot succeed:
\* the chart's Deployment and NetworkPolicy.  The Workload of Tier A needs none.
CannotDoWithout(t) == IF t = "B" THEN {CreateDeployments, "networking.k8s.io"} ELSE {}

\* terraform apply of the plan, the first one.  It may always fail: no review has
\* asked for the rights to write the Workload (Tier A) or the release secrets, the
\* Service, HPA, PDB and NetworkPolicy (Tier B), and the wait for Ready or for the
\* release may run out.
ApplyPlan ==
    /\ terraform = "planned"
    /\ \/ terraform' = "applied" /\ CannotDoWithout(tier) \subseteq facts
       \/ terraform' = "failed"
    /\ UNCHANGED <<allVars, settings, tier>>

DeployNext ==
    \/ ClusterNext /\ UNCHANGED deployVars
    \/ Plan
    \/ ApplyPlan

DeploySpec == DeployInit /\ [][DeployNext]_<<allVars, deployVars>>

-----------------------------------------------------------------------------
(* Properties.                                                              *)

GoesAhead == terraform \in {"planned", "applied", "failed"}

\* While fail_on_red holds no plan survives a red finding of a stage that gates,
\* a run without a cluster, or an error of the binary (modules/preflight/main.tf:
\* 25-32, cmd/preflight/main.go:54-65, 90-95).
RedNeverDeploys ==
    settings.fail_on_red /\ GoesAhead =>
        /\ \A id \in StageIDs : Blocking(id) => "red" \notin results[id]
        /\ options.kubeconfig = "ok" /\ ~failed

\* The rights whose reviews make the preflight report tier t.
Reviewed(t) == IF t = "A" THEN {CreateCRDs, CreateClusterRoles} ELSE {CreateDeployments}

\* The tier of a plan was not made up: unless it is forced, the rights that stand
\* for it were held during the run, also with fail_on_red off, where an identity
\* that can deploy nothing must not slip through as Tier B.  Only then does the
\* floor for a missing result decide (modules/preflight/main.tf:53-66,
\* docs/operations/common/preflight.md:106-111).  It says nothing of the apply.
PlannedTierWasHeld ==
    GoesAhead /\ settings.install_tier_override = "" =>
        IF found["k8s.installtier"] = "none"
        THEN tier = "B" /\ ~settings.fail_on_red
        ELSE Reviewed(tier) \subseteq ever

\* "a malformed report falls through to the floor below instead of crashing the
\* plan" (modules/preflight/main.tf:42-44).
ReportNeverCrashesThePlan == terraform # "crashed"
===============================================================================
