---------------------------- MODULE ClusterChecks -----------------------------
(***************************************************************************)
(* Stages 4 and 5 of the preflight, call by call                           *)
(* (operator/internal/preflight/k8sstages.go), inside the run of module    *)
(* PreflightRunner.  The cluster and the rights of the deploy identity are *)
(* the facts of module Probes, and the control-plane version.              *)
(***************************************************************************)
EXTENDS PreflightRunner, Probes, Sequences

CONSTANTS
    Given,          \* facts true of every cluster of the instance
    Varying,        \* facts that may be true or not, and may change
    Versions,       \* control-plane versions, <<major, minor>>
    Unparsable,     \* the version of a cluster whose version does not parse
    NoVersion,      \* no answer to a question for the version
    CloudStages,    \* the stages 0..3 whose checks return something
    CloudResults    \* what they may return

VARIABLES
    version,    \* the cluster's control-plane version now
    check,      \* position of the running check in its stage's list
    answers,    \* what the calls of the running check have returned
    found       \* per result ID: its severity, "none" when not in the report

clusterVars == <<probeVars, version>>
checkVars   == <<check, answers, found>>
allVars     == <<vars, clusterVars, checkVars>>

CreateCRDs         == "create customresourcedefinitions"
CreateClusterRoles == "create clusterroles"
CreateDeployments  == "create deployments"
CreateSAs          == "create serviceaccounts"
CreateNamespaces   == "create namespaces"
Rollouts           == "Rollout"             \* the Rollout CRD is installed
RolloutVersion     == "Rollout v1alpha1"    \* it serves v1alpha1; read with Rollouts
SA                 == "ServiceAccount"      \* the workload's ServiceAccount exists
Annotation         == "identity annotation" \* it is annotated; read with SA
Namespace          == "Namespace"
MeshGroups == <<"networking.istio.io", "split.smi-spec.io", "gateway.networking.k8s.io">>

Facts == {CreateCRDs, CreateClusterRoles, CreateDeployments, CreateSAs, CreateNamespaces,
          "networking.k8s.io", "metrics.k8s.io", "cilium.io", "IngressClass",
          Rollouts, RolloutVersion, SA, Annotation, Namespace}
         \cup {MeshGroups[i] : i \in 1..3}

ASSUME ClusterConstants ==
    /\ Given \subseteq Facts /\ Varying \subseteq Facts
    /\ Versions \subseteq Nat \X Nat
    /\ {Unparsable, NoVersion} \cap Versions = {} /\ Unparsable # NoVersion
    /\ CloudStages \subseteq StageIDs \ {StageKubernetes, StageWorkload}
    /\ CloudResults \subseteq Severities

ResultIDs == {"k8s.unreachable", "k8s.networkpolicy", "k8s.cilium", "k8s.metricsserver",
              "k8s.minversion", "k8s.podsecurity", "k8s.installtier", "k8s.workloadidentity",
              "k8s.argorollouts", "k8s.argorollouts.version", "k8s.argorollouts.traffic",
              "workload.namespace", "workload.image"}

\* The checks of stages 4 and 5 in the order they run.
Checks(id) ==
    CASE id = StageKubernetes /\ options.kubeconfig = "none" -> <<"unreachable">>
      [] id = StageKubernetes /\ options.kubeconfig # "none" ->
            <<"networkpolicy", "cilium", "metricsserver", "minversion", "podsecurity",
              "installtier", "workloadidentity", "argorollouts", "argoversion", "argotraffic">>
      [] id = StageWorkload /\ options.kubeconfig # "none" -> <<"namespace", "image">>
      [] OTHER -> <<>>

ClusterTypeOK ==
    /\ ProbesTypeOK(Facts)
    /\ version \in Versions \cup {Unparsable}
    /\ check \in 1..11
    /\ answers \in {<<>>, <<"no">>, <<"yes">>, <<"no", "no">>, <<"no", "yes">>,
                    <<"yes", "no">>, <<"yes", "yes">>, <<"no", "no", "no">>}
    /\ found \in [ResultIDs -> Severities \cup {"none"}]

ClusterInit ==
    /\ Init
    /\ \E S \in SUBSET Varying : StartWith(Given \cup S)
    /\ version \in Versions \cup {Unparsable}
    /\ check = 1
    /\ answers = <<>>
    /\ found = [id \in ResultIDs |-> "none"]

-----------------------------------------------------------------------------
(* The cluster.                                                             *)

\* A right is granted or revoked, an object comes or goes, an API is installed.
Change(f) == Flip(f) /\ UNCHANGED <<vars, version, checkVars>>

\* What a call asking for f may return.
Reply(f) == {IF f \in facts THEN "yes" ELSE "no"} \cup {e \in {"error"} : May}

\* What Discovery().ServerVersion() may return.
VersionReply == {version} \cup {e \in {NoVersion} : May}

-----------------------------------------------------------------------------
(* The checks.                                                              *)

\* The running check is c.
At(c) ==
    /\ Running
    /\ check <= Len(Checks(stage))
    /\ Checks(stage)[check] = c

\* A call of the check has returned; it may have failed.
Called(failing) == Probed(failing) /\ UNCHANGED version

\* The check ends with severity s for result id; the run goes on with the check
\* at position next, which knows the answers kept.
ReturnTo(id, s, next, kept) ==
    /\ ReportResult(s)
    /\ found' = [found EXCEPT ![id] = s]
    /\ check' = next
    /\ answers' = kept

Return(id, s) == ReturnTo(id, s, check + 1, <<>>)

\* The check goes on with another call.
Continue(r) ==
    /\ answers' = Append(answers, r)
    /\ UNCHANGED <<vars, check, found>>

\* A check of one call: is f true of the cluster?
AskOnce(c, f, id, otherwise) ==
    At(c) /\ \E r \in Reply(f) :
        Called(r = "error") /\ Return(id, IF r = "yes" THEN "green" ELSE otherwise)

\* No kubeconfig: no client and no call.
Unreachable == At("unreachable") /\ Called(FALSE) /\ Return("k8s.unreachable", "red")

NetworkPolicy == AskOnce("networkpolicy", "networking.k8s.io", "k8s.networkpolicy", "red")
Cilium        == AskOnce("cilium", "cilium.io", "k8s.cilium", "amber")
MetricsServer == AskOnce("metricsserver", "metrics.k8s.io", "k8s.metricsserver", "amber")

BugBelowEither(v, major, minor) == v[1] < major \/ v[2] < minor
BugBelowBoth(v, major, minor)   == v[1] < major /\ v[2] < minor

\* Version v is older than major.minor.
Below(v, major, minor) == v[1] < major \/ (v[1] = major /\ v[2] < minor)

MinVersion ==
    At("minversion") /\ \E v \in VersionReply :
        /\ Called(v = NoVersion)
        /\ Return("k8s.minversion",
                  CASE v = NoVersion  -> "red"
                    [] v = Unparsable -> "amber"
                    [] OTHER          -> IF Below(v, 1, 26) THEN "red" ELSE "green")

PodSecurity ==
    At("podsecurity") /\ \E v \in VersionReply :
        /\ Called(v = NoVersion)
        /\ Return("k8s.podsecurity",
                  IF v \in {NoVersion, Unparsable} \/ Below(v, 1, 25) THEN "amber" ELSE "green")

BugTier(canCRD, canClusterRole, canDeploy) ==
    CASE canCRD = "yes" \/ canClusterRole = "yes" -> "green"
      [] canCRD = "no" /\ canClusterRole = "no"   -> IF canDeploy = "yes" THEN "amber" ELSE "red"

\* Tier A needs both cluster-wide rights, Tier B the Deployment.
Tier(canCRD, canClusterRole, canDeploy) ==
    IF canCRD = "yes" /\ canClusterRole = "yes" THEN "green"
    ELSE IF canDeploy = "yes" THEN "amber" ELSE "red"

InstallTier ==
    /\ At("installtier")
    /\ \E r \in Reply(<<CreateCRDs, CreateClusterRoles, CreateDeployments>>[Len(answers) + 1]) :
        /\ Called(r = "error")
        /\ CASE r = "error"                     -> Return("k8s.installtier", "red")
             [] r # "error" /\ Len(answers) < 2 -> Continue(r)
             [] OTHER -> Return("k8s.installtier", Tier(answers[1], answers[2], r))

\* The ServiceAccount exists, annotated or not; or it can be created.
WorkloadIdentity ==
    /\ At("workloadidentity")
    /\ \E r \in Reply(IF answers = <<>> THEN SA ELSE CreateSAs) :
        /\ Called(r = "error")
        /\ CASE r = "error" -> Return("k8s.workloadidentity", "amber")
             [] r = "yes"   -> Return("k8s.workloadidentity",
                                      IF answers # <<>> \/ Annotation \in facts
                                      THEN "green" ELSE "amber")
             [] OTHER       -> IF answers = <<>> THEN Continue(r)
                               ELSE Return("k8s.workloadidentity", "red")

BugRolloutsAbsentGoesOn ==
    /\ At("argorollouts")
    /\ \E r \in Reply(Rollouts) :
        /\ Called(r = "error")
        /\ ReturnTo("k8s.argorollouts", IF r = "yes" THEN "green" ELSE "amber",
                    IF r = "error" THEN check + 3 ELSE check + 1,
                    <<IF RolloutVersion \in facts THEN "yes" ELSE "no">>)

\* One list answers two questions; absence ends the three-part check.
ArgoRollouts ==
    /\ At("argorollouts")
    /\ \E r \in Reply(Rollouts) :
        /\ Called(r = "error")
        /\ IF r = "yes"
           THEN ReturnTo("k8s.argorollouts", "green", check + 1,
                         <<IF RolloutVersion \in facts THEN "yes" ELSE "no">>)
           ELSE ReturnTo("k8s.argorollouts", "amber", check + 3, <<>>)

ArgoVersion ==
    /\ At("argoversion")
    /\ Called(FALSE)
    /\ Return("k8s.argorollouts.version", IF answers = <<"yes">> THEN "green" ELSE "amber")

\* Any one primitive will do; a list that fails is passed over.
ArgoTraffic ==
    /\ At("argotraffic")
    /\ \E r \in Reply(Append(MeshGroups, "IngressClass")[Len(answers) + 1]) :
        /\ Called(r = "error")
        /\ CASE r = "yes" -> Return("k8s.argorollouts.traffic", "green")
             [] r # "yes" /\ Len(answers) < 3 -> Continue("no")
             [] OTHER -> Return("k8s.argorollouts.traffic", "amber")

BugNamespaceAnyError ==
    /\ At("namespace")
    /\ \E r \in Reply(IF answers = <<>> THEN Namespace ELSE CreateNamespaces) :
        /\ Called(r = "error")
        /\ CASE r = "yes" -> Return("workload.namespace", "green")
             [] r # "yes" -> IF answers = <<>> THEN Continue(r)
                             ELSE Return("workload.namespace", "red")

\* The namespace exists or can be created.
NamespaceCreatable ==
    /\ At("namespace")
    /\ \E r \in Reply(IF answers = <<>> THEN Namespace ELSE CreateNamespaces) :
        /\ Called(r = "error")
        /\ CASE r = "yes"   -> Return("workload.namespace", "green")
             [] r = "error" -> Return("workload.namespace", "red")
             [] OTHER       -> IF answers = <<>> THEN Continue(r)
                               ELSE Return("workload.namespace", "red")

ImagePullable == At("image") /\ Called(FALSE) /\ Return("workload.image", "amber")

-----------------------------------------------------------------------------
(* The run.                                                                 *)

\* A check of stages 0..3 returns.
CloudCheck ==
    /\ stage \in CloudStages
    /\ \E s \in CloudResults : ReportResult(s)
    /\ UNCHANGED <<clusterVars, checkVars>>

\* A stage ends when the last of its checks has returned.
StageDone ==
    /\ check > Len(Checks(stage))
    /\ EndStage
    /\ check' = 1
    /\ UNCHANGED <<clusterVars, answers, found>>

Preflight ==
    \/ (StartStages \/ EmitError \/ SkipStage \/ PrintReport) /\ UNCHANGED <<clusterVars, checkVars>>
    \/ CloudCheck
    \/ Unreachable
    \/ NetworkPolicy \/ Cilium \/ MetricsServer
    \/ MinVersion \/ PodSecurity
    \/ InstallTier
    \/ WorkloadIdentity
    \/ ArgoRollouts \/ ArgoVersion \/ ArgoTraffic
    \/ NamespaceCreatable \/ ImagePullable
    \/ StageDone

ClusterNext == Preflight \/ \E f \in Varying : Change(f)

ClusterSpec == ClusterInit /\ [][ClusterNext]_allVars /\ WF_allVars(Preflight)

-----------------------------------------------------------------------------
(* Properties.  ever and always bracket what a call can have seen.          *)

Printed == pc = "printed" /\ ~failed

\* What a deploy needs of the rights and objects in S.
Deployable(S) ==
    /\ "networking.k8s.io" \in S
    /\ {CreateCRDs, CreateClusterRoles} \subseteq S \/ CreateDeployments \in S
    /\ Namespace \in S \/ CreateNamespaces \in S

HasIdentity(S) == SA \in S \/ CreateSAs \in S

\* A verdict that lets the deploy go on is backed by the cluster: each
\* prerequisite held at some time of the run, and only the identity check
\* forgives a call that failed (k8sstages.go:284-304, 348-446).  The version is
\* measured by the binary's own floor, 1.26, where a newer major passes with any
\* minor and an older one with none (k8sstages.go:297); the range that a BOM
\* claims, >=1.30 <=1.34 (release/bom.template.yaml:35), is not looked at by any check.
NoFalseGo ==
    Printed /\ verdict # "red" =>
        /\ version \in Versions => version[1] > 1 \/ (version[1] = 1 /\ version[2] >= 26)
        /\ Deployable(ever)
        /\ HasIdentity(ever) \/ found["k8s.workloadidentity"] = "amber"

\* A red verdict has a reason: a failed call, a red cloud stage that gates, or a
\* prerequisite that was missing at some time of the run; a missing extra (CNI,
\* metrics-server, Argo Rollouts, identity annotation) never stops a deploy
\* (k8sstages.go:162-261, docs/operations/common/preflight.md:95).
NoFalseAlarm ==
    /\ Printed
    /\ options.kubeconfig = "ok"
    /\ errors = 0
    /\ \A id \in Provisioned : Blocking(id) => "red" \notin results[id]
    /\ Deployable(always) /\ HasIdentity(always)
    /\ version \in Versions => version[1] > 1 \/ (version[1] = 1 /\ version[2] >= 26)
    => verdict # "red"

\* The install tier is what the identity may do, although the three reviews are
\* three calls: green only with both cluster-wide rights, amber only without one
\* of them, red only when nothing can be deployed or a review failed
\* (k8sstages.go:383-418).
TierIsHonest ==
    LET pair == {CreateCRDs, CreateClusterRoles}
        tier == found["k8s.installtier"]
    IN  /\ tier = "green" => pair \subseteq ever
        /\ tier = "amber" => CreateDeployments \in ever /\ ~(pair \subseteq always)
        /\ tier = "red" => errors > 0 \/ ~(pair \subseteq always \/ CreateDeployments \in always)

\* The three parts of the canary check hang together: version and traffic are
\* reported exactly when Argo Rollouts is there, a traffic primitive is never
\* made up, and without failing calls none is overlooked (k8sstages.go:199-261).
CanaryIsHonest ==
    LET primitives == {MeshGroups[i] : i \in 1..3} \cup {"IngressClass"}
        Part(id) == found[id]
    IN  /\ report[StageKubernetes] \in Severities /\ options.kubeconfig = "ok" /\ ~failed =>
              Part("k8s.argorollouts") = "green" <=>
                  "none" \notin {Part("k8s.argorollouts.version"), Part("k8s.argorollouts.traffic")}
        /\ Part("k8s.argorollouts.version") # "none" => Rollouts \in ever
        /\ Part("k8s.argorollouts.version") = "green" => RolloutVersion \in ever
        /\ Part("k8s.argorollouts.traffic") = "green" => primitives \cap ever # {}
        /\ Part("k8s.argorollouts.traffic") = "amber" /\ errors = 0 => primitives \cap always = {}
===============================================================================
