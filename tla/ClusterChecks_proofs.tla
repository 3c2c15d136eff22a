-------------------------- MODULE ClusterChecks_proofs --------------------------
(***************************************************************************)
(* The checks of stages 4 and 5, call by call, for any facts, versions,    *)
(* changes and failing calls: they take only steps of the runner, and what *)
(* their results, and the verdict over them, say of the cluster is so.     *)
(*                                                                         *)
(* Each result is backed by the bracket of the facts (AllBacked), and the  *)
(* running check remembers only what the bracket knows (AnswersFit).  The  *)
(* verdict speaks of results, so the invariant also says which results     *)
(* there are (InOrder), and that they are the severities the runner has    *)
(* collected (Collected).                                                  *)
(***************************************************************************)
EXTENDS ClusterChecks, PreflightRunner_proofs, SequenceTheorems

-----------------------------------------------------------------------------
(* The inductive invariant.                                                 *)

\* The answer a to a question for f, as far as the bracket knows.
Says(a, f) == IF a = "yes" THEN f \in ever ELSE f \notin always

\* The check at position n of stage id is next, on a cluster.
Doing(id, n) == stage = id /\ check = n /\ options.kubeconfig # "none"

YesNo == {"yes", "no"}

TierAnswers ==
    \/ answers = <<>>
    \/ \E a \in YesNo : answers = <<a>> /\ Says(a, CreateCRDs)
    \/ \E a, b \in YesNo :
          answers = <<a, b>> /\ Says(a, CreateCRDs) /\ Says(b, CreateClusterRoles)

IdentityAnswers  == answers = <<>> \/ (answers = <<"no">> /\ SA \notin always)
NamespaceAnswers == answers = <<>> \/ (answers = <<"no">> /\ Namespace \notin always)
RolloutAnswers   ==
    \E a \in YesNo : answers = <<a>> /\ Rollouts \in ever /\ Says(a, RolloutVersion)

\* A list that failed counts as "no", so "no" means something without failures.
TrafficAnswers ==
    /\ answers \in {<<>>, <<"no">>, <<"no", "no">>, <<"no", "no", "no">>}
    /\ errors = 0 => \A i \in 1..Len(answers) : MeshGroups[i] \notin always

\* What the running check has found out before its next call.
AnswersFit ==
    /\ Doing(4, 6) => TierAnswers
    /\ Doing(4, 7) => IdentityAnswers
    /\ Doing(4, 9) => RolloutAnswers
    /\ Doing(4, 10) => TrafficAnswers
    /\ Doing(5, 1) => NamespaceAnswers
    /\ \/ \E n \in {6, 7, 9, 10} : Doing(4, n)
       \/ Doing(5, 1)
       \/ answers = <<>>

\* Outside stages 4 and 5, and when they are skipped, no check is running.
Idle ==
    stage \notin {4, 5} \/ shortCircuited \/ pc # "stages" => check = 1 /\ answers = <<>>

NewEnough == version \in Versions => ~Below(version, 1, 26)
Primitives == {MeshGroups[i] : i \in 1..3} \cup {"IngressClass"}

\* A result id of severity s is backed by what was so during the run.
Backed(id, s) ==
    /\ id = "k8s.networkpolicy" =>
          /\ s # "amber"
          /\ s = "green" => "networking.k8s.io" \in ever
          /\ s = "red" => errors > 0 \/ "networking.k8s.io" \notin always
    /\ id \in {"k8s.cilium", "k8s.metricsserver", "k8s.podsecurity", "k8s.argorollouts",
              "k8s.argorollouts.version", "k8s.argorollouts.traffic", "workload.image"} =>
          s # "red"
    /\ id = "k8s.minversion" =>
          /\ s \in {"green", "amber"} => NewEnough
          /\ s = "red" => errors > 0 \/ ~NewEnough
    /\ id = "k8s.installtier" =>
          /\ s = "green" => {CreateCRDs, CreateClusterRoles} \subseteq ever
          /\ s = "amber" => /\ CreateDeployments \in ever
                            /\ ~({CreateCRDs, CreateClusterRoles} \subseteq always)
          /\ s = "red" => \/ errors > 0
                          \/ ~(\/ {CreateCRDs, CreateClusterRoles} \subseteq always
                               \/ CreateDeployments \in always)
    /\ id = "k8s.workloadidentity" =>
          /\ s = "green" => HasIdentity(ever)
          /\ s = "red" => ~HasIdentity(always)
    /\ id = "k8s.argorollouts.version" =>
          /\ s # "none" => Rollouts \in ever
          /\ s = "green" => RolloutVersion \in ever
    /\ id = "k8s.argorollouts.traffic" =>
          /\ s = "green" => Primitives \cap ever # {}
          /\ s = "amber" /\ errors = 0 => Primitives \cap always = {}
    /\ id = "workload.namespace" =>
          /\ s # "amber"
          /\ s = "green" => {Namespace, CreateNamespaces} \cap ever # {}
          /\ s = "red" => errors > 0 \/ {Namespace, CreateNamespaces} \cap always = {}

AllBacked == \A id \in ResultIDs : Backed(id, found[id])

\* Where a result comes from: its stage, and the position of its check.
StageOf(id) == IF id \in {"workload.namespace", "workload.image"} THEN 5 ELSE 4

PlaceOf(id) ==
    CASE id = "k8s.networkpolicy"    -> 1
      [] id = "k8s.cilium"           -> 2
      [] id = "k8s.metricsserver"    -> 3
      [] id = "k8s.minversion"       -> 4
      [] id = "k8s.podsecurity"      -> 5
      [] id = "k8s.installtier"      -> 6
      [] id = "k8s.workloadidentity" -> 7
      [] id = "k8s.argorollouts"     -> 8
      [] id = "k8s.argorollouts.version" -> 9
      [] id = "k8s.argorollouts.traffic" -> 10
      [] id = "workload.namespace"   -> 1
      [] OTHER                       -> 2

OnCluster == ResultIDs \ {"k8s.unreachable"}
CanaryParts == {"k8s.argorollouts.version", "k8s.argorollouts.traffic"}

\* The check of id has had its turn.
Behind(id) ==
    report[StageOf(id)] \in Severities \/ (stage = StageOf(id) /\ check > PlaceOf(id))

Usable == ~failed /\ options.kubeconfig = "ok"

\* Every check that had its turn has left its result, except that the parts of
\* the canary check go without when Argo Rollouts is not there.
InOrder ==
    Usable =>
        /\ found["k8s.unreachable"] = "none"
        /\ \A id \in OnCluster :
              found[id] # "none" <=>
                  Behind(id) /\ (id \in CanaryParts => found["k8s.argorollouts"] = "green")
        /\ stage = 4 /\ check \in {9, 10} => found["k8s.argorollouts"] = "green"

\* The results are what the runner has collected.
Collected ==
    Usable =>
        \A st \in {4, 5}, s \in Severities :
            s \in results[st] <=> \E id \in OnCluster : StageOf(id) = st /\ found[id] = s

ClusterInv ==
    /\ ClusterTypeOK
    /\ Idle
    /\ AnswersFit
    /\ AllBacked
    /\ InOrder
    /\ Collected

-----------------------------------------------------------------------------
(* Every step is one of the runner.                                         *)

\* A check that returns a severity is a step of the runner.
LEMMA ReturnIsCheck ==
    ASSUME NEW id, NEW s \in Severities, NEW next, NEW kept, ReturnTo(id, s, next, kept)
    PROVE  Next
BY DEF ReturnTo, Check, Next

LEMMA ReturnIsRunnerStep ==
    ASSUME NEW id, NEW s \in Severities, Return(id, s)
    PROVE  Next
BY ReturnIsCheck DEF Return

LEMMA ContinueIsStutter == ASSUME NEW r, Continue(r) PROVE UNCHANGED vars
BY DEF Continue

\* A check of one call returns a severity.
LEMMA AskOnceIsRunnerStep ==
    ASSUME NEW c, NEW f, NEW id, NEW otherwise \in Severities, AskOnce(c, f, id, otherwise)
    PROVE  Next
<1>1. PICK r : Return(id, IF r = "yes" THEN "green" ELSE otherwise)
  BY DEF AskOnce
<1>2. (IF r = "yes" THEN "green" ELSE otherwise) \in Severities
  BY DEF Severities
<1> QED BY <1>1, <1>2, ReturnIsRunnerStep

LEMMA TierIsSeverity == ASSUME NEW a, NEW b, NEW c PROVE Tier(a, b, c) \in Severities
BY DEF Tier, Severities

\* Every step of the detailed preflight is a step of the runner or none.
LEMMA PreflightIsRunner == Preflight => [Next]_vars
<1> SUFFICES ASSUME Preflight PROVE Next \/ UNCHANGED vars
  OBVIOUS
<1>s. "green" \in Severities /\ "amber" \in Severities /\ "red" \in Severities
  BY DEF Severities
<1>1. CASE StartStages \/ EmitError \/ SkipStage \/ PrintReport
  BY <1>1 DEF Next
<1>2. CASE CloudCheck
  BY <1>2, ClusterConstants DEF CloudCheck, Check, Next
<1>3. CASE Unreachable
  BY <1>3, <1>s, ReturnIsRunnerStep DEF Unreachable
<1>4. CASE NetworkPolicy
  BY <1>4, <1>s, AskOnceIsRunnerStep DEF NetworkPolicy
<1>5. CASE Cilium
  BY <1>5, <1>s, AskOnceIsRunnerStep DEF Cilium
<1>6. CASE MetricsServer
  BY <1>6, <1>s, AskOnceIsRunnerStep DEF MetricsServer
<1>7. CASE MinVersion
  <2>1. PICK v : Return("k8s.minversion",
                        CASE v = NoVersion  -> "red"
                          [] v = Unparsable -> "amber"
                          [] OTHER          -> IF Below(v, 1, 26) THEN "red" ELSE "green")
    BY <1>7 DEF MinVersion
  <2>2. (CASE v = NoVersion  -> "red"
           [] v = Unparsable -> "amber"
           [] OTHER          -> IF Below(v, 1, 26) THEN "red" ELSE "green") \in Severities
    BY <1>s
  <2> QED BY <2>1, <2>2, ReturnIsRunnerStep
<1>8. CASE PodSecurity
  <2>1. PICK v : Return("k8s.podsecurity",
                        IF v \in {NoVersion, Unparsable} \/ Below(v, 1, 25)
                        THEN "amber" ELSE "green")
    BY <1>8 DEF PodSecurity
  <2>2. (IF v \in {NoVersion, Unparsable} \/ Below(v, 1, 25) THEN "amber" ELSE "green")
            \in Severities
    BY <1>s
  <2> QED BY <2>1, <2>2, ReturnIsRunnerStep
<1>9. CASE InstallTier
  <2>1. PICK r : \/ Return("k8s.installtier", "red")
                 \/ Continue(r)
                 \/ Return("k8s.installtier", Tier(answers[1], answers[2], r))
    BY <1>9 DEF InstallTier
  <2> QED BY <2>1, <1>s, TierIsSeverity, ReturnIsRunnerStep, ContinueIsStutter
<1>10. CASE WorkloadIdentity
  <2>1. PICK r : \/ Return("k8s.workloadidentity", "amber")
                 \/ Return("k8s.workloadidentity", "green")
                 \/ Return("k8s.workloadidentity", "red")
                 \/ Continue(r)
    BY <1>10 DEF WorkloadIdentity
  <2> QED BY <2>1, <1>s, ReturnIsRunnerStep, ContinueIsStutter
<1>11. CASE ArgoRollouts
  <2>1. PICK next, kept : \/ ReturnTo("k8s.argorollouts", "green", next, kept)
                          \/ ReturnTo("k8s.argorollouts", "amber", next, kept)
    BY <1>11 DEF ArgoRollouts
  <2> QED BY <2>1, <1>s, ReturnIsCheck
<1>12. CASE ArgoVersion
  BY <1>12, <1>s, ReturnIsRunnerStep DEF ArgoVersion
<1>13. CASE ArgoTraffic
  <2>1. PICK r : \/ Return("k8s.argorollouts.traffic", "green")
                 \/ Return("k8s.argorollouts.traffic", "amber")
                 \/ Continue(r)
    BY <1>13 DEF ArgoTraffic
  <2> QED BY <2>1, <1>s, ReturnIsRunnerStep, ContinueIsStutter
<1>14. CASE NamespaceCreatable
  <2>1. PICK r : \/ Return("workload.namespace", "green")
                 \/ Return("workload.namespace", "red")
                 \/ Continue(r)
    BY <1>14 DEF NamespaceCreatable
  <2> QED BY <2>1, <1>s, ReturnIsRunnerStep, ContinueIsStutter
<1>15. CASE ImagePullable
  BY <1>15, <1>s, ReturnIsRunnerStep DEF ImagePullable
<1>16. CASE StageDone
  BY <1>16 DEF StageDone, Next
<1> QED
  BY <1>1, <1>2, <1>3, <1>4, <1>5, <1>6, <1>7, <1>8, <1>9, <1>10, <1>11, <1>12, <1>13, <1>14,
     <1>15, <1>16 DEF Preflight

LEMMA ClusterIsRunner == [ClusterNext]_allVars => [Next]_vars
<1>1. ASSUME NEW f \in Varying, Change(f) PROVE UNCHANGED vars
  BY <1>1 DEF Change
<1>2. UNCHANGED allVars => UNCHANGED vars
  BY DEF allVars
<1> QED BY <1>1, <1>2, PreflightIsRunner DEF ClusterNext

-----------------------------------------------------------------------------
(* Where a check stands, and what a call tells it.                          *)

LEMMA StageNumbers ==
    /\ StageIdentity = 0 /\ StageKMS = 1 /\ StageSecrets = 2 /\ StageNetwork = 3
    /\ StageKubernetes = 4 /\ StageWorkload = 5
BY DEF StageIdentity, StageKMS, StageSecrets, StageNetwork, StageKubernetes, StageWorkload

LEMMA ListOfChecks ==
    ASSUME NEW id
    PROVE  \/ /\ id = 4 /\ options.kubeconfig = "none"
              /\ Checks(id) = <<"unreachable">>
           \/ /\ id = 4 /\ options.kubeconfig # "none"
              /\ Checks(id) = <<"networkpolicy", "cilium", "metricsserver", "minversion",
                                "podsecurity", "installtier", "workloadidentity",
                                "argorollouts", "argoversion", "argotraffic">>
           \/ /\ id = 5 /\ options.kubeconfig # "none"
              /\ Checks(id) = <<"namespace", "image">>
           \/ /\ id # 4 /\ (id = 5 => options.kubeconfig = "none")
              /\ Checks(id) = <<>>
<1>1. CASE id = 4 /\ options.kubeconfig = "none"
  BY <1>1, StageNumbers DEF Checks
<1>2. CASE id = 4 /\ options.kubeconfig # "none"
  BY <1>2, StageNumbers DEF Checks
<1>3. CASE id = 5 /\ options.kubeconfig # "none"
  BY <1>3, StageNumbers DEF Checks
<1>4. CASE id # 4 /\ (id = 5 => options.kubeconfig = "none")
  BY <1>4, StageNumbers DEF Checks
<1> QED BY <1>1, <1>2, <1>3, <1>4

LEMMA PlaceOfCheck ==
    ASSUME check \in 1..11, NEW c, At(c)
    PROVE  /\ Running
           /\ c = "unreachable" => stage = 4 /\ check = 1 /\ options.kubeconfig = "none"
           /\ c = "networkpolicy" => Doing(4, 1)
           /\ c = "cilium" => Doing(4, 2)
           /\ c = "metricsserver" => Doing(4, 3)
           /\ c = "minversion" => Doing(4, 4)
           /\ c = "podsecurity" => Doing(4, 5)
           /\ c = "installtier" => Doing(4, 6)
           /\ c = "workloadidentity" => Doing(4, 7)
           /\ c = "argorollouts" => Doing(4, 8)
           /\ c = "argoversion" => Doing(4, 9)
           /\ c = "argotraffic" => Doing(4, 10)
           /\ c = "namespace" => Doing(5, 1)
           /\ c = "image" => Doing(5, 2)
<1>1. Running /\ check <= Len(Checks(stage)) /\ Checks(stage)[check] = c
  BY DEF At
<1>2. CASE Checks(stage) = <<"unreachable">> /\ stage = 4 /\ options.kubeconfig = "none"
  <2>1. check = 1
    BY <1>1, <1>2
  <2> QED BY <1>1, <1>2, <2>1
<1>3. CASE /\ stage = 4 /\ options.kubeconfig # "none"
           /\ Checks(stage) = <<"networkpolicy", "cilium", "metricsserver", "minversion",
                                "podsecurity", "installtier", "workloadidentity",
                                "argorollouts", "argoversion", "argotraffic">>
  <2>1. check \in 1..10
    BY <1>1, <1>3
  <2> QED BY <1>1, <1>3, <2>1 DEF Doing
<1>4. CASE stage = 5 /\ options.kubeconfig # "none" /\ Checks(stage) = <<"namespace", "image">>
  <2>1. check \in 1..2
    BY <1>1, <1>4
  <2> QED BY <1>1, <1>4, <2>1 DEF Doing
<1>5. CASE Checks(stage) = <<>>
  BY <1>1, <1>5
<1> QED BY <1>2, <1>3, <1>4, <1>5, ListOfChecks

LEMMA ReplySays ==
    ASSUME NEW f, NEW r \in Reply(f)
    PROVE  /\ r \in {"yes", "no", "error"}
           /\ r = "yes" => f \in facts
           /\ r = "no" => f \notin facts
           /\ r = "error" => May
BY DEF Reply

\* Time only widens the bracket.
Widens ==
    /\ ever \subseteq ever' /\ always' \subseteq always
    /\ errors' \in {errors, errors + 1}
    /\ version' = version

LEMMA CallWidens ==
    ASSUME NEW b \in BOOLEAN, Called(b)
    PROVE  Widens /\ UNCHANGED <<facts, ever, always, version>>
BY DEF Called, Probed, Widens

\* What is backed stays backed.
LEMMA BackedLasts ==
    ASSUME errors \in Nat, Widens, NEW id, NEW s, Backed(id, s)
    PROVE  Backed(id, s)'
<1>1. NewEnough' = NewEnough
  BY DEF Widens, NewEnough, Below
<1>2. errors > 0 => errors' > 0
  BY DEF Widens
<1>3. errors' = 0 => errors = 0
  BY DEF Widens
<1>4. /\ Primitives \cap ever # {} => Primitives \cap ever' # {}
      /\ Primitives \cap always = {} => Primitives \cap always' = {}
  BY DEF Widens
<1>5. HasIdentity(ever) => HasIdentity(ever')
  BY DEF Widens, HasIdentity
<1>6. HasIdentity(always') => HasIdentity(always)
  BY DEF Widens, HasIdentity
<1>7. \A f : f \in ever => f \in ever'
  BY DEF Widens
<1>8. \A f : f \in always' => f \in always
  BY DEF Widens
<1> QED BY <1>1, <1>2, <1>3, <1>4, <1>5, <1>6, <1>7, <1>8 DEF Backed

\* What a check remembers stays so while it waits.
LEMMA AnswersLast ==
    ASSUME errors \in Nat, Widens, AnswersFit, errors' = errors,
           UNCHANGED <<stage, check, answers, options>>
    PROVE  AnswersFit'
<1>1. ASSUME NEW id, NEW n PROVE Doing(id, n)' = Doing(id, n)
  BY DEF Doing
<1>2. ASSUME NEW a, NEW f, Says(a, f) PROVE Says(a, f)'
  BY <1>2 DEF Says, Widens
<1>3. TierAnswers => TierAnswers'
  BY <1>2 DEF TierAnswers
<1>4. (IdentityAnswers => IdentityAnswers') /\ (NamespaceAnswers => NamespaceAnswers')
  BY DEF IdentityAnswers, NamespaceAnswers, Widens
<1>5. RolloutAnswers => RolloutAnswers'
  BY <1>2 DEF RolloutAnswers, Widens
<1>6. TrafficAnswers => TrafficAnswers'
  BY DEF TrafficAnswers, Widens
<1> QED BY <1>1, <1>3, <1>4, <1>5, <1>6 DEF AnswersFit

-----------------------------------------------------------------------------
(* What a step of a check is.                                               *)

\* The check of id is the running one.
Placed(id) ==
    IF id = "k8s.unreachable" THEN stage = 4 /\ check = 1 /\ options.kubeconfig = "none"
                              ELSE Doing(StageOf(id), PlaceOf(id))

\* Where the run goes on after result id of severity s.
After(id, s) == IF id = "k8s.argorollouts" /\ s # "green" THEN check + 3 ELSE check + 1

\* A result that is backed, in its turn.
Reported ==
    \E id \in ResultIDs, s \in Severities :
        (\E kept : ReturnTo(id, s, After(id, s), kept)) /\ Placed(id) /\ Backed(id, s)'

OneCall == \E b \in BOOLEAN : Called(b) /\ (b => May)

\* One call, after which the check has a backed result or knows one answer more.
CheckStep ==
    /\ Running /\ stage \in {4, 5} /\ check \in 1..10
    /\ OneCall
    /\ AnswersFit'
    /\ Reported \/ UNCHANGED <<vars, check, found>>

LEMMA PlaceIsStage ==
    ASSUME NEW id \in ResultIDs, Placed(id)
    PROVE  /\ stage \in {4, 5} /\ check \in 1..10
           /\ stage = 4 /\ check = 8 => id = "k8s.argorollouts"
BY DEF ResultIDs, Placed, Doing, StageOf, PlaceOf

\* A check that is about to begin knows nothing, except the second part of the
\* canary check.
LEMMA BeginsAnew ==
    ASSUME answers' = <<>>, ~Doing(4, 9)'
    PROVE  AnswersFit'
<1>1. TrafficAnswers'
  BY DEF TrafficAnswers
<1>2. TierAnswers' /\ IdentityAnswers' /\ NamespaceAnswers'
  BY DEF TierAnswers, IdentityAnswers, NamespaceAnswers
<1> QED BY <1>1, <1>2 DEF AnswersFit

\* A result that ends a check other than Argo Rollouts.
LEMMA ReturnStep ==
    ASSUME Running, NEW id \in ResultIDs \ {"k8s.argorollouts"}, NEW s \in Severities, Placed(id),
           NEW b \in BOOLEAN, Called(b), b => May, Return(id, s), Backed(id, s)'
    PROVE  CheckStep
<1>1. stage \in {4, 5} /\ check \in 1..10 /\ ~(stage = 4 /\ check = 8)
  BY PlaceIsStage
<1>2. ReturnTo(id, s, After(id, s), <<>>) /\ check' = check + 1 /\ answers' = <<>>
  BY DEF Return, ReturnTo, After
<1>3. UNCHANGED <<stage, options>>
  BY DEF Return, ReturnTo, ReportResult
<1>4. ~Doing(4, 9)'
  BY <1>1, <1>2, <1>3 DEF Doing
<1>5. AnswersFit'
  BY <1>2, <1>4, BeginsAnew
<1>6. Reported
  BY <1>2 DEF Reported
<1> QED BY <1>1, <1>5, <1>6 DEF CheckStep, OneCall

\* Another call to make.
LEMMA ContinueStep ==
    ASSUME Running, NEW r, stage \in {4, 5}, check \in 1..10, OneCall, Continue(r), AnswersFit'
    PROVE  CheckStep
BY DEF Continue, CheckStep

LEMMA TheSeverities == "green" \in Severities /\ "amber" \in Severities /\ "red" \in Severities
BY DEF Severities

\* A check of one call.
LEMMA AskOnceStep ==
    ASSUME ClusterTypeOK, NEW c, NEW f, NEW id \in ResultIDs \ {"k8s.argorollouts"},
           NEW otherwise \in {"red", "amber"}, AskOnce(c, f, id, otherwise),
           Running, Placed(id),
           \/ id \in {"k8s.cilium", "k8s.metricsserver"} /\ otherwise = "amber"
           \/ id = "k8s.networkpolicy" /\ f = "networking.k8s.io" /\ otherwise = "red"
    PROVE  CheckStep
<1>1. PICK r \in Reply(f) :
        Called(r = "error") /\ Return(id, IF r = "yes" THEN "green" ELSE otherwise)
  BY DEF AskOnce
<1> DEFINE s == IF r = "yes" THEN "green" ELSE otherwise
<1>2. s \in Severities /\ (r = "error") \in BOOLEAN
  BY TheSeverities
<1>3. r \in {"yes", "no", "error"} /\ (r = "yes" => f \in facts) /\ (r = "no" => f \notin facts)
      /\ (r = "error" => May)
  BY ReplySays
<1>4. /\ ever' = ever /\ always' = always
      /\ always \subseteq facts /\ facts \subseteq ever
      /\ errors \in Nat
      /\ errors' = IF r = "error" THEN errors + 1 ELSE errors
  BY <1>1, ProbesConstants DEF Called, Probed, ClusterTypeOK, ProbesTypeOK
<1>5. Backed(id, s)'
  BY <1>3, <1>4 DEF Backed
<1> QED BY <1>1, <1>2, <1>3, <1>5, ReturnStep

-----------------------------------------------------------------------------
(* Every check takes such steps.                                            *)

\* What the bracket knows of a call that has just returned.
LEMMA BracketOfCall ==
    ASSUME ClusterTypeOK, NEW b \in BOOLEAN, Called(b)
    PROVE  /\ check \in 1..11
           /\ ever' = ever /\ always' = always /\ version' = version
           /\ always \subseteq facts /\ facts \subseteq ever
           /\ errors \in Nat /\ errors' \in Nat
           /\ errors' = IF b THEN errors + 1 ELSE errors
BY ProbesConstants DEF Called, Probed, ClusterTypeOK, ProbesTypeOK

LEMMA UnreachableStep == ASSUME ClusterTypeOK, Unreachable PROVE CheckStep
<1>1. At("unreachable") /\ Called(FALSE) /\ Return("k8s.unreachable", "red")
  BY DEF Unreachable
<1>2. Running /\ Placed("k8s.unreachable")
  BY <1>1, PlaceOfCheck DEF ClusterTypeOK, Placed
<1>3. Backed("k8s.unreachable", "red")'
  BY DEF Backed
<1> QED BY <1>1, <1>2, <1>3, TheSeverities, ReturnStep DEF ResultIDs

LEMMA OneCallSteps == ASSUME ClusterTypeOK, NetworkPolicy \/ Cilium \/ MetricsServer
                      PROVE  CheckStep
<1>0. check \in 1..11
  BY DEF ClusterTypeOK
<1>1. CASE NetworkPolicy
  <2>1. Running /\ Placed("k8s.networkpolicy")
    BY <1>0, <1>1, PlaceOfCheck DEF NetworkPolicy, AskOnce, Placed, StageOf, PlaceOf
  <2> QED BY <1>1, <2>1, AskOnceStep DEF NetworkPolicy, ResultIDs
<1>2. CASE Cilium
  <2>1. Running /\ Placed("k8s.cilium")
    BY <1>0, <1>2, PlaceOfCheck DEF Cilium, AskOnce, Placed, StageOf, PlaceOf
  <2> QED BY <1>2, <2>1, AskOnceStep DEF Cilium, ResultIDs
<1>3. CASE MetricsServer
  <2>1. Running /\ Placed("k8s.metricsserver")
    BY <1>0, <1>3, PlaceOfCheck DEF MetricsServer, AskOnce, Placed, StageOf, PlaceOf
  <2> QED BY <1>3, <2>1, AskOnceStep DEF MetricsServer, ResultIDs
<1> QED BY <1>1, <1>2, <1>3

\* An answer to the question for the version is the version.
LEMMA VersionSays ==
    ASSUME ClusterTypeOK, NEW v \in VersionReply
    PROVE  /\ v = NoVersion => May
           /\ v = Unparsable => version \notin Versions
           /\ v \notin {NoVersion, Unparsable} => v \in Versions /\ v = version
BY ClusterConstants DEF VersionReply, ClusterTypeOK

LEMMA MinVersionStep == ASSUME ClusterTypeOK, MinVersion PROVE CheckStep
<1> DEFINE Severity(v) == CASE v = NoVersion  -> "red"
                            [] v = Unparsable -> "amber"
                            [] OTHER          -> IF Below(v, 1, 26) THEN "red" ELSE "green"
<1>1. PICK v \in VersionReply : Called(v = NoVersion) /\ Return("k8s.minversion", Severity(v))
  BY DEF MinVersion
<1>2. Running /\ Placed("k8s.minversion")
  BY PlaceOfCheck DEF MinVersion, ClusterTypeOK, Placed, StageOf, PlaceOf
<1>3. /\ v = NoVersion => May
      /\ v = Unparsable => version \notin Versions
      /\ v \notin {NoVersion, Unparsable} => v \in Versions /\ v = version
  BY <1>1, VersionSays
<1>4. (v = NoVersion) \in BOOLEAN /\ NewEnough' = NewEnough
  BY <1>1, BracketOfCall DEF NewEnough, Below
<1>5. /\ Severity(v) \in Severities
      /\ Severity(v) # "red" => NewEnough
      /\ Severity(v) = "red" => v = NoVersion \/ ~NewEnough
  <2>1. CASE v = NoVersion
    BY <2>1, TheSeverities, ClusterConstants
  <2>2. CASE v # NoVersion /\ v = Unparsable
    BY <2>2, <1>3, TheSeverities DEF NewEnough
  <2>3. CASE v \notin {NoVersion, Unparsable}
    BY <2>3, <1>3, TheSeverities DEF NewEnough
  <2> QED BY <2>1, <2>2, <2>3
<1>6. v = NoVersion => errors' > 0
  BY <1>1, ProbesConstants DEF Called, Probed, ClusterTypeOK, ProbesTypeOK
<1> HIDE DEF Severity
<1>7. Backed("k8s.minversion", Severity(v))'
  BY <1>4, <1>5, <1>6 DEF Backed
<1> QED BY <1>1, <1>2, <1>3, <1>4, <1>5, <1>7, ReturnStep DEF ResultIDs

LEMMA PodSecurityStep == ASSUME ClusterTypeOK, PodSecurity PROVE CheckStep
<1>1. PICK v \in VersionReply :
        /\ Called(v = NoVersion)
        /\ Return("k8s.podsecurity",
                  IF v \in {NoVersion, Unparsable} \/ Below(v, 1, 25) THEN "amber" ELSE "green")
  BY DEF PodSecurity
<1> DEFINE s == IF v \in {NoVersion, Unparsable} \/ Below(v, 1, 25) THEN "amber" ELSE "green"
<1>2. Running /\ Placed("k8s.podsecurity")
  BY PlaceOfCheck DEF PodSecurity, ClusterTypeOK, Placed, StageOf, PlaceOf
<1>3. s \in {"amber", "green"} /\ (v = NoVersion) \in BOOLEAN
  OBVIOUS
<1>4. Backed("k8s.podsecurity", s)'
  BY <1>3 DEF Backed
<1>5. v = NoVersion => May
  BY VersionSays
<1> QED BY <1>1, <1>2, <1>3, <1>4, <1>5, TheSeverities, ReturnStep DEF ResultIDs

LEMMA CanaryVersionStep ==
    ASSUME ClusterTypeOK, AnswersFit, ArgoVersion
    PROVE  CheckStep
<1>1. Called(FALSE) /\ Return("k8s.argorollouts.version",
                              IF answers = <<"yes">> THEN "green" ELSE "amber")
  BY DEF ArgoVersion
<1>2. Running /\ Doing(4, 9)
  BY PlaceOfCheck DEF ArgoVersion, ClusterTypeOK
<1>3. Placed("k8s.argorollouts.version")
  BY <1>2 DEF Placed, StageOf, PlaceOf
<1>4. PICK a \in YesNo : answers = <<a>> /\ Rollouts \in ever /\ Says(a, RolloutVersion)
  BY <1>2 DEF AnswersFit, RolloutAnswers
<1>5. ever' = ever
  BY <1>1, BracketOfCall
<1>6. PICK s \in {"green", "amber"} :
        Return("k8s.argorollouts.version", s) /\ (s = "green" => a = "yes")
  BY <1>1, <1>4
<1>7. Rollouts \in ever' /\ (s = "green" => RolloutVersion \in ever')
  BY <1>4, <1>5, <1>6 DEF Says
<1>8. Backed("k8s.argorollouts.version", s)'
  BY <1>6, <1>7 DEF Backed
<1> QED BY <1>1, <1>2, <1>3, <1>6, <1>8, TheSeverities, ReturnStep DEF ResultIDs

LEMMA ImageStep == ASSUME ClusterTypeOK, ImagePullable PROVE CheckStep
<1>1. Called(FALSE) /\ Return("workload.image", "amber")
  BY DEF ImagePullable
<1>2. Running /\ Placed("workload.image")
  BY PlaceOfCheck DEF ImagePullable, ClusterTypeOK, Placed, StageOf, PlaceOf
<1>3. Backed("workload.image", "amber")'
  BY DEF Backed
<1> QED BY <1>1, <1>2, <1>3, TheSeverities, ReturnStep DEF ResultIDs

\* A call whose answer the check keeps for the next one.
LEMMA KeepsAnswer ==
    ASSUME NEW r, Continue(r),
           \/ Doing(4, 6) /\ TierAnswers'
           \/ Doing(4, 7) /\ IdentityAnswers'
           \/ Doing(4, 10) /\ TrafficAnswers'
           \/ Doing(5, 1) /\ NamespaceAnswers'
    PROVE  AnswersFit'
<1>1. UNCHANGED <<stage, check, options>>
  BY DEF Continue, vars
<1> QED BY <1>1 DEF AnswersFit, Doing

LEMMA AppendToOne ==
    ASSUME NEW S, NEW a \in S, NEW r \in S
    PROVE  Append(<<a>>, r) = <<a, r>>
<1>1. <<a>> \in Seq(S) /\ Len(<<a>>) = 1
  OBVIOUS
<1>2. /\ Append(<<a>>, r) \in Seq(S) /\ Len(Append(<<a>>, r)) = 2
      /\ Append(<<a>>, r)[1] = a /\ Append(<<a>>, r)[2] = r
  BY <1>1
<1>3. <<a, r>> \in Seq(S) /\ Len(<<a, r>>) = 2
  OBVIOUS
<1>4. \A i \in 1..2 : Append(<<a>>, r)[i] = <<a, r>>[i]
  BY <1>2
<1> QED BY <1>2, <1>3, <1>4, SeqEqual

LEMMA TierSays ==
    ASSUME NEW a \in YesNo, NEW b \in YesNo, NEW r \in YesNo
    PROVE  /\ Tier(a, b, r) \in Severities
           /\ Tier(a, b, r) = "green" => a = "yes" /\ b = "yes"
           /\ Tier(a, b, r) = "amber" => ~(a = "yes" /\ b = "yes") /\ r = "yes"
           /\ Tier(a, b, r) = "red" => ~(a = "yes" /\ b = "yes") /\ r = "no"
BY DEF Tier, Severities, YesNo

LEMMA InstallTierStep ==
    ASSUME ClusterTypeOK, AnswersFit, InstallTier
    PROVE  CheckStep
<1> DEFINE Asked == <<CreateCRDs, CreateClusterRoles, CreateDeployments>>[Len(answers) + 1]
<1>1. PICK r \in Reply(Asked) :
        /\ Called(r = "error")
        /\ CASE r = "error"                     -> Return("k8s.installtier", "red")
             [] r # "error" /\ Len(answers) < 2 -> Continue(r)
             [] OTHER -> Return("k8s.installtier", Tier(answers[1], answers[2], r))
  BY DEF InstallTier
<1>2. Running /\ Doing(4, 6) /\ stage \in {4, 5} /\ check \in 1..10
  BY PlaceOfCheck DEF InstallTier, ClusterTypeOK, Doing
<1>3. Placed("k8s.installtier")
  BY <1>2 DEF Placed, StageOf, PlaceOf
<1>4. /\ r \in {"yes", "no", "error"}
      /\ r = "yes" => Asked \in facts
      /\ r = "no" => Asked \notin facts
      /\ r = "error" => May
  BY <1>1, ReplySays
<1>5. /\ (r = "error") \in BOOLEAN
      /\ ever' = ever /\ always' = always /\ always \subseteq facts /\ facts \subseteq ever
      /\ r = "error" => errors' > 0
  BY <1>1, ProbesConstants DEF Called, Probed, ClusterTypeOK, ProbesTypeOK
<1>11. OneCall
  BY <1>1, <1>4, <1>5 DEF OneCall
<1>6. CASE r = "error"
  <2>1. Return("k8s.installtier", "red")
    BY <1>1, <1>6
  <2>2. Backed("k8s.installtier", "red")'
    BY <1>5, <1>6 DEF Backed
  <2> QED BY <1>1, <1>2, <1>3, <1>4, <1>5, <2>1, <2>2, TheSeverities, ReturnStep DEF ResultIDs
<1>7. CASE r # "error" /\ answers = <<>>
  <2>1. Continue(r) /\ Asked = CreateCRDs
    BY <1>1, <1>7
  <2>2. r \in YesNo /\ Says(r, CreateCRDs)'
    BY <1>4, <1>5, <1>7, <2>1 DEF Says, YesNo
  <2>3. answers' = <<r>>
    BY <1>7, <2>1 DEF Continue
  <2>4. AnswersFit'
    BY <1>2, <2>1, <2>2, <2>3, KeepsAnswer DEF TierAnswers
  <2> QED BY <1>2, <1>11, <2>1, <2>4, ContinueStep
<1>8. ASSUME r # "error", NEW a \in YesNo, answers = <<a>>, Says(a, CreateCRDs)
      PROVE  CheckStep
  <2>1. Continue(r) /\ Asked = CreateClusterRoles
    BY <1>1, <1>8
  <2>2. r \in YesNo /\ Says(r, CreateClusterRoles)' /\ Says(a, CreateCRDs)'
    BY <1>4, <1>5, <1>8, <2>1 DEF Says, YesNo
  <2>3. answers' = <<a, r>>
    BY <1>8, <2>1, <2>2, AppendToOne DEF Continue
  <2>4. AnswersFit'
    BY <1>2, <2>1, <2>2, <2>3, KeepsAnswer DEF TierAnswers
  <2> QED BY <1>2, <1>11, <2>1, <2>4, ContinueStep
<1>9. ASSUME r # "error", NEW a \in YesNo, NEW b \in YesNo, answers = <<a, b>>,
             Says(a, CreateCRDs), Says(b, CreateClusterRoles)
      PROVE  CheckStep
  <2>1. Return("k8s.installtier", Tier(a, b, r)) /\ Asked = CreateDeployments
    BY <1>1, <1>9
  <2>2. r \in YesNo /\ Says(r, CreateDeployments)
    BY <1>4, <1>5, <1>9, <2>1 DEF Says, YesNo
  <2>3. /\ Tier(a, b, r) \in Severities
        /\ Tier(a, b, r) = "green" => {CreateCRDs, CreateClusterRoles} \subseteq ever
        /\ Tier(a, b, r) = "amber" => /\ CreateDeployments \in ever
                                      /\ ~({CreateCRDs, CreateClusterRoles} \subseteq always)
        /\ Tier(a, b, r) = "red" => ~(\/ {CreateCRDs, CreateClusterRoles} \subseteq always
                                      \/ CreateDeployments \in always)
    BY <1>9, <2>2, TierSays DEF Says
  <2>4. Backed("k8s.installtier", Tier(a, b, r))'
    BY <1>5, <2>3 DEF Backed
  <2> QED BY <1>1, <1>2, <1>3, <1>4, <1>5, <2>1, <2>3, <2>4, ReturnStep DEF ResultIDs
<1>10. TierAnswers
  BY <1>2 DEF AnswersFit
<1> QED BY <1>6, <1>7, <1>8, <1>9, <1>10 DEF TierAnswers

LEMMA IdentityStep ==
    ASSUME ClusterTypeOK, AnswersFit, WorkloadIdentity
    PROVE  CheckStep
<1> DEFINE Asked == IF answers = <<>> THEN SA ELSE CreateSAs
<1>1. PICK r \in Reply(Asked) :
        /\ Called(r = "error")
        /\ CASE r = "error" -> Return("k8s.workloadidentity", "amber")
             [] r = "yes"   -> Return("k8s.workloadidentity",
                                      IF answers # <<>> \/ Annotation \in facts
                                      THEN "green" ELSE "amber")
             [] OTHER       -> IF answers = <<>> THEN Continue(r)
                               ELSE Return("k8s.workloadidentity", "red")
  BY DEF WorkloadIdentity
<1>2. Running /\ Doing(4, 7) /\ stage \in {4, 5} /\ check \in 1..10
  BY PlaceOfCheck DEF WorkloadIdentity, ClusterTypeOK, Doing
<1>3. Placed("k8s.workloadidentity")
  BY <1>2 DEF Placed, StageOf, PlaceOf
<1>4. /\ r \in {"yes", "no", "error"}
      /\ r = "yes" => Asked \in facts
      /\ r = "no" => Asked \notin facts
      /\ r = "error" => May
  BY <1>1, ReplySays
<1>5. /\ (r = "error") \in BOOLEAN
      /\ ever' = ever /\ always' = always /\ always \subseteq facts /\ facts \subseteq ever
  BY <1>1, BracketOfCall
<1>6. OneCall
  BY <1>1, <1>4, <1>5 DEF OneCall
<1>7. ASSUME NEW s \in {"green", "amber"}, Return("k8s.workloadidentity", s),
             s = "green" => r = "yes"
      PROVE  CheckStep
  <2>1. s = "green" => HasIdentity(ever')
    BY <1>4, <1>5, <1>7 DEF HasIdentity
  <2>2. Backed("k8s.workloadidentity", s)'
    BY <1>7, <2>1 DEF Backed
  <2> QED BY <1>1, <1>2, <1>3, <1>4, <1>5, <1>7, <2>2, TheSeverities, ReturnStep DEF ResultIDs
<1>8. CASE r = "no" /\ answers = <<>>
  <2>1. Continue("no") /\ SA \notin facts
    BY <1>1, <1>4, <1>8
  <2>2. answers' = <<"no">> /\ SA \notin always'
    BY <1>5, <1>8, <2>1 DEF Continue
  <2>3. AnswersFit'
    BY <1>2, <2>1, <2>2, KeepsAnswer DEF IdentityAnswers
  <2> QED BY <1>2, <1>6, <2>1, <2>3, ContinueStep
<1>9. CASE r = "no" /\ answers # <<>>
  <2>1. Return("k8s.workloadidentity", "red") /\ CreateSAs \notin facts
    BY <1>1, <1>4, <1>9
  <2>2. SA \notin always
    BY <1>2, <1>9 DEF AnswersFit, IdentityAnswers
  <2>3. ~HasIdentity(always')
    BY <1>5, <2>1, <2>2 DEF HasIdentity
  <2>4. Backed("k8s.workloadidentity", "red")'
    BY <2>3 DEF Backed
  <2> QED BY <1>1, <1>2, <1>3, <1>4, <1>5, <2>1, <2>4, TheSeverities, ReturnStep DEF ResultIDs
<1>10. CASE r = "error"
  BY <1>1, <1>7, <1>10
<1>11. CASE r = "yes"
  <2>1. PICK s \in {"green", "amber"} : Return("k8s.workloadidentity", s)
    BY <1>1, <1>11
  <2> QED BY <1>7, <1>11, <2>1
<1> QED BY <1>4, <1>8, <1>9, <1>10, <1>11

LEMMA RolloutsStep ==
    ASSUME ClusterTypeOK, ArgoRollouts
    PROVE  CheckStep
<1> DEFINE Serves == IF RolloutVersion \in facts THEN "yes" ELSE "no"
<1>1. PICK r \in Reply(Rollouts) :
        /\ Called(r = "error")
        /\ IF r = "yes"
           THEN ReturnTo("k8s.argorollouts", "green", check + 1, <<Serves>>)
           ELSE ReturnTo("k8s.argorollouts", "amber", check + 3, <<>>)
  BY DEF ArgoRollouts
<1>2. Running /\ Doing(4, 8) /\ stage \in {4, 5} /\ check \in 1..10
  BY PlaceOfCheck DEF ArgoRollouts, ClusterTypeOK, Doing
<1>3. Placed("k8s.argorollouts")
  BY <1>2 DEF Placed, StageOf, PlaceOf
<1>4. (r = "yes" => Rollouts \in facts) /\ (r = "error" => May) /\ (r = "error") \in BOOLEAN
  BY <1>1, ReplySays
<1>5. ever' = ever /\ always' = always /\ always \subseteq facts /\ facts \subseteq ever
  BY <1>1, <1>4, BracketOfCall
<1>6. OneCall
  BY <1>1, <1>4 DEF OneCall
<1>7. \A s : Backed("k8s.argorollouts", s)' <=> s # "red"
  BY DEF Backed
<1>8. CASE r = "yes"
  <2>1. PICK a \in YesNo : /\ ReturnTo("k8s.argorollouts", "green", check + 1, <<a>>)
                           /\ a = "yes" <=> RolloutVersion \in facts
    BY <1>1, <1>8 DEF YesNo
  <2>2. answers' = <<a>> /\ Rollouts \in ever' /\ Says(a, RolloutVersion)'
    BY <1>4, <1>5, <1>8, <2>1 DEF ReturnTo, Says
  <2>3. Doing(4, 9)'
    BY <1>2, <2>1 DEF Doing, ReturnTo, ReportResult
  <2>4. AnswersFit'
    BY <2>1, <2>2, <2>3 DEF AnswersFit, RolloutAnswers, Doing
  <2>5. Reported
    BY <1>3, <1>7, <2>1, TheSeverities DEF Reported, After, ResultIDs
  <2> QED BY <1>2, <1>6, <2>4, <2>5 DEF CheckStep
<1>9. CASE r # "yes"
  <2>1. ReturnTo("k8s.argorollouts", "amber", check + 3, <<>>)
    BY <1>1, <1>9
  <2>2. answers' = <<>> /\ check' = 11
    BY <1>2, <2>1 DEF ReturnTo, Doing
  <2>3. AnswersFit'
    BY <2>2, BeginsAnew DEF Doing
  <2>4. Reported
    BY <1>3, <1>7, <2>1, TheSeverities DEF Reported, After, ResultIDs
  <2> QED BY <1>2, <1>6, <2>3, <2>4 DEF CheckStep
<1> QED BY <1>8, <1>9

LEMMA AppendToTwo ==
    ASSUME NEW S, NEW a \in S, NEW b \in S, NEW r \in S
    PROVE  Append(<<a, b>>, r) = <<a, b, r>>
<1>1. <<a, b>> \in Seq(S) /\ Len(<<a, b>>) = 2
  OBVIOUS
<1>2. /\ Append(<<a, b>>, r) \in Seq(S) /\ Len(Append(<<a, b>>, r)) = 3
      /\ Append(<<a, b>>, r)[1] = a /\ Append(<<a, b>>, r)[2] = b
      /\ Append(<<a, b>>, r)[3] = r
  BY <1>1
<1>3. <<a, b, r>> \in Seq(S) /\ Len(<<a, b, r>>) = 3
  OBVIOUS
<1>4. \A i \in 1..3 : Append(<<a, b>>, r)[i] = <<a, b, r>>[i]
  BY <1>2
<1> QED BY <1>2, <1>3, <1>4, SeqEqual

LEMMA AppendToThree ==
    ASSUME NEW a, NEW b, NEW c, NEW r
    PROVE  /\ Append(<<a, b, c>>, r)[1] = a
           /\ Append(<<a, b, c>>, r)[2] = b
           /\ Append(<<a, b, c>>, r)[3] = c
           /\ Append(<<a, b, c>>, r)[4] = r
<1> DEFINE S == {a, b, c, r}
<1>1. <<a, b, c>> \in Seq(S) /\ Len(<<a, b, c>>) = 3 /\ r \in S
  OBVIOUS
<1> QED BY <1>1

\* The primitives in the order they are asked for.
LEMMA TrafficAsks ==
    ASSUME NEW n \in 0..3
    PROVE  /\ n = 3 => Append(MeshGroups, "IngressClass")[n + 1] = "IngressClass"
           /\ n < 3 => Append(MeshGroups, "IngressClass")[n + 1] = MeshGroups[n + 1]
           /\ Append(MeshGroups, "IngressClass")[n + 1] \in Primitives
<1>1. PICK a, b, c : MeshGroups = <<a, b, c>>
  BY DEF MeshGroups
<1>2. MeshGroups[1] = a /\ MeshGroups[2] = b /\ MeshGroups[3] = c
  BY <1>1
<1>3. /\ Append(MeshGroups, "IngressClass")[1] = a
      /\ Append(MeshGroups, "IngressClass")[2] = b
      /\ Append(MeshGroups, "IngressClass")[3] = c
      /\ Append(MeshGroups, "IngressClass")[4] = "IngressClass"
  BY <1>1, AppendToThree
<1>4. a \in Primitives /\ b \in Primitives /\ c \in Primitives /\ "IngressClass" \in Primitives
  BY <1>2 DEF Primitives
<1>5. \/ n = 0 /\ n + 1 = 1
      \/ n = 1 /\ n + 1 = 2
      \/ n = 2 /\ n + 1 = 3
      \/ n = 3 /\ n + 1 = 4
  OBVIOUS
<1>6. CASE n = 3 /\ n + 1 = 4
  <2>1. ~(n < 3)
    BY <1>6
  <2>2. Append(MeshGroups, "IngressClass")[n + 1] = Append(MeshGroups, "IngressClass")[4]
    BY <1>6
  <2> QED BY <1>3, <1>4, <2>1, <2>2
<1>7. CASE n = 0 /\ n + 1 = 1
  BY <1>2, <1>3, <1>4, <1>7
<1>8. CASE n = 1 /\ n + 1 = 2
  BY <1>2, <1>3, <1>4, <1>8
<1>9. CASE n = 2 /\ n + 1 = 3
  BY <1>2, <1>3, <1>4, <1>9
<1> QED BY <1>5, <1>6, <1>7, <1>8, <1>9

\* The answers of the traffic check are so many times no.
LEMMA TrafficCounts ==
    ASSUME TrafficAnswers
    PROVE  /\ Len(answers) \in 0..3
           /\ Len(answers) < 3 =>
                 /\ Append(answers, "no") \in {<<>>, <<"no">>, <<"no", "no">>, <<"no", "no", "no">>}
                 /\ Len(Append(answers, "no")) = Len(answers) + 1
<1>1. CASE answers = <<>>
  BY <1>1
<1>2. CASE answers = <<"no">>
  <2>1. Append(answers, "no") = <<"no", "no">>
    BY <1>2, AppendToOne DEF YesNo
  <2>2. Len(answers) = 1 /\ Len(<<"no", "no">>) = 2
    BY <1>2
  <2> QED BY <2>1, <2>2
<1>3. CASE answers = <<"no", "no">>
  <2>1. Append(answers, "no") = <<"no", "no", "no">>
    BY <1>3, AppendToTwo
  <2>2. Len(answers) = 2 /\ Len(Append(answers, "no")) = 3
    BY <1>3, <2>1
  <2> QED BY <2>1, <2>2
<1>4. CASE answers = <<"no", "no", "no">>
  BY <1>4
<1> QED BY <1>1, <1>2, <1>3, <1>4 DEF TrafficAnswers

LEMMA TrafficStep ==
    ASSUME ClusterTypeOK, AnswersFit, ArgoTraffic
    PROVE  CheckStep
<1>1. Running /\ Doing(4, 10) /\ stage \in {4, 5} /\ check \in 1..10
  BY PlaceOfCheck DEF ArgoTraffic, ClusterTypeOK, Doing
<1>2. Placed("k8s.argorollouts.traffic")
  BY <1>1 DEF Placed, StageOf, PlaceOf
<1>3. TrafficAnswers
  BY <1>1 DEF AnswersFit
<1>4. PICK n \in 0..3 : n = Len(answers)
  BY <1>3, TrafficCounts
<1>5. PICK f : f = Append(MeshGroups, "IngressClass")[n + 1]
  OBVIOUS
<1>6. PICK r \in Reply(f) :
        /\ Called(r = "error")
        /\ CASE r = "yes" -> Return("k8s.argorollouts.traffic", "green")
             [] r # "yes" /\ n < 3 -> Continue("no")
             [] OTHER -> Return("k8s.argorollouts.traffic", "amber")
  BY <1>4, <1>5 DEF ArgoTraffic
<1>7. /\ r \in {"yes", "no", "error"}
      /\ r = "yes" => f \in facts
      /\ r = "no" => f \notin facts
      /\ r = "error" => May
  BY <1>6, ReplySays
<1>8. (r = "error") \in BOOLEAN
  OBVIOUS
<1>9. /\ ever' = ever /\ always' = always /\ always \subseteq facts /\ facts \subseteq ever
      /\ errors \in Nat /\ errors' = IF r = "error" THEN errors + 1 ELSE errors
  BY <1>6, <1>8, BracketOfCall
<1>10. OneCall
  BY <1>6, <1>7, <1>8 DEF OneCall
<1>11. /\ n = 3 => f = "IngressClass"
       /\ n < 3 => f = MeshGroups[n + 1]
       /\ f \in Primitives
  BY <1>5, TrafficAsks
<1>12. errors' = 0 /\ r # "yes" => errors = 0 /\ f \notin always'
  BY <1>7, <1>9
<1>13. errors' = 0 => \A i \in 1..n : MeshGroups[i] \notin always'
  BY <1>3, <1>4, <1>9 DEF TrafficAnswers
<1>14. CASE r = "yes"
  <2>1. Return("k8s.argorollouts.traffic", "green") /\ Primitives \cap ever' # {}
    BY <1>6, <1>7, <1>9, <1>11, <1>14
  <2>2. Backed("k8s.argorollouts.traffic", "green")'
    BY <2>1 DEF Backed, Primitives
  <2> QED BY <1>1, <1>2, <1>6, <1>7, <1>8, <2>1, <2>2, TheSeverities, ReturnStep DEF ResultIDs
<1>15. CASE r # "yes" /\ n < 3
  <2>1. Continue("no")
    BY <1>6, <1>15
  <2>2. /\ answers' \in {<<>>, <<"no">>, <<"no", "no">>, <<"no", "no", "no">>}
        /\ Len(answers') = n + 1
    BY <1>3, <1>4, <1>15, <2>1, TrafficCounts DEF Continue
  <2>3. ASSUME errors' = 0, NEW i \in 1..Len(answers')
        PROVE  MeshGroups[i] \notin always'
    <3>1. i \in 1..n \/ i = n + 1
      BY <2>2, <1>4, <2>3
    <3> QED BY <1>11, <1>12, <1>13, <1>15, <2>3, <3>1
  <2>4. TrafficAnswers'
    BY <2>2, <2>3 DEF TrafficAnswers, MeshGroups
  <2>5. AnswersFit'
    BY <1>1, <2>1, <2>4, KeepsAnswer
  <2> QED BY <1>1, <1>10, <2>1, <2>5, ContinueStep
<1>16. CASE r # "yes" /\ n = 3
  <2>1. Return("k8s.argorollouts.traffic", "amber")
    BY <1>6, <1>16
  <2>2. errors' = 0 => Primitives \cap always' = {}
    BY <1>11, <1>12, <1>13, <1>16 DEF Primitives
  <2>3. Backed("k8s.argorollouts.traffic", "amber")'
    BY <2>2 DEF Backed, Primitives
  <2> QED BY <1>1, <1>2, <1>6, <1>7, <1>8, <2>1, <2>3, TheSeverities, ReturnStep DEF ResultIDs
<1> QED BY <1>14, <1>15, <1>16

LEMMA NamespaceStep ==
    ASSUME ClusterTypeOK, AnswersFit, NamespaceCreatable
    PROVE  CheckStep
<1> DEFINE Asked == IF answers = <<>> THEN Namespace ELSE CreateNamespaces
<1>1. PICK r \in Reply(Asked) :
        /\ Called(r = "error")
        /\ CASE r = "yes"   -> Return("workload.namespace", "green")
             [] r = "error" -> Return("workload.namespace", "red")
             [] OTHER       -> IF answers = <<>> THEN Continue(r)
                               ELSE Return("workload.namespace", "red")
  BY DEF NamespaceCreatable
<1>2. Running /\ Doing(5, 1) /\ stage \in {4, 5} /\ check \in 1..10
  BY PlaceOfCheck DEF NamespaceCreatable, ClusterTypeOK, Doing
<1>3. Placed("workload.namespace")
  BY <1>2 DEF Placed, StageOf, PlaceOf
<1>4. /\ r \in {"yes", "no", "error"}
      /\ r = "yes" => Asked \in facts
      /\ r = "no" => Asked \notin facts
      /\ r = "error" => May
  BY <1>1, ReplySays
<1>5. (r = "error") \in BOOLEAN
  OBVIOUS
<1>6. /\ ever' = ever /\ always' = always /\ always \subseteq facts /\ facts \subseteq ever
      /\ errors \in Nat /\ errors' = IF r = "error" THEN errors + 1 ELSE errors
  BY <1>1, <1>5, BracketOfCall
<1>7. OneCall
  BY <1>1, <1>4, <1>5 DEF OneCall
<1>8. CASE r = "yes"
  <2>1. Return("workload.namespace", "green") /\ {Namespace, CreateNamespaces} \cap ever' # {}
    BY <1>1, <1>4, <1>6, <1>8
  <2>2. Backed("workload.namespace", "green")'
    BY <2>1 DEF Backed, Namespace, CreateNamespaces
  <2> QED BY <1>1, <1>2, <1>3, <1>4, <1>5, <2>1, <2>2, TheSeverities, ReturnStep DEF ResultIDs
<1>9. ASSUME Return("workload.namespace", "red"),
             errors' > 0 \/ {Namespace, CreateNamespaces} \cap always' = {}
      PROVE  CheckStep
  <2>1. Backed("workload.namespace", "red")'
    BY <1>9 DEF Backed, Namespace, CreateNamespaces
  <2> QED BY <1>1, <1>2, <1>3, <1>4, <1>5, <1>9, <2>1, TheSeverities, ReturnStep DEF ResultIDs
<1>10. CASE r = "error"
  BY <1>1, <1>6, <1>9, <1>10
<1>11. CASE r = "no" /\ answers = <<>>
  <2>1. Continue("no") /\ Namespace \notin facts
    BY <1>1, <1>4, <1>11
  <2>2. answers' = <<"no">> /\ Namespace \notin always'
    BY <1>6, <1>11, <2>1 DEF Continue
  <2>3. AnswersFit'
    BY <1>2, <2>1, <2>2, KeepsAnswer DEF NamespaceAnswers
  <2> QED BY <1>2, <1>7, <2>1, <2>3, ContinueStep
<1>12. CASE r = "no" /\ answers # <<>>
  <2>1. Return("workload.namespace", "red") /\ CreateNamespaces \notin facts
    BY <1>1, <1>4, <1>12
  <2>2. Namespace \notin always
    BY <1>2, <1>12 DEF AnswersFit, NamespaceAnswers
  <2> QED BY <1>6, <1>9, <2>1, <2>2
<1> QED BY <1>4, <1>8, <1>10, <1>11, <1>12

CheckAction ==
    \/ Unreachable
    \/ NetworkPolicy \/ Cilium \/ MetricsServer
    \/ MinVersion \/ PodSecurity
    \/ InstallTier
    \/ WorkloadIdentity
    \/ ArgoRollouts \/ ArgoVersion \/ ArgoTraffic
    \/ NamespaceCreatable \/ ImagePullable

\* What the checks have in common.
LEMMA EveryCheckSteps == ClusterTypeOK /\ AnswersFit /\ CheckAction => CheckStep
BY UnreachableStep, OneCallSteps, MinVersionStep, PodSecurityStep, InstallTierStep, IdentityStep,
   RolloutsStep, CanaryVersionStep, TrafficStep, NamespaceStep, ImageStep DEF CheckAction

-----------------------------------------------------------------------------
(* The invariant holds at the start and is kept.                            *)

\* What the invariant of the runner says while checks run.
LEMMA WhileRunning ==
    ASSUME IInv, Running
    PROVE  /\ stage \in 0..5 /\ pc = "stages" /\ ~failed /\ ~shortCircuited
           /\ report[stage] = "none" /\ status \in Severities
BY DEF IInv, TypeOK, AfterError, Progress, Running, StageIDs

\* Where the results come from.
LEMMA Places ==
    ASSUME NEW id \in OnCluster
    PROVE  /\ StageOf(id) \in {4, 5}
           /\ StageOf(id) = 4 => PlaceOf(id) \in 1..10
           /\ StageOf(id) = 5 => PlaceOf(id) \in 1..2
           /\ id \in CanaryParts => StageOf(id) = 4 /\ PlaceOf(id) \in {9, 10}
           /\ StageOf(id) = 4 /\ PlaceOf(id) \in {9, 10} => id \in CanaryParts
           /\ id = "k8s.argorollouts" <=> StageOf(id) = 4 /\ PlaceOf(id) = 8
BY DEF OnCluster, ResultIDs, StageOf, PlaceOf, CanaryParts

LEMMA OnePlace ==
    ASSUME NEW id \in OnCluster, NEW id2 \in OnCluster,
           StageOf(id) = StageOf(id2), PlaceOf(id) = PlaceOf(id2)
    PROVE  id = id2
BY DEF OnCluster, ResultIDs, StageOf, PlaceOf

\* What a check remembers is one of a few lists.
LEMMA AnswersAreFew ==
    ASSUME AnswersFit'
    PROVE  answers' \in {<<>>, <<"no">>, <<"yes">>, <<"no", "no">>, <<"no", "yes">>,
                         <<"yes", "no">>, <<"yes", "yes">>, <<"no", "no", "no">>}
<1>1. CASE answers' = <<>>
  BY <1>1
<1>2. CASE TierAnswers'
  BY <1>2 DEF TierAnswers, YesNo
<1>3. CASE IdentityAnswers' \/ NamespaceAnswers' \/ TrafficAnswers'
  BY <1>3 DEF IdentityAnswers, NamespaceAnswers, TrafficAnswers
<1>4. CASE RolloutAnswers'
  BY <1>4 DEF RolloutAnswers, YesNo
<1> QED BY <1>1, <1>2, <1>3, <1>4 DEF AnswersFit

\* A call keeps the bracket's type.
LEMMA CallKeepsBracket ==
    ASSUME ClusterTypeOK, NEW b \in BOOLEAN, Called(b), b => May
    PROVE  /\ ProbesTypeOK(Facts)'
           /\ version' \in Versions \cup {Unparsable}
           /\ Widens /\ errors \in Nat
<1>1. /\ errors \in 0..MaxIncidents /\ incidents \in errors..MaxIncidents
      /\ b => incidents < MaxIncidents
  BY DEF ClusterTypeOK, ProbesTypeOK, May
<1>2. errors' \in 0..MaxIncidents /\ incidents' \in errors'..MaxIncidents
  BY <1>1, ProbesConstants DEF Called, Probed
<1>3. UNCHANGED <<facts, ever, always, version>> /\ Widens
  BY CallWidens
<1>4. errors \in Nat
  BY <1>1, ProbesConstants
<1>5. ProbesTypeOK(Facts)'
  BY <1>2, <1>3 DEF ClusterTypeOK, ProbesTypeOK
<1> QED BY <1>3, <1>4, <1>5 DEF ClusterTypeOK

\* A change of the cluster keeps the bracket's type and widens it.
LEMMA ChangeKeepsBracket ==
    ASSUME ClusterTypeOK, NEW f \in Varying, Change(f)
    PROVE  /\ ProbesTypeOK(Facts)'
           /\ version' \in Versions \cup {Unparsable}
           /\ Widens /\ errors \in Nat /\ errors' = errors
<1>1. /\ facts \subseteq Facts /\ ever \subseteq Facts
      /\ always \subseteq facts /\ facts \subseteq ever
      /\ errors \in 0..MaxIncidents /\ incidents \in errors..MaxIncidents
      /\ incidents < MaxIncidents /\ f \in Facts
  BY ClusterConstants DEF ClusterTypeOK, ProbesTypeOK, Change, Flip, May
<1>2. /\ facts' = IF f \in facts THEN facts \ {f} ELSE facts \cup {f}
      /\ ever' = ever \cup facts' /\ always' = always \cap facts'
      /\ incidents' = incidents + 1 /\ errors' = errors /\ version' = version
  BY DEF Change, Flip
<1>3. facts' \subseteq Facts
  BY <1>1, <1>2
<1>4. errors' \in 0..MaxIncidents /\ incidents' \in errors'..MaxIncidents /\ errors \in Nat
  BY <1>1, <1>2, ProbesConstants
<1>5. ProbesTypeOK(Facts)'
  BY <1>1, <1>2, <1>3, <1>4 DEF ProbesTypeOK
<1>6. Widens
  BY <1>2 DEF Widens
<1> QED BY <1>2, <1>4, <1>5, <1>6 DEF ClusterTypeOK

\* What is in the report stays backed.
LEMMA ReportStaysBacked ==
    ASSUME errors \in Nat, Widens, AllBacked, UNCHANGED found
    PROVE  AllBacked'
BY BackedLasts DEF AllBacked

\* A step that leaves the report and the results alone.
LEMMA SameReport ==
    ASSUME InOrder, Collected, UNCHANGED <<options, failed, stage, results, report, check, found>>
    PROVE  InOrder' /\ Collected'
BY DEF InOrder, Collected, Usable, Behind

LEMMA InitClusterInv == ASSUME ClusterInit PROVE ClusterInv
<1>1. /\ pc = "flags" /\ stage = 0 /\ report = [id \in StageIDs |-> "none"]
      /\ results = [id \in StageIDs |-> {}]
      /\ version \in Versions \cup {Unparsable}
      /\ check = 1 /\ answers = <<>> /\ found = [id \in ResultIDs |-> "none"]
  BY DEF ClusterInit, Init
<1>2. PICK S \in SUBSET Varying : StartWith(Given \cup S)
  BY DEF ClusterInit
<1>3. ProbesTypeOK(Facts)
  BY <1>2, ProbesConstants, ClusterConstants DEF StartWith, ProbesTypeOK
<1>4. found \in [ResultIDs -> Severities \cup {"none"}]
  BY <1>1
<1>5. ClusterTypeOK
  BY <1>1, <1>3, <1>4 DEF ClusterTypeOK
<1>6. Idle /\ AnswersFit
  BY <1>1 DEF Idle, AnswersFit, Doing
<1>7. \A id \in ResultIDs : found[id] = "none"
  BY <1>1
<1>8. ASSUME NEW id \in ResultIDs PROVE Backed(id, "none")
  BY DEF Backed
<1>9. AllBacked
  BY <1>7, <1>8 DEF AllBacked
<1>10. \A id \in OnCluster : found[id] = "none" /\ ~Behind(id)
  <2>1. ASSUME NEW id \in OnCluster PROVE found[id] = "none" /\ ~Behind(id)
    <3>1. StageOf(id) \in {4, 5}
      BY Places
    <3>2. report[StageOf(id)] = "none" /\ stage # StageOf(id)
      BY <1>1, <3>1 DEF StageIDs
    <3> QED BY <1>7, <3>2 DEF Behind, OnCluster, Severities
  <2> QED BY <2>1
<1>11. InOrder
  BY <1>1, <1>7, <1>10 DEF InOrder, ResultIDs
<1>12. Collected
  BY <1>1, <1>10 DEF Collected, Severities, StageIDs
<1> QED BY <1>5, <1>6, <1>9, <1>11, <1>12 DEF ClusterInv

\* A result takes its place in the report.
LEMMA ReportedKeeps ==
    ASSUME IInv, ClusterInv, Running, NEW id \in ResultIDs, NEW s \in Severities, NEW kept,
           ReturnTo(id, s, After(id, s), kept), Placed(id), Backed(id, s)',
           errors \in Nat, Widens
    PROVE  /\ check' \in 1..11 /\ found' \in [ResultIDs -> Severities \cup {"none"}]
           /\ AllBacked' /\ InOrder' /\ Collected'
<1>1. /\ stage \in {4, 5} /\ check \in 1..10
      /\ stage = 4 /\ check = 8 => id = "k8s.argorollouts"
  BY PlaceIsStage
<1>2. id = "k8s.argorollouts" => stage = 4 /\ check = 8
  BY DEF Placed, Doing, StageOf, PlaceOf
<1>3. /\ check' = After(id, s)
      /\ found' = [found EXCEPT ![id] = s]
      /\ results' = [results EXCEPT ![stage] = @ \cup {s}]
      /\ UNCHANGED <<options, failed, stage, report>>
  BY DEF ReturnTo, ReportResult
<1>4. check' \in 1..11
  BY <1>1, <1>2, <1>3 DEF After
<1>5. /\ found \in [ResultIDs -> Severities \cup {"none"}]
      /\ results \in [StageIDs -> SUBSET Severities]
  BY DEF ClusterInv, ClusterTypeOK, IInv, TypeOK
<1>6. found' \in [ResultIDs -> Severities \cup {"none"}]
  BY <1>3, <1>5
<1>7. /\ found'[id] = s
      /\ \A id2 \in ResultIDs : id2 # id => found'[id2] = found[id2]
  BY <1>3, <1>5
<1>8. AllBacked'
  <2>1. ASSUME NEW id2 \in ResultIDs PROVE Backed(id2, found[id2])'
    <3>1. PICK t : t = found'[id2] /\ Backed(id2, t)'
      <4>1. CASE id2 = id
        BY <4>1, <1>7
      <4>2. CASE id2 # id
        <5>1. Backed(id2, found[id2]) /\ found'[id2] = found[id2]
          BY <4>2, <1>7 DEF ClusterInv, AllBacked
        <5>2. PICK t : t = found[id2]
          OBVIOUS
        <5> QED BY <5>1, <5>2, BackedLasts
      <4> QED BY <4>1, <4>2
    <3> QED BY <3>1 DEF Backed
  <2> QED BY <2>1 DEF AllBacked
<1>9. report[stage] = "none" /\ "none" \notin Severities
  BY WhileRunning DEF Severities
<1>10. ASSUME Usable
       PROVE  /\ id \in OnCluster /\ id # "k8s.unreachable"
              /\ stage = StageOf(id) /\ check = PlaceOf(id) /\ ~Behind(id)
              /\ found[id] = "none"
  <2>1. id # "k8s.unreachable" /\ id \in OnCluster
    BY <1>10 DEF Placed, Usable, OnCluster
  <2>2. stage = StageOf(id) /\ check = PlaceOf(id)
    BY <2>1 DEF Placed, Doing
  <2>3. ~Behind(id)
    BY <1>1, <1>9, <2>2 DEF Behind
  <2> QED BY <1>10, <2>1, <2>2, <2>3 DEF ClusterInv, InOrder
<1>11. Usable' = Usable
  BY <1>3 DEF Usable
<1>12. ASSUME Usable, NEW id2 \in OnCluster, id2 # id
       PROVE  \/ Behind(id2)' = Behind(id2)
              \/ /\ id = "k8s.argorollouts" /\ s # "green" /\ id2 \in CanaryParts
                 /\ ~Behind(id2)
  <2>1. CASE StageOf(id2) # stage
    BY <2>1, <1>3 DEF Behind
  <2>2. CASE StageOf(id2) = stage
    <3>1. PlaceOf(id2) # check /\ PlaceOf(id2) \in 1..10
      BY <1>10, <1>12, <2>2, OnePlace, Places
    <3>2. CASE check' = check + 1
      BY <1>1, <1>3, <3>1, <3>2 DEF Behind
    <3>3. CASE check' # check + 1
      <4>1. id = "k8s.argorollouts" /\ s # "green" /\ check' = 11 /\ check = 8 /\ stage = 4
        BY <1>2, <1>3, <3>3 DEF After
      <4>2. CASE id2 \in CanaryParts
        <5>1. PlaceOf(id2) > check
          BY <4>1, <4>2, Places
        <5> QED BY <4>1, <4>2, <5>1, <3>1, <1>9, <2>2 DEF Behind
      <4>3. CASE id2 \notin CanaryParts
        <5>1. PlaceOf(id2) < 8
          BY <4>1, <4>3, <3>1, <2>2, Places
        <5> QED BY <4>1, <5>1, <3>1, <1>3 DEF Behind
      <4> QED BY <4>2, <4>3
    <3> QED BY <3>2, <3>3
  <2> QED BY <2>1, <2>2
<1>13. InOrder'
  <2> SUFFICES ASSUME Usable
               PROVE  /\ found'["k8s.unreachable"] = "none"
                      /\ \A id2 \in OnCluster :
                            found'[id2] # "none" <=>
                                /\ Behind(id2)'
                                /\ id2 \in CanaryParts => found'["k8s.argorollouts"] = "green"
                      /\ stage = 4 /\ check' \in {9, 10} => found'["k8s.argorollouts"] = "green"
    BY <1>3, <1>11 DEF InOrder
  <2>1. /\ found["k8s.unreachable"] = "none"
        /\ \A id2 \in OnCluster :
              found[id2] # "none" <=>
                  /\ Behind(id2)
                  /\ id2 \in CanaryParts => found["k8s.argorollouts"] = "green"
        /\ stage = 4 /\ check \in {9, 10} => found["k8s.argorollouts"] = "green"
    BY DEF ClusterInv, InOrder
  <2>2. found'["k8s.unreachable"] = "none"
    BY <1>7, <1>10, <2>1 DEF ResultIDs
  <2>3. "k8s.argorollouts" \in ResultIDs /\ "k8s.argorollouts" \notin CanaryParts
    BY DEF ResultIDs, CanaryParts
  <2>4. stage = 4 /\ check' \in {9, 10} => found'["k8s.argorollouts"] = "green"
    <3>1. CASE id = "k8s.argorollouts"
      BY <3>1, <1>2, <1>3, <1>7 DEF After
    <3>2. CASE id # "k8s.argorollouts"
      BY <3>2, <1>1, <1>3, <1>7, <2>1, <2>3 DEF After
    <3> QED BY <3>1, <3>2
  <2>5. Behind(id)'
    BY <1>1, <1>3, <1>10 DEF Behind, After
  <2>6. id \in CanaryParts => found'["k8s.argorollouts"] = "green"
    <3> SUFFICES ASSUME id \in CanaryParts PROVE found'["k8s.argorollouts"] = "green"
      OBVIOUS
    <3>1. stage = 4 /\ check \in {9, 10}
      BY <1>10, Places
    <3> QED BY <3>1, <2>1, <2>3, <1>7
  <2>7. ASSUME NEW id2 \in OnCluster, id2 # id
        PROVE  found'[id2] # "none" <=>
                   /\ Behind(id2)'
                   /\ id2 \in CanaryParts => found'["k8s.argorollouts"] = "green"
    <3>1. found'[id2] = found[id2]
      BY <2>7, <1>7 DEF OnCluster
    <3>2. CASE id # "k8s.argorollouts"
      BY <1>7, <1>12, <2>1, <2>3, <2>7, <3>1, <3>2
    <3>3. CASE id = "k8s.argorollouts" /\ id2 \notin CanaryParts
      BY <1>12, <2>1, <2>7, <3>1, <3>3
    <3>4. CASE id = "k8s.argorollouts" /\ id2 \in CanaryParts
      <4>1. PlaceOf(id2) \in {9, 10} /\ StageOf(id2) = 4 /\ stage = 4 /\ check = 8
        BY <1>2, <3>4, Places
      <4>2. ~Behind(id2)
        BY <1>9, <4>1 DEF Behind
      <4>3. found'[id2] = "none"
        BY <2>1, <3>1, <4>2
      <4>4. s = "green" => ~Behind(id2)'
        BY <1>3, <1>9, <4>1 DEF Behind, After
      <4> QED BY <1>7, <3>4, <4>3, <4>4
    <3> QED BY <3>2, <3>3, <3>4
  <2>8. found'[id] # "none"
    BY <1>7, <1>9
  <2> QED BY <2>2, <2>4, <2>5, <2>6, <2>7, <2>8
<1>14. Collected'
  <2> SUFFICES ASSUME Usable, NEW st \in {4, 5}, NEW t \in Severities
               PROVE  t \in results'[st]
                        <=> \E id2 \in OnCluster : StageOf(id2) = st /\ found'[id2] = t
    BY <1>11 DEF Collected
  <2>1. t \in results[st] <=> \E id2 \in OnCluster : StageOf(id2) = st /\ found[id2] = t
    BY DEF ClusterInv, Collected
  <2>2. results'[st] = IF st = stage THEN results[st] \cup {s} ELSE results[st]
    BY <1>1, <1>3, <1>5 DEF StageIDs
  <2>3. \A id2 \in OnCluster : id2 # id => found'[id2] = found[id2]
    BY <1>7 DEF OnCluster
  <2>4. found[id] # t
    BY <1>9, <1>10
  <2> QED BY <1>7, <1>10, <2>1, <2>2, <2>3, <2>4
<1> QED BY <1>4, <1>6, <1>8, <1>13, <1>14

LEMMA CheckStepKeeps == ASSUME IInv, ClusterInv, CheckStep PROVE ClusterInv'
<1>1. /\ Running /\ stage \in {4, 5} /\ check \in 1..10 /\ AnswersFit'
      /\ Reported \/ UNCHANGED <<vars, check, found>>
  BY DEF CheckStep
<1>2. PICK b \in BOOLEAN : Called(b) /\ (b => May)
  BY DEF CheckStep, OneCall
<1>3. /\ ProbesTypeOK(Facts)' /\ version' \in Versions \cup {Unparsable}
      /\ Widens /\ errors \in Nat
  BY <1>2, CallKeepsBracket DEF ClusterInv
<1>4. answers' \in {<<>>, <<"no">>, <<"yes">>, <<"no", "no">>, <<"no", "yes">>,
                    <<"yes", "no">>, <<"yes", "yes">>, <<"no", "no", "no">>}
  BY <1>1, AnswersAreFew
<1>5. UNCHANGED <<stage, shortCircuited, pc>>
  BY <1>1 DEF Reported, ReturnTo, ReportResult, vars
<1>6. Idle'
  BY <1>1, <1>5, WhileRunning DEF Idle
<1>7. /\ check' \in 1..11 /\ found' \in [ResultIDs -> Severities \cup {"none"}]
      /\ AllBacked' /\ InOrder' /\ Collected'
  <2>1. CASE Reported
    <3>1. PICK id \in ResultIDs, s \in Severities :
            (\E kept : ReturnTo(id, s, After(id, s), kept)) /\ Placed(id) /\ Backed(id, s)'
      BY <2>1 DEF Reported
    <3>2. PICK kept : ReturnTo(id, s, After(id, s), kept)
      BY <3>1
    <3> QED BY <1>1, <1>3, <3>1, <3>2, ReportedKeeps
  <2>2. CASE UNCHANGED <<vars, check, found>>
    BY <2>2, <1>3, ReportStaysBacked, SameReport DEF ClusterInv, ClusterTypeOK, vars
  <2> QED BY <1>1, <2>1, <2>2
<1>8. ClusterTypeOK'
  BY <1>3, <1>4, <1>7 DEF ClusterTypeOK
<1> QED BY <1>1, <1>6, <1>7, <1>8 DEF ClusterInv

\* A step that leaves the bracket, the check and the report alone.
LEMMA FrameKeeps ==
    ASSUME ClusterInv, UNCHANGED <<clusterVars, checkVars>>
    PROVE  ClusterTypeOK' /\ AllBacked' /\ errors \in Nat /\ Widens
<1>1. UNCHANGED <<facts, incidents, errors, ever, always, version, check, answers, found>>
  BY DEF clusterVars, probeVars, checkVars
<1>2. ClusterTypeOK'
  BY <1>1 DEF ClusterInv, ClusterTypeOK, ProbesTypeOK
<1>3. errors \in Nat /\ Widens
  BY <1>1, ProbesConstants DEF ClusterInv, ClusterTypeOK, ProbesTypeOK, Widens
<1> QED BY <1>1, <1>2, <1>3, ReportStaysBacked DEF ClusterInv

\* The cluster changes, or nothing does.
LEMMA ChangeKeeps ==
    ASSUME ClusterInv, UNCHANGED <<vars, checkVars>>, Widens, errors \in Nat, errors' = errors,
           ProbesTypeOK(Facts)', version' \in Versions \cup {Unparsable}
    PROVE  ClusterInv'
<1>1. /\ UNCHANGED <<check, answers, found>>
      /\ UNCHANGED <<options, pc, failed, stage, results, report, shortCircuited>>
  BY DEF checkVars, vars
<1>2. ClusterTypeOK'
  BY <1>1 DEF ClusterInv, ClusterTypeOK
<1>3. Idle'
  BY <1>1 DEF ClusterInv, Idle
<1>4. AnswersFit'
  BY <1>1, AnswersLast DEF ClusterInv
<1>5. AllBacked' /\ InOrder' /\ Collected'
  BY <1>1, ReportStaysBacked, SameReport DEF ClusterInv
<1> QED BY <1>2, <1>3, <1>4, <1>5 DEF ClusterInv

\* A check of a stage before the cluster's.
LEMMA CloudCheckKeeps == ASSUME IInv, ClusterInv, CloudCheck PROVE ClusterInv'
<1>1. /\ stage \in 0..3 /\ UNCHANGED <<clusterVars, checkVars>>
      /\ UNCHANGED <<options, pc, failed, stage, report, shortCircuited>>
  BY ClusterConstants, StageNumbers DEF CloudCheck, ReportResult, StageIDs
<1>2. PICK s : results' = [results EXCEPT ![stage] = @ \cup {s}]
  BY DEF CloudCheck, ReportResult
<1>3. UNCHANGED <<check, answers, found, errors>>
  BY <1>1 DEF checkVars, clusterVars, probeVars
<1>4. \A st \in {4, 5} : results'[st] = results[st]
  BY <1>1, <1>2 DEF IInv, TypeOK, StageIDs
<1>5. ClusterTypeOK' /\ AllBacked' /\ errors \in Nat /\ Widens
  BY <1>1, FrameKeeps
<1>6. Idle' /\ AnswersFit'
  BY <1>1, <1>3, <1>5, AnswersLast DEF ClusterInv, Idle
<1>7. InOrder' /\ Collected'
  BY <1>1, <1>3, <1>4 DEF ClusterInv, InOrder, Collected, Usable, Behind
<1> QED BY <1>5, <1>6, <1>7 DEF ClusterInv

\* The last check of a stage has been run.
LEMMA StageDoneKeeps == ASSUME IInv, ClusterInv, StageDone PROVE ClusterInv'
<1>1. /\ Running /\ check > Len(Checks(stage)) /\ check' = 1
      /\ stage' = stage + 1 /\ report' = [report EXCEPT ![stage] = status]
      /\ UNCHANGED <<options, pc, failed, results, answers, found>>
      /\ UNCHANGED <<facts, incidents, errors, ever, always, version>>
  BY DEF StageDone, EndStage, clusterVars, probeVars
<1>2. /\ stage \in 0..5 /\ report[stage] = "none" /\ status \in Severities
      /\ report \in [StageIDs -> Statuses \cup {"none"}]
  BY <1>1, WhileRunning DEF IInv, TypeOK
<1>3. check \in 1..11 /\ errors \in Nat /\ Widens
  BY <1>1, ProbesConstants DEF ClusterInv, ClusterTypeOK, ProbesTypeOK, Widens
<1>4. options.kubeconfig # "none" => (stage = 4 => check > 10) /\ (stage = 5 => check > 2)
  <2>1. CASE stage = 4 /\ options.kubeconfig # "none"
    <3>1. Len(Checks(stage)) = 10
      BY <2>1, ListOfChecks
    <3>2. check > 10
      BY <1>1, <3>1
    <3> QED BY <2>1, <3>2
  <2>2. CASE stage = 5 /\ options.kubeconfig # "none"
    <3>1. Len(Checks(stage)) = 2
      BY <2>2, ListOfChecks
    <3> QED BY <1>1, <1>3, <2>2, <3>1
  <2> QED BY <2>1, <2>2
<1>5. answers' = <<>>
  BY <1>1, <1>4 DEF ClusterInv, AnswersFit, Doing
<1>6. AnswersFit' /\ Idle'
  BY <1>1, <1>5, BeginsAnew DEF Idle, Doing
<1>7. ClusterTypeOK'
  BY <1>1, <1>5 DEF ClusterInv, ClusterTypeOK, ProbesTypeOK
<1>8. AllBacked'
  BY <1>1, <1>3, ReportStaysBacked DEF ClusterInv
<1>9. ASSUME Usable, NEW id \in OnCluster PROVE Behind(id)' = Behind(id)
  <2>1. StageOf(id) \in {4, 5} /\ PlaceOf(id) \in 1..10
    BY Places
  <2>2. CASE stage = StageOf(id)
    <3>1. Behind(id)'
      BY <1>1, <1>2, <2>1, <2>2 DEF Behind, StageIDs
    <3>2. options.kubeconfig # "none"
      BY <1>9 DEF Usable
    <3>3. check > PlaceOf(id)
      <4>1. CASE StageOf(id) = 4
        <5>1. PlaceOf(id) \in 1..10 /\ check > 10
          BY <1>4, <2>1, <2>2, <3>2, <4>1
        <5> QED BY <1>3, <5>1
      <4>2. CASE StageOf(id) = 5
        <5>1. PlaceOf(id) \in 1..2 /\ check > 2
          BY <1>4, <2>2, <3>2, <4>2, Places
        <5> QED BY <1>3, <5>1
      <4> QED BY <2>1, <4>1, <4>2
    <3> QED BY <3>1, <3>3, <2>2 DEF Behind
  <2>3. CASE stage # StageOf(id)
    <3>1. report'[StageOf(id)] = report[StageOf(id)]
      BY <1>1, <1>2, <2>1, <2>3 DEF StageIDs
    <3>2. ~(check' > PlaceOf(id))
      BY <1>1, <2>1
    <3> QED BY <2>3, <3>1, <3>2 DEF Behind
  <2> QED BY <2>2, <2>3
<1>10. InOrder'
  BY <1>1, <1>9 DEF ClusterInv, InOrder, Usable
<1>11. Collected'
  BY <1>1 DEF ClusterInv, Collected, Usable
<1> QED BY <1>6, <1>7, <1>8, <1>10, <1>11 DEF ClusterInv

\* The other steps of the runner.
LEMMA RunnerStepKeeps ==
    ASSUME IInv, ClusterInv, StartStages \/ EmitError \/ SkipStage \/ PrintReport,
           UNCHANGED <<clusterVars, checkVars>>
    PROVE  ClusterInv'
<1>1. UNCHANGED <<check, answers, found, errors>>
  BY DEF checkVars, clusterVars, probeVars
<1>2. ClusterTypeOK' /\ AllBacked' /\ errors \in Nat /\ Widens
  BY FrameKeeps
<1>3. ASSUME answers = <<>>, check = 1 PROVE Idle' /\ AnswersFit'
  BY <1>1, <1>3, BeginsAnew DEF Idle, Doing
<1>4. CASE StartStages
  <2>1. UNCHANGED <<options, failed, stage, results, report, check, found>> /\ pc = "flags"
    BY <1>1, <1>4 DEF StartStages
  <2>2. Idle' /\ AnswersFit'
    BY <1>3, <2>1 DEF ClusterInv, Idle
  <2> QED BY <1>2, <2>1, <2>2, SameReport DEF ClusterInv
<1>5. CASE PrintReport
  <2>1. UNCHANGED <<options, failed, stage, results, report, check, found>> /\ stage = 6
    BY <1>1, <1>5 DEF PrintReport
  <2>2. Idle' /\ AnswersFit'
    BY <1>3, <2>1 DEF ClusterInv, Idle
  <2> QED BY <1>2, <2>1, <2>2, SameReport DEF ClusterInv
<1>6. CASE EmitError
  <2>1. failed' = TRUE /\ pc = "flags"
    BY <1>6 DEF EmitError
  <2>2. Idle' /\ AnswersFit'
    BY <1>3, <2>1 DEF ClusterInv, Idle
  <2> QED BY <1>2, <2>1, <2>2 DEF ClusterInv, InOrder, Collected, Usable
<1>7. CASE SkipStage
  <2>1. /\ stage < 6 /\ shortCircuited /\ pc = "stages"
        /\ report' = [report EXCEPT ![stage] = "skipped"] /\ stage' = stage + 1
        /\ UNCHANGED <<options, failed, results>>
    BY <1>7 DEF SkipStage
  <2>2. check = 1 /\ answers = <<>>
    BY <2>1 DEF ClusterInv, Idle
  <2>3. stage \in 0..5 /\ report[stage] = "none" /\ report \in [StageIDs -> Statuses \cup {"none"}]
    BY <2>1 DEF IInv, TypeOK, AfterError, Progress, StageIDs
  <2>4. ASSUME NEW id \in OnCluster PROVE Behind(id)' = Behind(id)
    <3>1. StageOf(id) \in {4, 5} /\ PlaceOf(id) \in 1..10
      BY Places
    <3>2. ~(check > PlaceOf(id)) /\ ~(check' > PlaceOf(id))
      BY <1>1, <2>2, <3>1
    <3>3. report'[StageOf(id)] \in Severities <=> report[StageOf(id)] \in Severities
      BY <2>1, <2>3, <3>1 DEF StageIDs, Severities
    <3> QED BY <3>2, <3>3 DEF Behind
  <2>5. InOrder' /\ Collected'
    BY <1>1, <2>1, <2>2, <2>4 DEF ClusterInv, InOrder, Collected, Usable
  <2> QED BY <1>2, <1>3, <2>2, <2>5 DEF ClusterInv
<1> QED BY <1>4, <1>5, <1>6, <1>7

\* Every step keeps the invariant.
LEMMA NextKeepsClusterInv == IInv /\ ClusterInv /\ [ClusterNext]_allVars => ClusterInv'
<1> SUFFICES ASSUME IInv, ClusterInv, [ClusterNext]_allVars PROVE ClusterInv'
  OBVIOUS
<1>1. CASE CheckAction
  BY <1>1, EveryCheckSteps, CheckStepKeeps DEF ClusterInv
<1>2. CASE CloudCheck
  BY <1>2, CloudCheckKeeps
<1>3. CASE StageDone
  BY <1>3, StageDoneKeeps
<1>4. CASE (StartStages \/ EmitError \/ SkipStage \/ PrintReport) /\ UNCHANGED <<clusterVars, checkVars>>
  BY <1>4, RunnerStepKeeps
<1>5. ASSUME NEW f \in Varying, Change(f) PROVE ClusterInv'
  <2>1. UNCHANGED <<vars, checkVars>>
    BY <1>5 DEF Change
  <2> QED BY <1>5, <2>1, ChangeKeepsBracket, ChangeKeeps DEF ClusterInv
<1>6. CASE UNCHANGED allVars
  <2>1. UNCHANGED <<vars, checkVars, clusterVars>> /\ errors' = errors
    BY <1>6 DEF allVars, clusterVars, probeVars
  <2>2. ProbesTypeOK(Facts)' /\ version' \in Versions \cup {Unparsable}
    BY <2>1 DEF ClusterInv, ClusterTypeOK, ProbesTypeOK, clusterVars, probeVars
  <2> QED BY <2>1, <2>2, FrameKeeps, ChangeKeeps
<1> QED BY <1>1, <1>2, <1>3, <1>4, <1>5, <1>6 DEF ClusterNext, Preflight, CheckAction

-----------------------------------------------------------------------------
(* The theorems.                                                            *)

\* The call-by-call preflight, on a cluster that changes, implements the runner
\* (k8sstages.go against check.go and main.go).
THEOREM ClusterImplementsRunner == ClusterSpec => Init /\ [][Next]_vars
<1>1. ClusterInit => Init
  BY DEF ClusterInit
<1> QED BY <1>1, ClusterIsRunner, PTL DEF ClusterSpec

\* The invariants the theorems rest on.
LEMMA ClusterInvariance == ClusterSpec => [](IInv /\ ClusterInv)
<1>1. ClusterInit => IInv /\ ClusterInv
  BY InitIInv, InitClusterInv DEF ClusterInit
<1>2. IInv /\ ClusterInv /\ [ClusterNext]_allVars => (IInv /\ ClusterInv)'
  BY NextKeepsIInv, NextKeepsClusterInv, ClusterIsRunner
<1> QED BY <1>1, <1>2, PTL DEF ClusterSpec

\* Every variable keeps its type: a check never leaves its stage's list, the
\* bracket stays one, and no check remembers more than it has asked.
THEOREM ClusterTypeCorrect == ClusterSpec => []ClusterTypeOK
<1>1. ClusterInv => ClusterTypeOK
  BY DEF ClusterInv
<1> QED BY <1>1, ClusterInvariance, PTL

\* A verdict that is not red leaves no room: both stages ran, all their checks
\* left a result and none of them is red.
LEMMA GoMeansResults ==
    ASSUME IInv, ClusterInv, Printed, verdict # "red"
    PROVE  /\ Usable
           /\ \A id \in OnCluster \ CanaryParts : found[id] \in {"green", "amber"}
<1>1. ~failed /\ pc = "printed" /\ options.kubeconfig = "ok"
  BY IInvGivesNoGo DEF Printed, NoClusterNoGo
<1>2. Usable
  BY <1>1 DEF Usable
<1>3. ASSUME NEW st \in {4, 5} PROVE report[st] \in Severities /\ "red" \notin results[st]
  <2>1. st \in StageIDs /\ Blocking(st)
    BY StageNumbers DEF StageIDs, Blocking, Provisioned
  <2>2. stage = 6 /\ ~(\E j \in Before(stage) : BlockingRed(j)) /\ st < 6
    BY <1>1 DEF IInv, Progress, VerdictSoFar
  <2>3. report[st] # "skipped"
    <3>1. st \in Before(stage) /\ \A j \in Before(st) : j \in Before(stage)
      BY <2>1, <2>2 DEF Before, StageIDs
    <3> QED BY <1>1, <2>2, <3>1 DEF IInv, ShortCircuit
  <2>4. report[st] \in Severities
    BY <1>1, <2>1, <2>2, <2>3 DEF IInv, Progress
  <2>5. "red" \notin results[st]
    BY <1>1, <2>1, IInvGivesTruth DEF VerdictIsTruth
  <2> QED BY <2>4, <2>5
<1>4. ASSUME NEW id \in OnCluster \ CanaryParts PROVE found[id] \in {"green", "amber"}
  <2>1. StageOf(id) \in {4, 5} /\ id \in OnCluster /\ id \in ResultIDs
    BY Places DEF OnCluster
  <2>2. Behind(id)
    BY <1>3, <2>1 DEF Behind
  <2>3. found[id] # "none"
    BY <1>2, <1>4, <2>1, <2>2 DEF ClusterInv, InOrder
  <2>4. found[id] # "red"
    BY <1>2, <1>3, <2>1, TheSeverities DEF ClusterInv, Collected
  <2>5. found[id] \in Severities \cup {"none"}
    BY <2>1 DEF ClusterInv, ClusterTypeOK
  <2> QED BY <2>3, <2>4, <2>5 DEF Severities
<1> QED BY <1>2, <1>4

\* The floor of the version check, spelt out.
LEMMA TheFloor ==
    NewEnough <=> (version \in Versions => version[1] > 1 \/ (version[1] = 1 /\ version[2] >= 26))
<1>1. version \in Versions => version[1] \in Nat /\ version[2] \in Nat
  BY ClusterConstants
<1> QED BY <1>1 DEF NewEnough, Below

LEMMA InvGivesGo == IInv /\ ClusterInv => NoFalseGo
<1> SUFFICES ASSUME IInv, ClusterInv, Printed, verdict # "red"
             PROVE  /\ NewEnough
                    /\ Deployable(ever)
                    /\ HasIdentity(ever) \/ found["k8s.workloadidentity"] = "amber"
  BY TheFloor DEF NoFalseGo
<1>1. \A id \in OnCluster \ CanaryParts :
         id \in ResultIDs /\ found[id] \in {"green", "amber"} /\ Backed(id, found[id])
  BY GoMeansResults DEF ClusterInv, AllBacked, OnCluster
<1>2. {"k8s.networkpolicy", "k8s.minversion", "k8s.installtier", "k8s.workloadidentity",
       "workload.namespace"} \subseteq OnCluster \ CanaryParts
  BY DEF OnCluster, ResultIDs, CanaryParts
<1>3. NewEnough
  BY <1>1, <1>2 DEF Backed
<1>4. "networking.k8s.io" \in ever
  <2>1. Backed("k8s.networkpolicy", found["k8s.networkpolicy"])
        /\ found["k8s.networkpolicy"] \in {"green", "amber"}
    BY <1>1, <1>2
  <2> QED BY <2>1 DEF Backed
<1>5. {CreateCRDs, CreateClusterRoles} \subseteq ever \/ CreateDeployments \in ever
  <2>1. Backed("k8s.installtier", found["k8s.installtier"])
        /\ found["k8s.installtier"] \in {"green", "amber"}
    BY <1>1, <1>2
  <2> QED BY <2>1 DEF Backed
<1>6. Namespace \in ever \/ CreateNamespaces \in ever
  <2>1. Backed("workload.namespace", found["workload.namespace"])
        /\ found["workload.namespace"] \in {"green", "amber"}
    BY <1>1, <1>2
  <2>2. {Namespace, CreateNamespaces} \cap ever # {}
    BY <2>1 DEF Backed
  <2> QED BY <2>2
<1>7. HasIdentity(ever) \/ found["k8s.workloadidentity"] = "amber"
  <2>1. Backed("k8s.workloadidentity", found["k8s.workloadidentity"])
        /\ found["k8s.workloadidentity"] \in {"green", "amber"}
    BY <1>1, <1>2
  <2> QED BY <2>1 DEF Backed
<1> QED BY <1>3, <1>4, <1>5, <1>6, <1>7 DEF Deployable

\* A verdict that lets the deploy go on is backed by the cluster, whatever
\* changes and fails during the run (k8sstages.go:284-304, 348-446).
THEOREM GoIsFounded == ClusterSpec => []NoFalseGo
BY InvGivesGo, ClusterInvariance, PTL

LEMMA InvGivesAlarm == IInv /\ ClusterInv => NoFalseAlarm
<1> SUFFICES ASSUME IInv, ClusterInv, Printed, options.kubeconfig = "ok", errors = 0,
                    \A id \in Provisioned : Blocking(id) => "red" \notin results[id],
                    Deployable(always), HasIdentity(always), NewEnough, verdict = "red"
             PROVE  FALSE
  BY TheFloor DEF NoFalseAlarm
<1>1. PICK st \in StageIDs : Blocking(st) /\ "red" \in results[st]
  BY IInvGivesTruth DEF VerdictIsTruth, Printed
<1>2. st \in {4, 5}
  BY <1>1, StageNumbers DEF StageIDs, Provisioned
<1>3. PICK id \in OnCluster : found[id] = "red"
  BY <1>1, <1>2, TheSeverities DEF ClusterInv, Collected, Usable, Printed
<1>4. id \in ResultIDs /\ Backed(id, "red")
  BY <1>3 DEF ClusterInv, AllBacked, OnCluster
<1>5. ~(errors > 0)
  OBVIOUS
<1>6. id \in {"k8s.networkpolicy", "k8s.minversion", "k8s.installtier", "k8s.workloadidentity",
              "workload.namespace"}
  BY <1>3, <1>4 DEF Backed, ResultIDs, OnCluster
<1>7. CASE id = "k8s.networkpolicy"
  BY <1>4, <1>5, <1>7 DEF Backed, Deployable
<1>8. CASE id = "k8s.minversion"
  BY <1>4, <1>5, <1>8 DEF Backed
<1>9. CASE id = "k8s.installtier"
  BY <1>4, <1>5, <1>9 DEF Backed, Deployable
<1>10. CASE id = "k8s.workloadidentity"
  BY <1>4, <1>10 DEF Backed
<1>11. CASE id = "workload.namespace"
  <2>1. {Namespace, CreateNamespaces} \cap always = {}
    BY <1>4, <1>5, <1>11 DEF Backed
  <2> QED BY <2>1 DEF Deployable
<1> QED BY <1>6, <1>7, <1>8, <1>9, <1>10, <1>11

\* A red verdict has a reason, and a missing extra is none
\* (k8sstages.go:162-261, docs/operations/common/preflight.md:95).
THEOREM AlarmHasReason == ClusterSpec => []NoFalseAlarm
BY InvGivesAlarm, ClusterInvariance, PTL

LEMMA InvGivesCanary == IInv /\ ClusterInv => CanaryIsHonest
<1> SUFFICES ASSUME IInv, ClusterInv PROVE CanaryIsHonest
  OBVIOUS
<1>1. {"k8s.argorollouts", "k8s.argorollouts.version", "k8s.argorollouts.traffic"}
        \subseteq OnCluster
  BY DEF OnCluster, ResultIDs
<1>2. Backed("k8s.argorollouts.version", found["k8s.argorollouts.version"])
      /\ Backed("k8s.argorollouts.traffic", found["k8s.argorollouts.traffic"])
  BY DEF ClusterInv, AllBacked, ResultIDs
<1>3. ASSUME report[StageKubernetes] \in Severities, options.kubeconfig = "ok", ~failed
      PROVE  found["k8s.argorollouts"] = "green" <=>
               "none" \notin {found["k8s.argorollouts.version"], found["k8s.argorollouts.traffic"]}
  <2>1. Behind("k8s.argorollouts.version") /\ Behind("k8s.argorollouts.traffic")
    BY <1>3, StageNumbers DEF Behind, StageOf
  <2>2. Usable
    BY <1>3 DEF Usable
  <2> QED BY <1>1, <2>1, <2>2 DEF ClusterInv, InOrder, CanaryParts
<1>4. found["k8s.argorollouts.version"] # "none" => Rollouts \in ever
  BY <1>2 DEF Backed
<1>5. found["k8s.argorollouts.version"] = "green" => RolloutVersion \in ever
  BY <1>2 DEF Backed
<1>6. found["k8s.argorollouts.traffic"] = "green" => Primitives \cap ever # {}
  BY <1>2 DEF Backed
<1>7. found["k8s.argorollouts.traffic"] = "amber" /\ errors = 0 => Primitives \cap always = {}
  BY <1>2 DEF Backed
<1> QED BY <1>3, <1>4, <1>5, <1>6, <1>7 DEF CanaryIsHonest, Primitives

\* The three parts of the canary check hang together and none is made up
\* (k8sstages.go:199-261).
THEOREM CanaryTellsTheTruth == ClusterSpec => []CanaryIsHonest
BY InvGivesCanary, ClusterInvariance, PTL

LEMMA InvGivesTier == ClusterInv => TierIsHonest
<1>1. ClusterInv => Backed("k8s.installtier", found["k8s.installtier"])
  BY DEF ClusterInv, AllBacked, ResultIDs
<1> QED BY <1>1 DEF Backed, TierIsHonest
===============================================================================
