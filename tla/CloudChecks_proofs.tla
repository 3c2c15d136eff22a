-------------------------- MODULE CloudChecks_proofs ---------------------------
(***************************************************************************)
(* Stages 0 to 3 implement the runner, whatever the environment, the cloud,*)
(* its changes and the failing calls; none of them is silent; and what is  *)
(* green or red in the report is so for a reason.                          *)
(***************************************************************************)
EXTENDS CloudChecks, PreflightRunner_proofs, SequenceTheorems

Kinds == {"aws", "gcp", "azure", "", "unknown"}
Kept  == {Scoped, Privileged, Metadata}

\* What an environment is.
LEMMA ConfigShape ==
    ASSUME NEW c \in Configs
    PROVE  /\ c.cloud \in Kinds
           /\ c.secrets \in Seq(Secrets)
BY CloudConstants DEF AwsOptions, GcpOptions, AzureOptions, FakeOptions, WrongOptions,
                      Environment, Kinds

-----------------------------------------------------------------------------
(* The shape of a step of a check: one call and at most one result.         *)

OneCall == \E failing \in BOOLEAN : Probed(failing) /\ (failing => May)

OneResult ==
    \E id \in ResultIDs, s \in Severities, of \in Secrets \cup {""},
       n \in Calls \cup {Done}, kept \in SUBSET Kept : ReportOn(id, s, of, n, kept)

AnotherCall == \E n \in Calls, kept \in SUBSET Kept : Continue(n, kept)

CheckStep == Running /\ stage \in Provisioned /\ OneCall /\ (OneResult \/ AnotherCall)

LEMMA AskedIsOneCall == ASSUME NEW f, NEW ok \in BOOLEAN, Asked(f, ok) PROVE OneCall
BY DEF Asked, OneCall, Answerable

LEMMA NoCallIsOneCall == NoCall => OneCall
BY DEF NoCall, OneCall

LEMMA ReturnIsOneResult ==
    ASSUME NEW id \in ResultIDs, NEW s \in Severities, Return(id, s)
    PROVE  OneResult
BY DEF Return, OneResult

LEMMA StageFacts ==
    /\ Provisioned = {0, 1, 2, 3}
    /\ StageIdentity = 0 /\ StageKMS = 1 /\ StageSecrets = 2 /\ StageNetwork = 3
    /\ "green" \in Severities /\ "amber" \in Severities /\ "red" \in Severities
BY DEF Provisioned, StageIdentity, StageKMS, StageSecrets, StageNetwork, Severities

LEMMA IdentityStep ==
    ASSUME CloudTypeOK,
           \/ AwsNothingToProvision \/ AwsResolveCaller \/ AwsSimulatePolicy
           \/ GcpTestPermissions \/ AzureListAssignments
    PROVE  CheckStep
<1>s. Calls = 1..2 /\ "identity" \in ResultIDs
  <2>1. stage = 0
    BY StageFacts DEF AwsNothingToProvision, AwsResolveCaller, AwsSimulatePolicy,
                      GcpTestPermissions, AzureListAssignments, At
  <2> QED BY <2>1, StageFacts DEF Calls, ResultIDs
<1>1. CASE AwsNothingToProvision
  BY <1>1, <1>s, StageFacts, NoCallIsOneCall, ReturnIsOneResult
     DEF AwsNothingToProvision, CheckStep, At
<1>2. CASE AwsResolveCaller
  <2>1. PICK ok \in BOOLEAN : /\ Asked(Credentials, ok)
                              /\ IF ok THEN Continue(2, {}) ELSE Return("identity", "red")
    BY <1>2 DEF AwsResolveCaller
  <2>2. 2 \in Calls /\ {} \in SUBSET Kept
    BY <1>s
  <2>3. OneResult \/ AnotherCall
    BY <2>1, <2>2, <1>s, StageFacts, ReturnIsOneResult DEF AnotherCall
  <2> QED BY <2>1, <2>3, <1>2, StageFacts, AskedIsOneCall DEF CheckStep, AwsResolveCaller, At
<1>3. CASE AwsSimulatePolicy \/ GcpTestPermissions
  <2>1. PICK ok \in BOOLEAN :
            /\ Asked(Credentials, ok)
            /\ Return("identity", IF ok /\ Required \subseteq facts THEN "green" ELSE "red")
    BY <1>3 DEF AwsSimulatePolicy, GcpTestPermissions, RightsAreHeld
  <2>2. OneResult
    BY <2>1, <1>s, StageFacts, ReturnIsOneResult
  <2>3. Running /\ stage \in Provisioned
    BY <1>3, StageFacts DEF AwsSimulatePolicy, GcpTestPermissions, At
  <2> QED BY <2>1, <2>2, <2>3, AskedIsOneCall DEF CheckStep
<1>4. CASE AzureListAssignments
  <2> DEFINE held == seen \cup ({Pages[call]} \cap facts)
  <2>1. PICK ok \in BOOLEAN :
            /\ Asked(Credentials, ok)
            /\ CASE ~ok -> Return("identity", "red")
                 [] ok /\ call < Len(Pages) -> Continue(call + 1, held)
                 [] OTHER -> Return("identity",
                        IF held = {} \/ "principal" \notin config.names THEN "red"
                        ELSE IF Privileged \in held THEN "amber" ELSE "green")
    BY <1>4 DEF AzureListAssignments
  <2>2. call \in 1..2 /\ Len(Pages) = 2 /\ Pages[1] \in Kept /\ Pages[2] \in Kept
    BY <1>4 DEF AzureListAssignments, Pages, At, Kept
  <2>3. held \in SUBSET Kept
    <3>1. Pages[call] \in Kept
      BY <2>2
    <3> QED BY <3>1 DEF CloudTypeOK, Kept
  <2>4. call < Len(Pages) => call + 1 \in Calls
    BY <2>2, <1>s
  <2> HIDE DEF held
  <2>5. OneResult \/ AnotherCall
    BY <2>1, <2>3, <2>4, <1>s, StageFacts, ReturnIsOneResult DEF AnotherCall
  <2>6. Running /\ stage \in Provisioned
    BY <1>4, StageFacts DEF AzureListAssignments, At
  <2> QED BY <2>1, <2>5, <2>6, AskedIsOneCall DEF CheckStep
<1> QED BY <1>1, <1>2, <1>3, <1>4

LEMMA KeyStep ==
    ASSUME AwsNoKey \/ AwsDescribeKey \/ AwsGetRotation \/ GcpGetKey \/ AzureGetKey
    PROVE  CheckStep
<1>0. Running /\ stage = 1
  BY StageFacts DEF AwsNoKey, AwsDescribeKey, AwsGetRotation, GcpGetKey, AzureGetKey, At
<1>s. Calls = 1..2 /\ "kms" \in ResultIDs
  BY <1>0, StageFacts DEF Calls, ResultIDs
<1>1. CASE AwsNoKey
  BY <1>1, <1>0, <1>s, StageFacts, NoCallIsOneCall, ReturnIsOneResult DEF AwsNoKey, CheckStep
<1>2. CASE AwsDescribeKey
  <2>1. PICK ok \in BOOLEAN :
            /\ Asked(Key, ok)
            /\ IF ok /\ KeyEnabled \in facts THEN Continue(2, {}) ELSE Return("kms", "red")
    BY <1>2 DEF AwsDescribeKey
  <2>2. 2 \in Calls /\ {} \in SUBSET Kept
    BY <1>s
  <2>3. OneResult \/ AnotherCall
    BY <2>1, <2>2, <1>s, StageFacts, ReturnIsOneResult DEF AnotherCall
  <2> QED BY <2>1, <2>3, <1>0, StageFacts, AskedIsOneCall DEF CheckStep
<1>3. CASE AwsGetRotation \/ GcpGetKey \/ AzureGetKey
  <2>1. PICK ok \in BOOLEAN, s \in Severities : Asked(Key, ok) /\ Return("kms", s)
    BY <1>3, StageFacts DEF AwsGetRotation, GcpGetKey, AzureGetKey, KeyInOneCall
  <2> QED BY <2>1, <1>0, <1>s, StageFacts, AskedIsOneCall, ReturnIsOneResult DEF CheckStep
<1> QED BY <1>1, <1>2, <1>3

LEMMA SecretsStep ==
    ASSUME CloudTypeOK, NoSecrets \/ DescribeSecret
    PROVE  CheckStep
<1>0. Running /\ stage = 2
  BY StageFacts DEF NoSecrets, DescribeSecret, At
<1>s. "secrets" \in ResultIDs
  BY DEF ResultIDs
<1>1. CASE NoSecrets
  BY <1>1, <1>0, <1>s, StageFacts, NoCallIsOneCall, ReturnIsOneResult DEF NoSecrets, CheckStep
<1>2. CASE DescribeSecret
  <2> DEFINE s == config.secrets[call]
             next == IF call = Len(config.secrets) THEN Done ELSE call + 1
  <2>1. PICK ok \in BOOLEAN :
            /\ Asked(Secret(s), ok)
            /\ ReportOn("secrets", IF ok /\ Encrypted(s) THEN "green" ELSE "red", s, next, {})
    BY <1>2 DEF DescribeSecret
  <2>2. call \in 1..Len(config.secrets) /\ config.secrets \in Seq(Secrets)
    BY <1>2, ConfigShape DEF DescribeSecret, CloudTypeOK
  <2>3. s \in Secrets /\ Len(config.secrets) \in Nat
    BY <2>2
  <2>4. next \in Calls \cup {Done}
    <3>1. config.secrets # <<>>
      BY <2>2
    <3>2. Calls = 1..Len(config.secrets)
      BY <3>1, <1>0, StageFacts DEF Calls
    <3> QED BY <3>2, <2>2, <2>3
  <2> HIDE DEF s, next
  <2>5. OneResult
    BY <2>1, <2>3, <2>4, <1>s, StageFacts DEF OneResult
  <2> QED BY <2>1, <2>5, <1>0, StageFacts, AskedIsOneCall DEF CheckStep
<1> QED BY <1>1, <1>2

LEMMA NetworkStep ==
    ASSUME \/ AwsNoNetwork \/ AwsDescribeVpc \/ AwsDescribeNat
           \/ AwsNoFirewall \/ AwsDescribeRoutes \/ AwsMetadataBlock \/ AwsDeferred
           \/ GcpGetNetwork \/ GcpListNats \/ AzureGetVNet
    PROVE  CheckStep
<1>0. Running /\ stage = 3
  BY StageFacts DEF AwsNoNetwork, AwsDescribeVpc, AwsDescribeNat, AwsNoFirewall,
                    AwsDescribeRoutes, AwsMetadataBlock, AwsDeferred, GcpGetNetwork,
                    GcpListNats, AzureGetVNet, At
<1>s. /\ Calls = 1..5
      /\ "egress.vpc" \in ResultIDs /\ "egress.nat" \in ResultIDs
      /\ "egress.firewall_inpath" \in ResultIDs /\ "egress.metadata_block" \in ResultIDs
      /\ "egress.deferred" \in ResultIDs
      /\ 2 \in 1..5 /\ 3 \in 1..5 /\ 4 \in 1..5 /\ 5 \in 1..5
      /\ {} \in SUBSET Kept /\ {Metadata} \cap facts \in SUBSET Kept
  BY <1>0, StageFacts DEF Calls, ResultIDs, Kept
<1>r. ASSUME NEW id \in ResultIDs, NEW s \in Severities, NEW n \in 1..5,
             NEW kept \in SUBSET Kept, ReportOn(id, s, "", n, kept)
      PROVE  OneResult
  BY <1>r, <1>s DEF OneResult
<1>1. CASE AwsNoNetwork \/ AwsDeferred
  BY <1>1, <1>0, <1>s, StageFacts, NoCallIsOneCall, ReturnIsOneResult
     DEF AwsNoNetwork, AwsDeferred, CheckStep
<1>2. CASE AwsDescribeVpc
  <2>1. PICK ok \in BOOLEAN :
            /\ Asked(Network, ok)
            /\ ReportOn("egress.vpc", "green", "", 2, {}) \/ Return("egress.vpc", "red")
    BY <1>2 DEF AwsDescribeVpc
  <2>2. OneResult
    BY <2>1, <1>r, <1>s, StageFacts, ReturnIsOneResult
  <2> QED BY <2>1, <2>2, <1>0, StageFacts, AskedIsOneCall DEF CheckStep
<1>3. CASE AwsDescribeNat
  <2>1. PICK ok \in BOOLEAN :
            /\ Asked(Credentials, ok)
            /\ \/ ReportOn("egress.nat", "green", "", 3, {})
               \/ ReportOn("egress.nat", "amber", "", 3, {})
    BY <1>3 DEF AwsDescribeNat
  <2>2. OneResult
    BY <2>1, <1>r, <1>s, StageFacts
  <2> QED BY <2>1, <2>2, <1>0, StageFacts, AskedIsOneCall DEF CheckStep
<1>4. CASE AwsNoFirewall
  <2>1. OneResult
    BY <1>4, <1>r, <1>s, StageFacts DEF AwsNoFirewall
  <2> QED BY <1>4, <2>1, <1>0, StageFacts, NoCallIsOneCall DEF CheckStep, AwsNoFirewall
<1>5. CASE AwsDescribeRoutes
  <2>1. PICK ok \in BOOLEAN :
            /\ Asked(Credentials, ok)
            /\ \/ ReportOn("egress.firewall_inpath", "green", "", 4, {Metadata} \cap facts)
               \/ ReportOn("egress.firewall_inpath", "red", "", 4, {Metadata} \cap facts)
               \/ ReportOn("egress.firewall_inpath", "amber", "", 5, {})
    BY <1>5 DEF AwsDescribeRoutes
  <2>2. OneResult
    BY <2>1, <1>r, <1>s, StageFacts
  <2> QED BY <2>1, <2>2, <1>0, StageFacts, AskedIsOneCall DEF CheckStep
<1>6. CASE AwsMetadataBlock
  <2>1. \/ ReportOn("egress.metadata_block", "amber", "", 5, {})
        \/ ReportOn("egress.metadata_block", "green", "", 5, {})
    BY <1>6 DEF AwsMetadataBlock
  <2>2. OneResult
    BY <2>1, <1>r, <1>s, StageFacts
  <2> QED BY <1>6, <2>2, <1>0, StageFacts, NoCallIsOneCall DEF CheckStep, AwsMetadataBlock
<1>7. CASE GcpGetNetwork
  <2>1. PICK ok \in BOOLEAN :
            /\ Asked(Network, ok)
            /\ \/ Return("egress.vpc", "red")
               \/ Return("egress.nat", "amber")
               \/ Continue(2, {})
    BY <1>7 DEF GcpGetNetwork
  <2>2. 2 \in Calls
    BY <1>s
  <2>3. OneResult \/ AnotherCall
    BY <2>1, <2>2, <1>s, StageFacts, ReturnIsOneResult DEF AnotherCall
  <2> QED BY <2>1, <2>3, <1>0, StageFacts, AskedIsOneCall DEF CheckStep
<1>8. CASE GcpListNats
  <2>1. PICK ok \in BOOLEAN :
            /\ Asked(Credentials, ok)
            /\ Return("egress.vpc", "green") \/ Return("egress.nat", "amber")
    BY <1>8 DEF GcpListNats
  <2>2. OneResult
    BY <2>1, <1>s, StageFacts, ReturnIsOneResult
  <2> QED BY <2>1, <2>2, <1>0, StageFacts, AskedIsOneCall DEF CheckStep
<1>9. CASE AzureGetVNet
  <2>1. PICK ok \in BOOLEAN, s \in Severities : Asked(Network, ok) /\ Return("egress.vpc", s)
    BY <1>9, StageFacts DEF AzureGetVNet
  <2> QED BY <2>1, <1>0, <1>s, StageFacts, AskedIsOneCall, ReturnIsOneResult DEF CheckStep
<1> QED BY <1>1, <1>2, <1>3, <1>4, <1>5, <1>6, <1>7, <1>8, <1>9

LEMMA FakeStep == FakeCheck => CheckStep
<1> SUFFICES ASSUME FakeCheck PROVE CheckStep
  OBVIOUS
<1>1. Running /\ stage \in {0, 1, 2, 3} /\ NoCall
  BY StageFacts DEF FakeCheck, At
<1>2. <<"identity", "kms", "secrets", "egress.vpc">>[stage + 1] \in ResultIDs
  BY <1>1 DEF ResultIDs
<1>3. OneResult
  BY <1>2, StageFacts, ReturnIsOneResult DEF FakeCheck
<1> QED BY <1>1, <1>3, StageFacts, NoCallIsOneCall DEF CheckStep

LEMMA EveryCheckSteps == CloudTypeOK /\ CloudCheck => CheckStep
BY IdentityStep, KeyStep, SecretsStep, NetworkStep, FakeStep DEF CloudCheck

-----------------------------------------------------------------------------
(* The runner.                                                              *)

LEMMA CheckStepIsRunner == CheckStep => Next \/ UNCHANGED vars
BY DEF CheckStep, OneResult, AnotherCall, ReportOn, Continue, Check, Next

LEMMA CloudIsRunner == CloudTypeOK /\ [CloudNext]_cloudVars => [Next]_vars
<1>1. CloudTypeOK /\ CloudCheck => Next \/ UNCHANGED vars
  BY EveryCheckSteps, CheckStepIsRunner
<1>2. ClusterCheck \/ StageDone => Next
  BY CloudConstants DEF ClusterCheck, StageDone, Check, Next
<1>3. StartStages \/ EmitError \/ SkipStage \/ PrintReport => Next
  BY DEF Next
<1>4. ASSUME NEW f \in Varying, Change(f) PROVE UNCHANGED vars
  BY <1>4 DEF Change
<1>5. UNCHANGED cloudVars => UNCHANGED vars
  BY DEF cloudVars
<1> QED BY <1>1, <1>2, <1>3, <1>4, <1>5 DEF CloudNext, Preflight

-----------------------------------------------------------------------------
(* Types.  A stage that is skipped has not begun.                           *)

SkippedAtStart == shortCircuited => call = 1

LEMMA OneIsACall == ASSUME NEW c \in Configs, NEW st
                    PROVE  1 \in (CASE st = StageSecrets ->
                                         1..(IF c.secrets = <<>> THEN 1 ELSE Len(c.secrets))
                                    [] st = StageNetwork -> 1..5
                                    [] OTHER             -> 1..2)
<1>1. c.secrets \in Seq(Secrets)
  BY ConfigShape
<1>2. c.secrets # <<>> => Len(c.secrets) \in Nat /\ Len(c.secrets) >= 1
  BY <1>1, EmptySeq, LenProperties
<1> QED BY <1>2

LEMMA ProbeKeepsTypes ==
    ASSUME ProbesTypeOK(Facts), OneCall
    PROVE  ProbesTypeOK(Facts)'
<1>1. PICK b \in BOOLEAN : Probed(b) /\ (b => May)
  BY DEF OneCall
<1>2. MaxIncidents \in Nat
  BY ProbesConstants
<1>3. errors' \in 0..MaxIncidents /\ incidents' \in errors'..MaxIncidents
  BY <1>1, <1>2 DEF ProbesTypeOK, Probed, May
<1> QED BY <1>1, <1>3 DEF ProbesTypeOK, Probed

LEMMA FlipKeepsTypes ==
    ASSUME ProbesTypeOK(Facts), NEW f \in Facts, Flip(f)
    PROVE  ProbesTypeOK(Facts)'
<1>1. MaxIncidents \in Nat
  BY ProbesConstants
<1>2. errors' \in 0..MaxIncidents /\ incidents' \in errors'..MaxIncidents
  BY <1>1 DEF ProbesTypeOK, Flip, May
<1>3. facts' \subseteq Facts /\ ever' \subseteq Facts /\ always' \subseteq facts' /\ facts' \subseteq ever'
  BY DEF ProbesTypeOK, Flip
<1> QED BY <1>2, <1>3 DEF ProbesTypeOK

LEMMA CloudInitTypes == CloudInit => CloudTypeOK /\ SkippedAtStart
<1> SUFFICES ASSUME CloudInit PROVE CloudTypeOK /\ SkippedAtStart
  OBVIOUS
<1>1. ProbesTypeOK(Facts)
  <2>1. PICK S \in SUBSET (Varying \cap Asks(config.cloud)) : StartWith(Given \cup S)
    BY DEF CloudInit
  <2>2. Given \cup S \subseteq Facts
    BY <2>1, CloudConstants
  <2> QED BY <2>1, <2>2, ProbesConstants DEF StartWith, ProbesTypeOK
<1>2. 1 \in Calls
  BY OneIsACall DEF CloudInit, Calls
<1> QED BY <1>1, <1>2 DEF CloudInit, CloudTypeOK, SkippedAtStart, Init

LEMMA CloudStepTypes ==
    CloudTypeOK /\ SkippedAtStart /\ [CloudNext]_cloudVars => CloudTypeOK' /\ SkippedAtStart'
<1> SUFFICES ASSUME CloudTypeOK, SkippedAtStart, [CloudNext]_cloudVars
             PROVE  CloudTypeOK' /\ SkippedAtStart'
  OBVIOUS
<1>o. config' \in Configs => 1 \in Calls'
  BY OneIsACall DEF Calls
<1>1. CASE CloudCheck
  <2>1. CheckStep
    BY <1>1, EveryCheckSteps
  <2>2. ProbesTypeOK(Facts)'
    BY <2>1, ProbeKeepsTypes DEF CheckStep, CloudTypeOK
  <2>3. CASE AnotherCall
    <3>1. PICK n \in Calls, kept \in SUBSET Kept : Continue(n, kept)
      BY <2>3 DEF AnotherCall
    <3>2. Calls' = Calls /\ shortCircuited' = shortCircuited
      BY <3>1 DEF Continue, vars, Calls
    <3> QED BY <2>1, <2>2, <3>1, <3>2
            DEF Continue, CloudTypeOK, SkippedAtStart, CheckStep, Running, Kept
  <2>4. CASE OneResult
    <3>1. PICK id \in ResultIDs, s \in Severities, of \in Secrets \cup {""},
               n \in Calls \cup {Done}, kept \in SUBSET Kept : ReportOn(id, s, of, n, kept)
      BY <2>4 DEF OneResult
    <3>2. Calls' = Calls /\ shortCircuited' = shortCircuited
      BY <3>1 DEF ReportOn, ReportResult, Calls
    <3>3. found' \subseteq ResultIDs \X Severities \X (Secrets \cup {""})
      <4>1. <<id, s, of>> \in ResultIDs \X Severities \X (Secrets \cup {""})
        OBVIOUS
      <4> QED BY <4>1, <3>1 DEF ReportOn, CloudTypeOK
    <3> QED BY <2>1, <2>2, <3>1, <3>2, <3>3
            DEF ReportOn, CloudTypeOK, SkippedAtStart, CheckStep, Running, Kept
  <2> QED BY <2>1, <2>3, <2>4 DEF CheckStep
<1>2. CASE ClusterCheck
  <2>1. Calls' = Calls /\ shortCircuited' = shortCircuited
    BY <1>2 DEF ClusterCheck, checkVars, ReportResult, Calls
  <2> QED BY <1>2, <2>1 DEF ClusterCheck, checkVars, probeVars, CloudTypeOK, ProbesTypeOK,
                            SkippedAtStart
<1>3. CASE StageDone
  BY <1>3, <1>o DEF StageDone, probeVars, CloudTypeOK, ProbesTypeOK, SkippedAtStart
<1>4. CASE /\ StartStages \/ EmitError \/ PrintReport
           /\ UNCHANGED <<probeVars, checkVars>>
  <2>1. Calls' = Calls /\ shortCircuited' = shortCircuited
    BY <1>4 DEF checkVars, StartStages, EmitError, PrintReport, Calls
  <2> QED BY <1>4, <2>1 DEF checkVars, probeVars, CloudTypeOK, ProbesTypeOK, SkippedAtStart
<1>5. CASE SkipStage /\ UNCHANGED <<probeVars, checkVars>>
  <2>1. call' = 1
    BY <1>5 DEF SkipStage, SkippedAtStart, checkVars
  <2> QED BY <1>5, <2>1, <1>o DEF checkVars, probeVars, CloudTypeOK, ProbesTypeOK, SkippedAtStart
<1>6. CASE \E f \in Varying : Change(f)
  <2>1. PICK f \in Varying : Change(f)
    BY <1>6
  <2>2. ProbesTypeOK(Facts)'
    BY <2>1, FlipKeepsTypes, CloudConstants DEF Change, CloudTypeOK
  <2>3. Calls' = Calls
    BY <2>1 DEF Change, vars, checkVars, Calls
  <2> QED BY <2>1, <2>2, <2>3 DEF Change, vars, checkVars, CloudTypeOK, SkippedAtStart
<1>7. CASE UNCHANGED cloudVars
  <2>1. Calls' = Calls
    BY <1>7 DEF cloudVars, vars, checkVars, Calls
  <2> QED BY <1>7, <2>1 DEF cloudVars, vars, checkVars, probeVars, CloudTypeOK, ProbesTypeOK,
                            SkippedAtStart
<1> QED BY <1>1, <1>2, <1>3, <1>4, <1>5, <1>6, <1>7 DEF CloudNext, Preflight

\* The positions of a check, its results and the bracket of the facts keep their
\* types, for every list of secrets (main.go:121-189, aws/secrets.go:25-52).
THEOREM CloudTypeCorrect == CloudSpec => []CloudTypeOK
<1> QED BY CloudInitTypes, CloudStepTypes, PTL DEF CloudSpec

\* The checks of every provider, on a cloud that changes, implement the runner
\* (cloud/aws, cloud/gcp, cloud/azure, cloud/fake against check.go and main.go).
THEOREM CloudImplementsRunner == CloudSpec => Init /\ [][Next]_vars
<1>1. CloudInit => Init
  BY DEF CloudInit
<1> QED BY <1>1, CloudTypeCorrect, CloudIsRunner, PTL DEF CloudSpec

LEMMA CloudKeepsIInv == CloudSpec => []IInv
BY InitIInv, NextKeepsIInv, CloudImplementsRunner, PTL

-----------------------------------------------------------------------------
(* No stage is silent.                                                      *)

\* A check that has returned has returned something.
ReturnedSomething ==
    ~failed /\ stage \in Provisioned /\ call = Done => results[stage] # {}

Speaks == ReturnedSomething /\ EveryStageSpeaks

LEMMA CallIsNotDone == ASSUME NEW n \in Calls PROVE n # Done
BY DEF Calls, Done

LEMMA CheckStepSpeaks ==
    ASSUME TypeOK, Speaks, CheckStep
    PROVE  Speaks'
<1>1. CASE AnotherCall
  <2>1. PICK n \in Calls, kept \in SUBSET Kept : Continue(n, kept)
    BY <1>1 DEF AnotherCall
  <2>2. call' # Done
    BY <2>1, CallIsNotDone DEF Continue
  <2> QED BY <2>1, <2>2 DEF Continue, vars, Speaks, ReturnedSomething, EveryStageSpeaks
<1>2. CASE OneResult
  <2>1. PICK s \in Severities : ReportResult(s)
    BY <1>2 DEF OneResult, ReportOn
  <2>2. results'[stage] # {} /\ \A id \in StageIDs : results[id] \subseteq results'[id]
    BY <2>1 DEF ReportResult, Running, TypeOK, StageIDs
  <2>3. \A id \in Provisioned : id \in StageIDs
    BY StageFacts DEF StageIDs
  <2> QED BY <2>1, <2>2, <2>3 DEF ReportResult, Speaks, ReturnedSomething, EveryStageSpeaks
<1> QED BY <1>1, <1>2 DEF CheckStep

LEMMA CloudInitSpeaks == CloudInit => Speaks
BY StageFacts DEF CloudInit, Init, Speaks, ReturnedSomething, EveryStageSpeaks, Done, StageIDs,
                  Severities

LEMMA CloudStepSpeaks ==
    TypeOK /\ CloudTypeOK /\ SkippedAtStart /\ Speaks /\ [CloudNext]_cloudVars => Speaks'
<1> SUFFICES ASSUME TypeOK, CloudTypeOK, SkippedAtStart, Speaks, [CloudNext]_cloudVars
             PROVE  Speaks'
  OBVIOUS
<1> USE DEF Speaks, ReturnedSomething, EveryStageSpeaks
<1>0. \A id \in Provisioned : id \in StageIDs
  BY StageFacts DEF StageIDs
<1>1. CASE CloudCheck
  BY <1>1, EveryCheckSteps, CheckStepSpeaks
<1>2. CASE ClusterCheck
  <2>1. PICK s \in Severities : ReportResult(s)
    BY <1>2, CloudConstants DEF ClusterCheck
  <2>2. stage \notin Provisioned
    BY <1>2, StageFacts DEF ClusterCheck, StageKubernetes, StageWorkload
  <2>3. \A id \in Provisioned : results'[id] = results[id]
    BY <2>1, <2>2, <1>0 DEF ReportResult, TypeOK
  <2> QED BY <1>2, <2>1, <2>2, <2>3 DEF ClusterCheck, checkVars, ReportResult
<1>3. CASE StageDone
  <2>1. call' # Done
    BY <1>3 DEF StageDone, Done
  <2>2. \A id \in Provisioned : id # stage => report'[id] = report[id]
    BY <1>3, <1>0 DEF StageDone, EndStage, TypeOK
  <2> QED BY <1>3, <2>1, <2>2 DEF StageDone, EndStage
<1>4. CASE SkipStage /\ UNCHANGED <<probeVars, checkVars>>
  <2>1. call' # Done
    BY <1>4 DEF SkipStage, SkippedAtStart, checkVars, Done
  <2>2. \A id \in Provisioned : report'[id] \in Severities => report[id] \in Severities
    BY <1>4, <1>0 DEF SkipStage, TypeOK, Severities
  <2> QED BY <1>4, <2>1, <2>2 DEF SkipStage
<1>5. CASE EmitError
  BY <1>5 DEF EmitError
<1>6. CASE (StartStages \/ PrintReport) /\ UNCHANGED <<probeVars, checkVars>>
  BY <1>6 DEF StartStages, PrintReport, checkVars
<1>7. CASE \E f \in Varying : Change(f)
  BY <1>7 DEF Change, vars, checkVars
<1>8. CASE UNCHANGED cloudVars
  BY <1>8 DEF cloudVars, vars, checkVars
<1> QED BY <1>1, <1>2, <1>3, <1>4, <1>5, <1>6, <1>7, <1>8 DEF CloudNext, Preflight

\* No stage of any provider is over without a result, so none is green for having
\* found nothing to say, whatever is configured (check.go:91-108).
THEOREM NoStageIsSilent == CloudSpec => []EveryStageSpeaks
<1>1. IInv => TypeOK
  BY DEF IInv
<1>2. Speaks => EveryStageSpeaks
  BY DEF Speaks
<1> QED BY <1>1, <1>2, CloudInitTypes, CloudStepTypes, CloudInitSpeaks, CloudStepSpeaks,
           CloudKeepsIInv, PTL DEF CloudSpec

-----------------------------------------------------------------------------
(* What is green and what is red.                                           *)

Founded ==
    \A r \in found :
        /\ r[2] = "green" /\ config.cloud # "" => BacksGreen(r[1], r[3])
        /\ r[2] = "red" /\ errors = 0 /\ Credentials \in always => ExplainsRed(r[1], r[3])

\* What the calls of a check have found out before the next one.
Remembers ==
    /\ config.cloud = "aws" /\ stage = StageKMS /\ call = 2 =>
          {Credentials, Key, KeyEnabled} \subseteq ever
    /\ config.cloud = "gcp" /\ stage = StageNetwork /\ call = 2 =>
          {Credentials, Network} \subseteq ever
    /\ config.cloud = "azure" /\ stage = StageIdentity /\ call = 2 =>
          seen \subseteq {Scoped} \cap ever /\ (Scoped \in seen \/ Scoped \notin always)
    /\ config.cloud = "aws" /\ stage = StageNetwork /\ call = 4 =>
          Metadata \in seen \/ Metadata \notin always
    /\ call \in {Done, 1} \/ stage \notin Provisioned => seen = {}

Reasons == Founded /\ Remembers

\* The bracket only widens.
Widens ==
    /\ ever \subseteq ever' /\ always' \subseteq always
    /\ errors' = 0 => errors = 0
    /\ config' = config

LEMMA DistinctFacts ==
    /\ Credentials # Key /\ Credentials # Network /\ Key # Network
    /\ Scoped # Privileged
    /\ \A s : Secret(s) # Key /\ Secret(s) # Network
BY DEF Credentials, Key, Network, Secret, Scoped, Privileged

LEMMA WantedIs ==
    ASSUME NEW of
    PROVE  /\ Wanted("identity", of) = Required
           /\ Wanted("kms", of) = {Key, KeyEnabled}
           /\ Wanted("egress.vpc", of) = {Network} \cup {x \in {Usable} : config.cloud # "gcp"}
           /\ Wanted("egress.nat", of) = {}
           /\ Wanted("egress.firewall_inpath", of) = {}
           /\ Wanted("egress.metadata_block", of) = {}
BY DEF Wanted

LEMMA DesiredIs ==
    /\ Desired("kms") = {Rotation}
    /\ Desired("secrets") = {}
    /\ Desired("identity") = IF config.cloud = "azure" THEN {Scoped} ELSE {}
    /\ Desired("egress.vpc") = IF config.cloud = "aws" THEN {} ELSE {Path}
    /\ Desired("egress.nat") = {Path}
    /\ Desired("egress.firewall_inpath") = {}
    /\ Desired("egress.metadata_block") = {}
BY DEF Desired

LEMMA SameWants ==
    ASSUME config' = config
    PROVE  /\ \A id, of : Wanted(id, of)' = Wanted(id, of)
           /\ \A id : Desired(id)' = Desired(id)
BY DEF Wanted, Desired, Required

LEMMA ReasonsLast ==
    ASSUME Widens, NEW id, NEW of
    PROVE  /\ BacksGreen(id, of) => BacksGreen(id, of)'
           /\ ExplainsRed(id, of) => ExplainsRed(id, of)'
<1> USE DEF Widens
<1>1. BacksGreen(id, of) => BacksGreen(id, of)'
  BY SameWants DEF BacksGreen
<1>2. ExplainsRed(id, of) => ExplainsRed(id, of)'
  BY SameWants DEF ExplainsRed
<1> QED BY <1>1, <1>2

LEMMA FoundedLasts ==
    ASSUME Founded, Widens, found' = found
    PROVE  Founded'
<1> SUFFICES ASSUME NEW r \in found
             PROVE  /\ r[2] = "green" /\ config'.cloud # "" => BacksGreen(r[1], r[3])'
                    /\ r[2] = "red" /\ errors' = 0 /\ Credentials \in always' =>
                          ExplainsRed(r[1], r[3])'
  BY DEF Founded
<1> QED BY ReasonsLast DEF Founded, Widens

LEMMA FoundedGrows ==
    ASSUME Founded, Widens, NEW id, NEW s, NEW of, found' = found \cup {<<id, s, of>>},
           s = "green" /\ config.cloud # "" => BacksGreen(id, of),
           s = "red" /\ errors' = 0 /\ Credentials \in always => ExplainsRed(id, of)
    PROVE  Founded'
<1>1. ASSUME NEW r \in found
      PROVE  /\ r[2] = "green" /\ config'.cloud # "" => BacksGreen(r[1], r[3])'
             /\ r[2] = "red" /\ errors' = 0 /\ Credentials \in always' =>
                   ExplainsRed(r[1], r[3])'
  BY ReasonsLast DEF Founded, Widens
<1>2. /\ s = "green" /\ config'.cloud # "" => BacksGreen(id, of)'
      /\ s = "red" /\ errors' = 0 /\ Credentials \in always' => ExplainsRed(id, of)'
  BY ReasonsLast DEF Widens
<1>3. SUFFICES ASSUME NEW r \in found'
               PROVE  /\ r[2] = "green" /\ config'.cloud # "" => BacksGreen(r[1], r[3])'
                      /\ r[2] = "red" /\ errors' = 0 /\ Credentials \in always' =>
                            ExplainsRed(r[1], r[3])'
  BY DEF Founded
<1>4. CASE r \in found
  BY <1>1, <1>4
<1>5. CASE r = <<id, s, of>>
  <2>1. r[1] = id /\ r[2] = s /\ r[3] = of
    BY <1>5
  <2> QED BY <1>2, <2>1
<1> QED BY <1>4, <1>5

LEMMA CallWidens ==
    ASSUME ProbesTypeOK(Facts), NEW b \in BOOLEAN, Probed(b), config' = config
    PROVE  Widens
BY DEF ProbesTypeOK, Probed, Widens

\* A check that is over has nothing to remember.
LEMMA DoneForgets ==
    ASSUME call' = Done, seen' = {}
    PROVE  Remembers'
<1>1. call' # 2 /\ call' # 4
  BY DEF Done
<1> QED BY <1>1 DEF Remembers

\* A result that has a reason, and after which the check is over.
LEMMA ReturnIsFounded ==
    ASSUME Founded, ProbesTypeOK(Facts), NEW b \in BOOLEAN, Probed(b), NEW id, NEW s, NEW of,
           ReportOn(id, s, of, Done, {}),
           s = "green" /\ config.cloud # "" => BacksGreen(id, of),
           s = "red" /\ errors' = 0 /\ Credentials \in always => ExplainsRed(id, of)
    PROVE  Reasons'
<1>1. Founded'
  BY CallWidens, FoundedGrows DEF ReportOn
<1>2. Remembers'
  BY DoneForgets DEF ReportOn
<1> QED BY <1>1, <1>2 DEF Reasons

\* A call that failed by itself is counted; one that could not be answered has a
\* reason.
LEMMA FailedCall ==
    ASSUME ProbesTypeOK(Facts), NEW f, NEW ok \in BOOLEAN, Asked(f, ok)
    PROVE  /\ ~ok /\ errors' = 0 => ~Answerable(f)
           /\ ok => Answerable(f)
           /\ \E b \in BOOLEAN : Probed(b)
<1>1. ok => Answerable(f)
  BY DEF Asked
<1>2. (~ok /\ Answerable(f)) \in BOOLEAN
  BY DEF Answerable
<1>3. Probed(~ok /\ Answerable(f))
  BY DEF Asked
<1>4. errors \in Nat
  BY ProbesConstants DEF ProbesTypeOK
<1>5. ~ok /\ errors' = 0 => ~Answerable(f)
  BY <1>2, <1>3, <1>4 DEF Probed
<1>6. \E b \in BOOLEAN : Probed(b)
  <2>1. CASE ~ok /\ Answerable(f)
    BY <1>3, <2>1 DEF Probed
  <2>2. CASE ~(~ok /\ Answerable(f))
    BY <1>3, <2>2 DEF Probed
  <2> QED BY <2>1, <2>2
<1> QED BY <1>1, <1>5, <1>6

\* What an answer, or its failure, says of the bracket.
LEMMA Answer ==
    ASSUME ProbesTypeOK(Facts), NEW f, NEW ok \in BOOLEAN, Asked(f, ok)
    PROVE  /\ ok => /\ Credentials \in ever /\ f \in ever
                    /\ f = Key => "key" \in config.names
                    /\ f = Network => "network" \in config.names
           /\ ~ok /\ errors' = 0 /\ Credentials \in always =>
                 \/ f \notin always
                 \/ f = Key /\ "key" \notin config.names
                 \/ f = Network /\ "network" \notin config.names
           /\ always \subseteq facts /\ facts \subseteq ever
<1>1. always \subseteq facts /\ facts \subseteq ever
  BY DEF ProbesTypeOK
<1> QED BY <1>1, FailedCall DEF Answerable

\* The end of a check.
LEMMA EndIsFounded ==
    ASSUME CloudTypeOK, Reasons, NEW b \in BOOLEAN, Probed(b), NEW id, NEW s, NEW of,
           ReportOn(id, s, of, Done, {}),
           s = "green" /\ config.cloud # "" => BacksGreen(id, of),
           s = "red" /\ errors' = 0 /\ Credentials \in always => ExplainsRed(id, of)
    PROVE  Reasons'
BY ReturnIsFounded DEF Reasons, CloudTypeOK

\* The key.
LEMMA KeyReasons ==
    ASSUME NEW of
    PROVE  /\ {Credentials, Key, KeyEnabled, Rotation} \subseteq ever => BacksGreen("kms", of)
           /\ \/ ~({Key, KeyEnabled} \subseteq always)
              \/ "key" \notin config.names /\ config.cloud # "aws"
              => ExplainsRed("kms", of)
BY WantedIs, DesiredIs DEF BacksGreen, ExplainsRed

LEMMA KeyFounded ==
    ASSUME CloudTypeOK, Reasons,
           AwsNoKey \/ AwsDescribeKey \/ AwsGetRotation \/ GcpGetKey \/ AzureGetKey
    PROVE  Reasons'
<1>0. ProbesTypeOK(Facts)
  BY DEF CloudTypeOK
<1>1. CASE AwsNoKey
  BY <1>1, EndIsFounded DEF AwsNoKey, NoCall, Return
<1>2. CASE AwsDescribeKey
  <2>1. PICK ok \in BOOLEAN :
            /\ Asked(Key, ok)
            /\ IF ok /\ KeyEnabled \in facts THEN Continue(2, {}) ELSE Return("kms", "red")
    BY <1>2 DEF AwsDescribeKey
  <2>2. PICK b \in BOOLEAN : Probed(b)
    BY <1>0, <2>1, FailedCall
  <2>3. "key" \in config.names
    BY <1>2 DEF AwsDescribeKey
  <2>4. CASE ok /\ KeyEnabled \in facts
    <3>1. {Credentials, Key, KeyEnabled} \subseteq ever
      BY <1>0, <2>1, <2>4, Answer
    <3>2. Founded'
      BY <1>0, <2>1, <2>2, <2>4, CallWidens, FoundedLasts DEF Continue, Reasons
    <3>3. Remembers'
      BY <1>2, <2>1, <2>2, <2>4, <3>1
         DEF Continue, Remembers, Probed, vars, AwsDescribeKey, At, StageKMS, StageNetwork
    <3> QED BY <3>2, <3>3 DEF Reasons
  <2>5. CASE ~(ok /\ KeyEnabled \in facts)
    <3>1. errors' = 0 /\ Credentials \in always => ~({Key, KeyEnabled} \subseteq always)
      BY <1>0, <2>1, <2>3, <2>5, Answer, DistinctFacts
    <3>2. errors' = 0 /\ Credentials \in always => ExplainsRed("kms", "")
      BY <3>1, KeyReasons
    <3> QED BY <2>1, <2>2, <2>5, <3>2, EndIsFounded DEF Return
  <2> QED BY <2>4, <2>5
<1>3. CASE AwsGetRotation
  <2>1. PICK ok \in BOOLEAN :
            /\ Asked(Key, ok)
            /\ Return("kms", IF ok /\ Rotation \in facts THEN "green" ELSE "amber")
    BY <1>3 DEF AwsGetRotation
  <2>2. PICK b \in BOOLEAN : Probed(b)
    BY <1>0, <2>1, FailedCall
  <2>3. {Credentials, Key, KeyEnabled} \subseteq ever
    BY <1>3 DEF AwsGetRotation, At, Reasons, Remembers
  <2>4. CASE ok /\ Rotation \in facts
    <3>1. BacksGreen("kms", "")
      BY <1>0, <2>1, <2>3, <2>4, Answer, KeyReasons
    <3> QED BY <2>1, <2>2, <2>4, <3>1, EndIsFounded DEF Return
  <2>5. CASE ~(ok /\ Rotation \in facts)
    BY <2>1, <2>2, <2>5, EndIsFounded DEF Return
  <2> QED BY <2>4, <2>5
<1>4. CASE GcpGetKey \/ AzureGetKey
  <2>1. PICK ok \in BOOLEAN :
            /\ Asked(Key, ok)
            /\ Return("kms", IF ~ok \/ KeyEnabled \notin facts THEN "red"
                             ELSE IF Rotation \in facts THEN "green" ELSE "amber")
    BY <1>4 DEF GcpGetKey, AzureGetKey, KeyInOneCall
  <2>2. PICK b \in BOOLEAN : Probed(b)
    BY <1>0, <2>1, FailedCall
  <2>3. config.cloud # "aws"
    BY <1>4 DEF GcpGetKey, AzureGetKey, At
  <2>4. CASE ~ok \/ KeyEnabled \notin facts
    <3>1. errors' = 0 /\ Credentials \in always =>
              ~({Key, KeyEnabled} \subseteq always) \/ "key" \notin config.names
      BY <1>0, <2>1, <2>4, Answer, DistinctFacts
    <3>2. errors' = 0 /\ Credentials \in always => ExplainsRed("kms", "")
      BY <2>3, <3>1, KeyReasons
    <3> QED BY <2>1, <2>2, <2>4, <3>2, EndIsFounded DEF Return
  <2>5. CASE ok /\ KeyEnabled \in facts /\ Rotation \in facts
    <3>1. BacksGreen("kms", "")
      BY <1>0, <2>1, <2>5, Answer, KeyReasons
    <3> QED BY <2>1, <2>2, <2>5, <3>1, EndIsFounded DEF Return
  <2>6. CASE ok /\ KeyEnabled \in facts /\ Rotation \notin facts
    BY <2>1, <2>2, <2>6, EndIsFounded DEF Return
  <2> QED BY <2>4, <2>5, <2>6
<1> QED BY <1>1, <1>2, <1>3, <1>4

\* The secrets.
LEMMA SecretWants ==
    ASSUME NEW of
    PROVE  /\ config.cloud = "aws" =>
                  Wanted("secrets", of) = {Secret(of), Sealed(of, "east")}
           /\ config.cloud = "gcp" =>
                  Wanted("secrets", of) = {Secret(of), UserManaged(of)} \cup
                      {Sealed(of, r) : r \in {x \in Replicas : "key" \in config.names}}
           /\ config.cloud = "azure" => Wanted("secrets", of) = {Secret(of)}
BY DEF Wanted

LEMMA SecretBacked ==
    ASSUME NEW of, config.cloud \in {"aws", "gcp", "azure"},
           Credentials \in ever, Wanted("secrets", of) \subseteq ever
    PROVE  BacksGreen("secrets", of)
BY DesiredIs DEF BacksGreen

LEMMA SecretExplained ==
    ASSUME NEW of, ~(Wanted("secrets", of) \subseteq always) \/ "key" \notin config.names
    PROVE  ExplainsRed("secrets", of)
BY DEF ExplainsRed

\* A secret that was described and passes for encrypted is so.
LEMMA SecretIsThere ==
    ASSUME ProbesTypeOK(Facts), config.cloud \in {"aws", "gcp", "azure"}, NEW of,
           NEW ok \in BOOLEAN, Asked(Secret(of), ok), ok, Encrypted(of)
    PROVE  Wanted("secrets", of) \subseteq ever
<1>1. Secret(of) \in ever /\ facts \subseteq ever
  BY Answer
<1>2. CASE config.cloud = "aws"
  BY <1>1, <1>2, SecretWants DEF Encrypted
<1>3. CASE config.cloud = "gcp"
  BY <1>1, <1>3, SecretWants DEF Encrypted, CmekMatches
<1>4. CASE config.cloud = "azure"
  BY <1>1, <1>4, SecretWants
<1> QED BY <1>2, <1>3, <1>4

LEMMA SecretFounded ==
    ASSUME CloudTypeOK, Reasons, DescribeSecret
    PROVE  Reasons'
<1>0. ProbesTypeOK(Facts) /\ stage = 2 /\ config.cloud \in {"aws", "gcp", "azure"}
  BY DEF CloudTypeOK, DescribeSecret, At, StageSecrets
<1> DEFINE of == config.secrets[call]
<1>1. PICK ok \in BOOLEAN :
          /\ Asked(Secret(of), ok)
          /\ ReportOn("secrets", IF ok /\ Encrypted(of) THEN "green" ELSE "red", of,
                      IF call = Len(config.secrets) THEN Done ELSE call + 1, {})
  BY DEF DescribeSecret
<1>2. PICK b \in BOOLEAN : Probed(b)
  BY <1>0, <1>1, FailedCall
<1>3. config' = config /\ stage' = 2 /\ seen' = {}
  BY <1>0, <1>1 DEF ReportOn, ReportResult
<1>4. Widens
  BY <1>0, <1>2, <1>3, CallWidens
<1>5. always \subseteq facts /\ facts \subseteq ever
  BY <1>0, <1>1, Answer
<1>6. ok /\ Encrypted(of) => BacksGreen("secrets", of)
  <2>1. ok => Credentials \in ever
    BY <1>0, <1>1, Answer
  <2>2. ok /\ Encrypted(of) => Wanted("secrets", of) \subseteq ever
    BY <1>0, <1>1, SecretIsThere
  <2> QED BY <1>0, <2>1, <2>2, SecretBacked
<1>7. ~(ok /\ Encrypted(of)) /\ errors' = 0 /\ Credentials \in always =>
          ExplainsRed("secrets", of)
  <2> SUFFICES ASSUME ~(ok /\ Encrypted(of)), errors' = 0, Credentials \in always,
                      "key" \in config.names
               PROVE  ~(Wanted("secrets", of) \subseteq always)
    BY SecretExplained
  <2>1. CASE ~ok
    <3>1. Secret(of) \notin always
      BY <1>0, <1>1, <2>1, Answer, DistinctFacts
    <3> QED BY <1>0, <3>1, SecretWants
  <2>2. CASE ok /\ config.cloud = "aws"
    BY <1>5, <2>2, SecretWants DEF Encrypted
  <2>3. CASE ok /\ config.cloud = "gcp"
    BY <1>5, <2>3, SecretWants DEF Encrypted, CmekMatches
  <2>4. CASE ok /\ config.cloud = "azure"
    BY <2>4 DEF Encrypted
  <2> QED BY <1>0, <2>1, <2>2, <2>3, <2>4
<1>8. Founded'
  <2>1. CASE ok /\ Encrypted(of)
    <3>1. found' = found \cup {<<"secrets", "green", of>>}
      BY <1>1, <2>1 DEF ReportOn
    <3> HIDE DEF of
    <3> QED BY <1>4, <1>6, <2>1, <3>1, FoundedGrows DEF Reasons
  <2>2. CASE ~(ok /\ Encrypted(of))
    <3>1. found' = found \cup {<<"secrets", "red", of>>}
      BY <1>1, <2>2 DEF ReportOn
    <3> HIDE DEF of
    <3> QED BY <1>4, <1>7, <2>2, <3>1, FoundedGrows DEF Reasons
  <2> QED BY <2>1, <2>2
<1>9. Remembers'
  BY <1>3 DEF Remembers, Provisioned, StageIdentity, StageKMS, StageNetwork
<1> QED BY <1>8, <1>9 DEF Reasons

LEMMA NoSecretsFounded ==
    ASSUME CloudTypeOK, Reasons, NoSecrets
    PROVE  Reasons'
BY EndIsFounded DEF NoSecrets, NoCall, Return

\* The fake provider is held to nothing.
LEMMA FakeFounded ==
    ASSUME CloudTypeOK, Reasons, FakeCheck
    PROVE  Reasons'
<1>1. PICK id : Return(id, "green")
  BY DEF FakeCheck
<1>2. config.cloud = "" /\ Probed(FALSE)
  BY DEF FakeCheck, At, NoCall
<1> QED BY <1>1, <1>2, EndIsFounded DEF Return

\* The identity.
LEMMA IdentityReasons ==
    ASSUME NEW of
    PROVE  /\ config.cloud # "azure" /\ {Credentials} \cup Required \subseteq ever =>
                  BacksGreen("identity", of)
           /\ {Credentials, Scoped} \subseteq ever /\ Required = {} /\ Privileged \notin always =>
                  BacksGreen("identity", of)
           /\ ~(Required \subseteq always) => ExplainsRed("identity", of)
           /\ /\ config.cloud = "azure"
              /\ "principal" \notin config.names \/ {Scoped, Privileged} \cap always = {}
              => ExplainsRed("identity", of)
BY WantedIs, DesiredIs DEF BacksGreen, ExplainsRed

LEMMA NothingToProvisionFounded ==
    ASSUME CloudTypeOK, Reasons, AwsNothingToProvision
    PROVE  Reasons'
BY EndIsFounded DEF AwsNothingToProvision, NoCall, Return

LEMMA ResolveCallerFounded ==
    ASSUME CloudTypeOK, Reasons, AwsResolveCaller
    PROVE  Reasons'
<1>0. ProbesTypeOK(Facts) /\ config.cloud = "aws" /\ stage = 0
  BY DEF CloudTypeOK, AwsResolveCaller, At, StageIdentity
<1>1. PICK ok \in BOOLEAN :
          /\ Asked(Credentials, ok)
          /\ IF ok THEN Continue(2, {}) ELSE Return("identity", "red")
  BY DEF AwsResolveCaller
<1>2. PICK b \in BOOLEAN : Probed(b)
  BY <1>0, <1>1, FailedCall
<1>3. CASE ok
  <2>1. config' = config /\ stage' = 0 /\ found' = found /\ seen' = {}
    BY <1>0, <1>1, <1>3 DEF Continue, vars
  <2>2. Founded'
    BY <1>0, <1>2, <2>1, CallWidens, FoundedLasts DEF Reasons
  <2>3. Remembers'
    BY <1>0, <2>1 DEF Remembers, Provisioned, StageIdentity, StageKMS, StageNetwork
  <2> QED BY <2>2, <2>3 DEF Reasons
<1>4. CASE ~ok
  <2>1. ~(errors' = 0 /\ Credentials \in always)
    BY <1>0, <1>1, <1>4, Answer, DistinctFacts
  <2> QED BY <1>1, <1>2, <1>4, <2>1, EndIsFounded DEF Return
<1> QED BY <1>3, <1>4

\* Both providers that ask for rights ask for all of them at once.
LEMMA RightsFounded ==
    ASSUME CloudTypeOK, Reasons, AwsSimulatePolicy \/ GcpTestPermissions
    PROVE  Reasons'
<1>0. ProbesTypeOK(Facts) /\ config.cloud # "azure"
  BY DEF CloudTypeOK, AwsSimulatePolicy, GcpTestPermissions, At
<1>1. PICK ok \in BOOLEAN :
          /\ Asked(Credentials, ok)
          /\ Return("identity", IF ok /\ Required \subseteq facts THEN "green" ELSE "red")
  BY DEF AwsSimulatePolicy, GcpTestPermissions, RightsAreHeld
<1>2. PICK b \in BOOLEAN : Probed(b)
  BY <1>0, <1>1, FailedCall
<1>3. /\ always \subseteq facts /\ facts \subseteq ever
      /\ ok => Credentials \in ever
      /\ ~ok => ~(errors' = 0 /\ Credentials \in always)
  BY <1>0, <1>1, Answer, DistinctFacts
<1>4. CASE ok /\ Required \subseteq facts
  <2>1. BacksGreen("identity", "")
    BY <1>0, <1>3, <1>4, IdentityReasons
  <2> QED BY <1>1, <1>2, <1>4, <2>1, EndIsFounded DEF Return
<1>5. CASE ~(ok /\ Required \subseteq facts)
  <2>1. errors' = 0 /\ Credentials \in always => ExplainsRed("identity", "")
    BY <1>3, <1>5, IdentityReasons
  <2> QED BY <1>1, <1>2, <1>5, <2>1, EndIsFounded DEF Return
<1> QED BY <1>4, <1>5

\* The first page has shown whether a scoped role is held, the second shows a
\* privileged one.
LEMMA ListAssignmentsFounded ==
    ASSUME CloudTypeOK, Reasons, AzureListAssignments
    PROVE  Reasons'
<1>0. ProbesTypeOK(Facts) /\ config.cloud = "azure" /\ stage = 0 /\ call \in 1..2 /\ Required = {}
  BY DEF CloudTypeOK, AzureListAssignments, At, StageIdentity, Pages, Required
<1> DEFINE held == seen \cup ({Pages[call]} \cap facts)
<1>1. PICK ok \in BOOLEAN :
          /\ Asked(Credentials, ok)
          /\ CASE ~ok -> Return("identity", "red")
               [] ok /\ call < Len(Pages) -> Continue(call + 1, held)
               [] OTHER -> Return("identity",
                      IF held = {} \/ "principal" \notin config.names THEN "red"
                      ELSE IF Privileged \in held THEN "amber" ELSE "green")
  BY DEF AzureListAssignments
<1>2. PICK b \in BOOLEAN : Probed(b)
  BY <1>0, <1>1, FailedCall
<1>3. /\ always \subseteq facts /\ facts \subseteq ever
      /\ ok => Credentials \in ever
      /\ ~ok => ~(errors' = 0 /\ Credentials \in always)
  BY <1>0, <1>1, Answer, DistinctFacts
<1>4. CASE ~ok
  <2>1. Return("identity", "red")
    BY <1>1, <1>4
  <2> QED BY <1>2, <1>3, <1>4, <2>1, EndIsFounded DEF Return
<1>5. CASE ok /\ call = 1
  <2>1. Continue(2, {Scoped} \cap facts)
    BY <1>1, <1>5 DEF Pages, Reasons, Remembers
  <2>2. Founded'
    BY <1>0, <1>2, <2>1, CallWidens, FoundedLasts DEF Continue, Reasons
  <2>3. Remembers'
    <3>1. /\ config' = config /\ stage' = 0 /\ call' = 2 /\ seen' = {Scoped} \cap facts
          /\ ever' = ever /\ always' = always
      BY <1>0, <1>2, <2>1 DEF Continue, vars, Probed
    <3>2. seen' \subseteq {Scoped} \cap ever' /\ (Scoped \in seen' \/ Scoped \notin always')
      BY <1>3, <3>1
    <3> QED BY <1>0, <3>1, <3>2 DEF Remembers, Provisioned, StageIdentity, StageKMS, StageNetwork, Done
  <2> QED BY <2>2, <2>3 DEF Reasons
<1>6. CASE ok /\ call = 2
  <2>1. /\ Len(Pages) = 2 /\ Pages[call] = Privileged
        /\ held = seen \cup ({Privileged} \cap facts)
    BY <1>6 DEF Pages
  <2>2. seen \subseteq {Scoped} \cap ever /\ (Scoped \in seen \/ Scoped \notin always)
    BY <1>0, <1>6 DEF Reasons, Remembers, StageIdentity
  <2>3. Return("identity", IF held = {} \/ "principal" \notin config.names THEN "red"
                           ELSE IF Privileged \in held THEN "amber" ELSE "green")
    BY <1>1, <1>6, <2>1
  <2>4. CASE held = {} \/ "principal" \notin config.names
    <3>1. ExplainsRed("identity", "")
      BY <1>0, <1>3, <2>1, <2>2, <2>4, IdentityReasons
    <3> QED BY <1>2, <2>3, <2>4, <3>1, EndIsFounded DEF Return
  <2>5. CASE held # {} /\ "principal" \in config.names /\ Privileged \in held
    BY <1>2, <2>3, <2>5, EndIsFounded DEF Return
  <2>6. CASE held # {} /\ "principal" \in config.names /\ Privileged \notin held
    <3>1. Scoped \in ever /\ Privileged \notin always
      BY <1>3, <2>1, <2>2, <2>6
    <3>2. BacksGreen("identity", "")
      BY <1>0, <1>3, <1>6, <3>1, IdentityReasons
    <3> QED BY <1>2, <2>3, <2>6, <3>2, EndIsFounded DEF Return
  <2> QED BY <2>4, <2>5, <2>6
<1> QED BY <1>0, <1>4, <1>5, <1>6

\* The network.
LEMMA NetworkReasons ==
    ASSUME NEW of
    PROVE  /\ config.cloud = "aws" /\ {Credentials, Network, Usable} \subseteq ever =>
                  BacksGreen("egress.vpc", of)
           /\ config.cloud = "gcp" /\ {Credentials, Network, Path} \subseteq ever =>
                  BacksGreen("egress.vpc", of)
           /\ config.cloud = "azure" /\ {Credentials, Network, Usable, Path} \subseteq ever =>
                  BacksGreen("egress.vpc", of)
           /\ {Credentials, Path} \subseteq ever => BacksGreen("egress.nat", of)
           /\ Credentials \in ever /\ (\E t \in Tables : Behind(t) \in ever) =>
                  BacksGreen("egress.firewall_inpath", of)
           /\ Metadata \notin always => BacksGreen("egress.metadata_block", of)
           /\ \/ Network \notin always
              \/ Usable \notin always /\ config.cloud # "gcp"
              \/ "network" \notin config.names /\ config.cloud # "aws"
              => ExplainsRed("egress.vpc", of)
           /\ (\A t \in Tables : Behind(t) \notin always) =>
                  ExplainsRed("egress.firewall_inpath", of)
BY WantedIs, DesiredIs DEF BacksGreen, ExplainsRed

\* A result after which the check of the network goes on.
LEMMA OnIsFounded ==
    ASSUME CloudTypeOK, Reasons, NEW b \in BOOLEAN, Probed(b), NEW id, NEW s, NEW of, NEW n,
           NEW kept, config.cloud = "aws", stage = 3, ReportOn(id, s, of, n, kept),
           n \in {2, 3, 5} \/ (n = 4 /\ (Metadata \in kept \/ Metadata \notin always)),
           s = "green" /\ config.cloud # "" => BacksGreen(id, of),
           s = "red" /\ errors' = 0 /\ Credentials \in always => ExplainsRed(id, of)
    PROVE  Reasons'
<1>0. ProbesTypeOK(Facts) /\ config' = config /\ stage' = 3 /\ call' = n /\ seen' = kept
  BY DEF CloudTypeOK, ReportOn, ReportResult
<1>1. Founded'
  <2>1. found' = found \cup {<<id, s, of>>}
    BY DEF ReportOn
  <2> QED BY <1>0, <2>1, CallWidens, FoundedGrows DEF Reasons
<1>2. always' = always
  BY DEF Probed
<1>3. call' \notin {Done, 1} /\ (call' = 4 => Metadata \in kept \/ Metadata \notin always)
  BY <1>0 DEF Done
<1>4. Remembers'
  BY <1>0, <1>2, <1>3, StageFacts DEF Remembers
<1> QED BY <1>1, <1>4 DEF Reasons

LEMMA NoNetworkFounded ==
    ASSUME CloudTypeOK, Reasons, AwsNoNetwork \/ AwsDeferred
    PROVE  Reasons'
<1>1. CASE AwsNoNetwork
  BY <1>1, EndIsFounded DEF AwsNoNetwork, NoCall, Return
<1>2. CASE AwsDeferred
  BY <1>2, EndIsFounded DEF AwsDeferred, NoCall, Return
<1> QED BY <1>1, <1>2

LEMMA DescribeVpcFounded ==
    ASSUME CloudTypeOK, Reasons, AwsDescribeVpc
    PROVE  Reasons'
<1>0. /\ ProbesTypeOK(Facts) /\ config.cloud = "aws" /\ stage = 3
      /\ "network" \in config.names
  BY DEF CloudTypeOK, AwsDescribeVpc, At, StageNetwork
<1>1. PICK ok \in BOOLEAN :
          /\ Asked(Network, ok)
          /\ IF ok /\ Usable \in facts THEN ReportOn("egress.vpc", "green", "", 2, {})
             ELSE Return("egress.vpc", "red")
  BY DEF AwsDescribeVpc
<1>2. PICK b \in BOOLEAN : Probed(b)
  BY <1>0, <1>1, FailedCall
<1>3. CASE ok /\ Usable \in facts
  <2>1. BacksGreen("egress.vpc", "")
    BY <1>0, <1>1, <1>3, Answer, NetworkReasons
  <2> QED BY <1>0, <1>1, <1>2, <1>3, <2>1, OnIsFounded
<1>4. CASE ~(ok /\ Usable \in facts)
  <2>1. errors' = 0 /\ Credentials \in always => ExplainsRed("egress.vpc", "")
    BY <1>0, <1>1, <1>4, Answer, DistinctFacts, NetworkReasons
  <2> QED BY <1>1, <1>2, <1>4, <2>1, EndIsFounded DEF Return
<1> QED BY <1>3, <1>4

LEMMA DescribeNatFounded ==
    ASSUME CloudTypeOK, Reasons, AwsDescribeNat
    PROVE  Reasons'
<1>0. ProbesTypeOK(Facts) /\ config.cloud = "aws" /\ stage = 3
  BY DEF CloudTypeOK, AwsDescribeNat, At, StageNetwork
<1>1. PICK ok \in BOOLEAN :
          /\ Asked(Credentials, ok)
          /\ ReportOn("egress.nat", IF ok /\ Path \in facts THEN "green" ELSE "amber", "", 3, {})
  BY DEF AwsDescribeNat
<1>2. PICK b \in BOOLEAN : Probed(b)
  BY <1>0, <1>1, FailedCall
<1>3. CASE ok /\ Path \in facts
  <2>1. BacksGreen("egress.nat", "")
    BY <1>0, <1>1, <1>3, Answer, NetworkReasons
  <2> QED BY <1>0, <1>1, <1>2, <1>3, <2>1, OnIsFounded
<1>4. CASE ~(ok /\ Path \in facts)
  BY <1>0, <1>1, <1>2, <1>4, OnIsFounded
<1> QED BY <1>3, <1>4

LEMMA NoFirewallFounded ==
    ASSUME CloudTypeOK, Reasons, AwsNoFirewall
    PROVE  Reasons'
BY OnIsFounded DEF AwsNoFirewall, At, StageNetwork, NoCall

\* One list of the route tables answers two questions; the second answer is kept.
LEMMA DescribeRoutesFounded ==
    ASSUME CloudTypeOK, Reasons, AwsDescribeRoutes
    PROVE  Reasons'
<1>0. ProbesTypeOK(Facts) /\ config.cloud = "aws" /\ stage = 3
  BY DEF CloudTypeOK, AwsDescribeRoutes, At, StageNetwork
<1>1. PICK ok \in BOOLEAN :
          /\ Asked(Credentials, ok)
          /\ IF ok
             THEN ReportOn("egress.firewall_inpath",
                           IF \E t \in Tables : Behind(t) \in facts THEN "green" ELSE "red",
                           "", 4, {Metadata} \cap facts)
             ELSE ReportOn("egress.firewall_inpath", "amber", "", 5, {})
  BY DEF AwsDescribeRoutes
<1>2. PICK b \in BOOLEAN : Probed(b)
  BY <1>0, <1>1, FailedCall
<1>3. always \subseteq facts /\ facts \subseteq ever
  BY <1>0, <1>1, Answer
<1> DEFINE kept == {Metadata} \cap facts
<1>4. Metadata \in kept \/ Metadata \notin always
  BY <1>3
<1>5. CASE ok /\ \E t \in Tables : Behind(t) \in facts
  <2>1. BacksGreen("egress.firewall_inpath", "")
    BY <1>0, <1>1, <1>3, <1>5, Answer, NetworkReasons
  <2>2. ReportOn("egress.firewall_inpath", "green", "", 4, kept)
    BY <1>1, <1>5
  <2> HIDE DEF kept
  <2> QED BY <1>0, <1>2, <1>4, <2>1, <2>2, OnIsFounded
<1>6. CASE ok /\ ~\E t \in Tables : Behind(t) \in facts
  <2>1. ExplainsRed("egress.firewall_inpath", "")
    BY <1>3, <1>6, NetworkReasons
  <2>2. ReportOn("egress.firewall_inpath", "red", "", 4, kept)
    BY <1>1, <1>6
  <2> HIDE DEF kept
  <2> QED BY <1>0, <1>2, <1>4, <2>1, <2>2, OnIsFounded
<1>7. CASE ~ok
  BY <1>0, <1>1, <1>2, <1>7, OnIsFounded
<1> QED BY <1>5, <1>6, <1>7

LEMMA MetadataBlockFounded ==
    ASSUME CloudTypeOK, Reasons, AwsMetadataBlock
    PROVE  Reasons'
<1>0. config.cloud = "aws" /\ stage = 3 /\ call = 4 /\ Probed(FALSE)
  BY DEF AwsMetadataBlock, At, StageNetwork, NoCall
<1>1. ReportOn("egress.metadata_block", IF Metadata \in seen THEN "amber" ELSE "green", "", 5, {})
  BY DEF AwsMetadataBlock
<1>2. Metadata \in seen \/ Metadata \notin always
  BY <1>0 DEF Reasons, Remembers, StageNetwork
<1>3. CASE Metadata \in seen
  BY <1>0, <1>1, <1>3, OnIsFounded
<1>4. CASE Metadata \notin seen
  <2>1. BacksGreen("egress.metadata_block", "")
    BY <1>2, <1>4, NetworkReasons
  <2> QED BY <1>0, <1>1, <1>4, <2>1, OnIsFounded
<1> QED BY <1>3, <1>4

LEMMA GetNetworkFounded ==
    ASSUME CloudTypeOK, Reasons, GcpGetNetwork
    PROVE  Reasons'
<1>0. ProbesTypeOK(Facts) /\ config.cloud = "gcp" /\ stage = 3
  BY DEF CloudTypeOK, GcpGetNetwork, At, StageNetwork
<1>1. PICK ok \in BOOLEAN :
          /\ Asked(Network, ok)
          /\ CASE ~ok -> Return("egress.vpc", "red")
               [] ok /\ "path" \notin config.names -> Return("egress.nat", "amber")
               [] OTHER -> Continue(2, {})
  BY DEF GcpGetNetwork
<1>2. PICK b \in BOOLEAN : Probed(b)
  BY <1>0, <1>1, FailedCall
<1>3. CASE ~ok
  <2>1. errors' = 0 /\ Credentials \in always => ExplainsRed("egress.vpc", "")
    BY <1>0, <1>1, <1>3, Answer, DistinctFacts, NetworkReasons
  <2>2. Return("egress.vpc", "red")
    BY <1>1, <1>3
  <2> QED BY <1>2, <2>1, <2>2, EndIsFounded DEF Return
<1>4. CASE ok /\ "path" \notin config.names
  <2>1. Return("egress.nat", "amber")
    BY <1>1, <1>4
  <2> QED BY <1>2, <2>1, EndIsFounded DEF Return
<1>5. CASE ok /\ "path" \in config.names
  <2>1. Continue(2, {})
    BY <1>1, <1>5
  <2>2. /\ config' = config /\ stage' = 3 /\ call' = 2 /\ seen' = {} /\ found' = found
        /\ ever' = ever
    BY <1>0, <1>2, <2>1 DEF Continue, vars, Probed
  <2>3. {Credentials, Network} \subseteq ever
    BY <1>0, <1>1, <1>5, Answer
  <2>4. Founded'
    BY <1>0, <1>2, <2>2, CallWidens, FoundedLasts DEF Reasons
  <2>5. Remembers'
    BY <1>0, <2>2, <2>3 DEF Remembers, Provisioned, StageIdentity, StageKMS
  <2> QED BY <2>4, <2>5 DEF Reasons
<1> QED BY <1>3, <1>4, <1>5

LEMMA ListNatsFounded ==
    ASSUME CloudTypeOK, Reasons, GcpListNats
    PROVE  Reasons'
<1>0. /\ ProbesTypeOK(Facts) /\ config.cloud = "gcp"
      /\ {Credentials, Network} \subseteq ever
  BY DEF CloudTypeOK, GcpListNats, At, Reasons, Remembers
<1>1. PICK ok \in BOOLEAN :
          /\ Asked(Credentials, ok)
          /\ IF ok /\ Path \in facts THEN Return("egress.vpc", "green")
             ELSE Return("egress.nat", "amber")
  BY DEF GcpListNats
<1>2. PICK b \in BOOLEAN : Probed(b)
  BY <1>0, <1>1, FailedCall
<1>3. CASE ok /\ Path \in facts
  <2>1. BacksGreen("egress.vpc", "")
    BY <1>0, <1>1, <1>3, Answer, NetworkReasons
  <2> QED BY <1>1, <1>2, <1>3, <2>1, EndIsFounded DEF Return
<1>4. CASE ~(ok /\ Path \in facts)
  BY <1>1, <1>2, <1>4, EndIsFounded DEF Return
<1> QED BY <1>3, <1>4

LEMMA GetVNetFounded ==
    ASSUME CloudTypeOK, Reasons, AzureGetVNet
    PROVE  Reasons'
<1>0. ProbesTypeOK(Facts) /\ config.cloud = "azure"
  BY DEF CloudTypeOK, AzureGetVNet, At
<1>1. PICK ok \in BOOLEAN :
          /\ Asked(Network, ok)
          /\ Return("egress.vpc", IF ~ok \/ Usable \notin facts THEN "red"
                                  ELSE IF Path \in facts THEN "green" ELSE "amber")
  BY DEF AzureGetVNet
<1>2. PICK b \in BOOLEAN : Probed(b)
  BY <1>0, <1>1, FailedCall
<1>3. CASE ~ok \/ Usable \notin facts
  <2>1. errors' = 0 /\ Credentials \in always => ExplainsRed("egress.vpc", "")
    BY <1>0, <1>1, <1>3, Answer, DistinctFacts, NetworkReasons
  <2> QED BY <1>1, <1>2, <1>3, <2>1, EndIsFounded DEF Return
<1>4. CASE ok /\ Usable \in facts /\ Path \in facts
  <2>1. BacksGreen("egress.vpc", "")
    BY <1>0, <1>1, <1>4, Answer, NetworkReasons
  <2> QED BY <1>1, <1>2, <1>4, <2>1, EndIsFounded DEF Return
<1>5. CASE ok /\ Usable \in facts /\ Path \notin facts
  BY <1>1, <1>2, <1>5, EndIsFounded DEF Return
<1> QED BY <1>3, <1>4, <1>5

LEMMA CheckIsFounded ==
    ASSUME CloudTypeOK, Reasons, CloudCheck
    PROVE  Reasons'
BY FakeFounded, NothingToProvisionFounded, ResolveCallerFounded, RightsFounded,
   ListAssignmentsFounded, KeyFounded, NoSecretsFounded, SecretFounded, NoNetworkFounded,
   DescribeVpcFounded, DescribeNatFounded, NoFirewallFounded, DescribeRoutesFounded,
   MetadataBlockFounded, GetNetworkFounded, ListNatsFounded, GetVNetFounded
   DEF CloudCheck

LEMMA CloudInitReasons == CloudInit => Reasons
BY DEF CloudInit, Reasons, Founded, Remembers

\* What is not a call of a check starts the next one, or only widens the bracket.
LEMMA CloudStepReasons ==
    TypeOK /\ CloudTypeOK /\ SkippedAtStart /\ Reasons /\ [CloudNext]_cloudVars => Reasons'
<1> SUFFICES ASSUME TypeOK, CloudTypeOK, SkippedAtStart, Reasons, [CloudNext]_cloudVars
             PROVE  Reasons'
  OBVIOUS
<1>1. CASE CloudCheck
  BY <1>1, CheckIsFounded
<1>2. ASSUME UNCHANGED <<checkVars, probeVars>>,
             stage' = stage \/ (call = 1 /\ stage' = stage + 1)
      PROVE  Reasons'
  <2>1. Widens /\ found' = found
    BY <1>2 DEF Widens, checkVars, probeVars
  <2>2. Founded'
    BY <2>1, FoundedLasts DEF Reasons
  <2>3. Remembers'
    BY <1>2, StageFacts DEF Reasons, Remembers, checkVars, probeVars, Done
  <2> QED BY <2>2, <2>3 DEF Reasons
<1>3. CASE (StartStages \/ EmitError \/ SkipStage \/ PrintReport) /\ UNCHANGED <<probeVars, checkVars>>
  BY <1>2, <1>3 DEF StartStages, EmitError, SkipStage, PrintReport, SkippedAtStart, probeVars, checkVars
<1>4. CASE ClusterCheck
  BY <1>2, <1>4 DEF ClusterCheck, ReportResult, probeVars, checkVars
<1>5. CASE StageDone
  <2>1. Widens /\ found' = found /\ call' = 1 /\ seen' = seen
    BY <1>5 DEF StageDone, Widens, probeVars
  <2>2. Founded'
    BY <2>1, FoundedLasts DEF Reasons
  <2>3. seen = {}
    BY <1>5 DEF StageDone, Reasons, Remembers
  <2>4. Remembers'
    BY <2>1, <2>3, StageFacts DEF Remembers
  <2> QED BY <2>2, <2>4 DEF Reasons
<1>6. CASE \E f \in Varying : Change(f)
  <2>1. /\ always' \subseteq always /\ ever \subseteq ever' /\ errors' = errors
        /\ UNCHANGED <<stage, config, call, seen, found>>
    BY <1>6 DEF Change, Flip, vars, checkVars
  <2>2. Founded'
    BY <2>1, FoundedLasts DEF Reasons, Widens
  <2>3. Remembers'
    BY <2>1 DEF Reasons, Remembers
  <2> QED BY <2>2, <2>3 DEF Reasons
<1>7. CASE UNCHANGED cloudVars
  BY <1>2, <1>7 DEF cloudVars, vars, checkVars, probeVars
<1> QED BY <1>1, <1>3, <1>4, <1>5, <1>6, <1>7 DEF CloudNext, Preflight

LEMMA CloudKeepsReasons == CloudSpec => []Reasons
<1>1. IInv => TypeOK
  BY DEF IInv
<1> QED BY <1>1, CloudInitTypes, CloudStepTypes, CloudInitReasons, CloudStepReasons,
           CloudKeepsIInv, PTL DEF CloudSpec

\* A green result of a real provider is true, whatever is configured, however
\* many calls and pages the check needs and however the cloud changes between
\* them (aws/kms.go:13-66, azure/identity.go:41-78, aws/egress.go:147-195).
THEOREM GreenIsTrue == CloudSpec => []GreenIsFounded
<1>1. Reasons => GreenIsFounded
  BY DEF Reasons, Founded, GreenIsFounded
<1> QED BY <1>1, CloudKeepsReasons, PTL

\* A red result has a reason when no call failed by itself, whatever is
\* configured and however the cloud changes (aws/egress.go:39-50,
\* gcp/secrets.go:55-68, azure/kms.go:11-48).
THEOREM RedHasReason == CloudSpec => []RedIsFounded
<1>1. Reasons => RedIsFounded
  BY DEF Reasons, Founded, RedIsFounded
<1> QED BY <1>1, CloudKeepsReasons, PTL
===============================================================================
