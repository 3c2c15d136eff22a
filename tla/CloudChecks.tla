------------------------------ MODULE CloudChecks ------------------------------
(***************************************************************************)
(* Stages 0 to 3 of the preflight for AWS, GCP, Azure and the fake         *)
(* provider, call by call (operator/internal/cloud), inside the run of     *)
(* module PreflightRunner.  The cloud is the facts of module Probes.       *)
(*                                                                         *)
(* A result is what it is about, its severity and, for a secret, which     *)
(* one.  IDs are taken without the cloud's prefix and without the suffix   *)
(* that tells the reasons for one severity apart.  The deferred results of *)
(* the AWS network stage, always amber, are one.                           *)
(***************************************************************************)
EXTENDS PreflightRunner, Probes, Sequences

CONSTANTS
    Secrets,        \* names of secrets
    Configs,        \* the --cloud values and environments of the instance
    Given,          \* facts true of every cloud of the instance
    Varying,        \* facts that may be true or not, and may change
    KubeConfigs,    \* the kubeconfigs of the instance
    ClusterResults  \* what the checks of stages 4 and 5 may return

VARIABLES
    config,     \* --cloud and the environment selectProvider reads
    call,       \* the next call of the running check, Done when it has returned
    seen,       \* what the running check remembers of its calls
    found       \* the results so far

checkVars == <<config, call, seen, found>>
cloudVars == <<vars, probeVars, checkVars>>

Done == 0

Concerns == {"kms", "secrets", "iam", "cluster"}
Replicas == {"east", "west"}
Tables   == {"pods", "nodes"}

Credentials == <<"credentials">>
Grant(c)    == <<"grant", c>>               \* the keystone create-rights of a concern
Key         == <<"exists", "key">>
KeyEnabled  == <<"enabled", "key">>
Rotation    == <<"rotates", "key">>
Secret(s)   == <<"secret", s>>
UserManaged(s) == <<"user-managed replicas", s>>
Sealed(s, r)   == <<"customer key", s, r>>  \* replica r names a key; on AWS r = "east"
Network     == <<"exists", "network">>
Usable      == <<"usable", "network">>      \* VPC available, VNet with subnets
Path        == <<"path", "network">>        \* NAT gateway, Cloud NAT, subnet with a UDR
Behind(t)   == <<"firewall route", t>>      \* default route of t via a VPC endpoint
Metadata    == <<"metadata route">>         \* some table routes the IMDS address
Scoped      == <<"role", "scoped">>         \* the UAMI has a role, not a privileged one
Privileged  == <<"role", "privileged">>

Facts == {Credentials, Key, KeyEnabled, Rotation, Network, Usable, Path, Metadata,
          Scoped, Privileged, Grant("network")}
         \cup {Grant(c) : c \in Concerns} \cup {Behind(t) : t \in Tables}
         \cup {Secret(s) : s \in Secrets} \cup {UserManaged(s) : s \in Secrets}
         \cup {Sealed(s, r) : s \in Secrets, r \in Replicas}

\* Which references the environment names, which secrets, and the concerns
\* being provisioned.
Environment(cloud, references, concerns) ==
    [cloud : {cloud}, names : SUBSET references, secrets : Seq(Secrets), concerns : concerns]

AwsOptions   == Environment("aws", {"key", "network", "path", "principal"},
                            SUBSET (Concerns \cup {"other"}))
GcpOptions   == Environment("gcp", {"key", "network", "path"}, {{}})
AzureOptions == Environment("azure", {"key", "network", "principal"}, {{}})
FakeOptions  == Environment("", {}, {{}})
WrongOptions == Environment("unknown", {}, {{}})

ASSUME CloudConstants ==
    /\ Configs \subseteq AwsOptions \cup GcpOptions \cup AzureOptions \cup FakeOptions \cup WrongOptions
    /\ Given \subseteq Facts /\ Varying \subseteq Facts
    /\ ClusterResults \subseteq Severities

\* The facts a provider asks for: one method of an SDK client each.
AwsAsks ==
    Facts \ ({Grant("network"), Scoped, Privileged}
             \cup {UserManaged(s) : s \in Secrets} \cup {Sealed(s, "west") : s \in Secrets})
GcpAsks == Facts \ ({Usable, Metadata, Scoped, Privileged} \cup {Behind(t) : t \in Tables})
AzureAsks ==
    {Credentials, Key, KeyEnabled, Rotation, Network, Usable, Path, Scoped, Privileged}
    \cup {Secret(s) : s \in Secrets}

Asks(cloud) ==
    CASE cloud = "aws"   -> AwsAsks
      [] cloud = "gcp"   -> GcpAsks
      [] cloud = "azure" -> AzureAsks
      [] OTHER           -> {}

\* selectProvider: the fake provider can always be had, an unknown one never.
Selected(cloud) ==
    CASE cloud = ""        -> {"ok"}
      [] cloud = "unknown" -> {"error"}
      [] OTHER             -> {"ok", "error"}

ResultIDs == {"identity", "kms", "secrets", "egress.vpc", "egress.nat",
              "egress.firewall_inpath", "egress.metadata_block", "egress.deferred"}

\* The calls of the check of the running stage.
Calls ==
    CASE stage = StageSecrets -> 1..(IF config.secrets = <<>> THEN 1 ELSE Len(config.secrets))
      [] stage = StageNetwork -> 1..5
      [] OTHER                -> 1..2

CloudTypeOK ==
    /\ ProbesTypeOK(Facts)
    /\ config \in Configs
    /\ call \in Calls \cup {Done}
    /\ seen \subseteq {Scoped, Privileged, Metadata}
    /\ found \subseteq ResultIDs \X Severities \X (Secrets \cup {""})

CloudInit ==
    /\ Init
    /\ config \in Configs
    /\ options.provider \in Selected(config.cloud)
    /\ options.kubeconfig \in KubeConfigs
    /\ \E S \in SUBSET (Varying \cap Asks(config.cloud)) : StartWith(Given \cup S)
    /\ call = 1
    /\ seen = {}
    /\ found = {}

-----------------------------------------------------------------------------
(* Calls and results.                                                       *)

\* Call n of the check of stage id is next, and the provider is cloud.
At(cloud, id, n) == Running /\ stage = id /\ config.cloud = cloud /\ call = n

\* A call for f can be answered: the client has credentials (it is built without
\* them), the environment names the reference, and f is there.
Answerable(f) ==
    /\ {Credentials, f} \subseteq facts
    /\ f = Key => "key" \in config.names
    /\ f = Network => "network" \in config.names

\* A call for f returns, ok or with an error.
Asked(f, ok) ==
    /\ ok => Answerable(f)
    /\ ~ok /\ Answerable(f) => May
    /\ Probed(~ok /\ Answerable(f))

NoCall == Probed(FALSE)

\* The check goes on with call n, which knows kept.
Continue(n, kept) ==
    /\ call' = n
    /\ seen' = kept
    /\ UNCHANGED <<vars, config, found>>

\* The check adds a result and goes on with call n.
ReportOn(id, s, of, n, kept) ==
    /\ ReportResult(s)
    /\ found' = found \cup {<<id, s, of>>}
    /\ call' = n
    /\ seen' = kept
    /\ UNCHANGED config

\* The check ends with a result.
Return(id, s) == ReportOn(id, s, "", Done, {})

-----------------------------------------------------------------------------
(* Stage 0: identity.                                                       *)

\* An environment without a concern leaves ProvisionConcerns nil, which means
\* all of them; only names of no concern leave none.
ProvisionConcerns(concerns) == IF concerns = {} THEN Concerns ELSE concerns \cap Concerns

\* The rights the check wants of the deploy identity.
Required ==
    CASE config.cloud = "aws" -> {Grant(c) : c \in ProvisionConcerns(config.concerns)}
      [] config.cloud = "gcp" -> {Grant(c) : c \in Concerns \cup {"network"}}
      [] OTHER                -> {}

AwsNothingToProvision ==
    /\ At("aws", StageIdentity, 1)
    /\ Required = {}
    /\ NoCall
    /\ Return("identity", "amber")

\* Without a configured principal: the identity of the caller.
AwsResolveCaller ==
    /\ At("aws", StageIdentity, 1)
    /\ Required # {}
    /\ "principal" \notin config.names
    /\ \E ok \in BOOLEAN :
        /\ Asked(Credentials, ok)
        /\ IF ok THEN Continue(2, {}) ELSE Return("identity", "red")

\* One call asks for all the rights.
RightsAreHeld ==
    \E ok \in BOOLEAN :
        /\ Asked(Credentials, ok)
        /\ Return("identity", IF ok /\ Required \subseteq facts THEN "green" ELSE "red")

AwsSimulatePolicy ==
    /\ At("aws", StageIdentity, IF "principal" \in config.names THEN 1 ELSE 2)
    /\ Required # {}
    /\ RightsAreHeld

GcpTestPermissions == At("gcp", StageIdentity, 1) /\ RightsAreHeld

\* The pages of the list of role assignments, and the role each may hold.
Pages == <<Scoped, Privileged>>

\* A page that fails fails the list.  Any role of the UAMI will do, a privileged
\* one is too much.
AzureListAssignments ==
    /\ \E n \in 1..Len(Pages) : At("azure", StageIdentity, n)
    /\ \E ok \in BOOLEAN :
        /\ Asked(Credentials, ok)
        /\ LET held == seen \cup ({Pages[call]} \cap facts)
           IN CASE ~ok -> Return("identity", "red")
                [] ok /\ call < Len(Pages) -> Continue(call + 1, held)
                [] OTHER -> Return("identity",
                       IF held = {} \/ "principal" \notin config.names THEN "red"
                       ELSE IF Privileged \in held THEN "amber" ELSE "green")

-----------------------------------------------------------------------------
(* Stage 1: the key.                                                        *)

AwsNoKey ==
    /\ At("aws", StageKMS, 1)
    /\ "key" \notin config.names
    /\ NoCall
    /\ Return("kms", "amber")

AwsDescribeKey ==
    /\ At("aws", StageKMS, 1)
    /\ "key" \in config.names
    /\ \E ok \in BOOLEAN :
        /\ Asked(Key, ok)
        /\ IF ok /\ KeyEnabled \in facts THEN Continue(2, {}) ELSE Return("kms", "red")

AwsGetRotation ==
    /\ At("aws", StageKMS, 2)
    /\ \E ok \in BOOLEAN :
        /\ Asked(Key, ok)
        /\ Return("kms", IF ok /\ Rotation \in facts THEN "green" ELSE "amber")

\* One call tells the state of the key and its rotation; a key that is not
\* configured is asked for by an empty name.
KeyInOneCall ==
    \E ok \in BOOLEAN :
        /\ Asked(Key, ok)
        /\ Return("kms", IF ~ok \/ KeyEnabled \notin facts THEN "red"
                         ELSE IF Rotation \in facts THEN "green" ELSE "amber")

GcpGetKey   == At("gcp", StageKMS, 1) /\ KeyInOneCall
AzureGetKey == At("azure", StageKMS, 1) /\ KeyInOneCall

-----------------------------------------------------------------------------
(* Stage 2: secrets, one call each.                                         *)

BugSilentWithoutSecrets ==
    /\ \E c \in {"aws", "gcp", "azure"} : At(c, StageSecrets, 1)
    /\ config.secrets = <<>>
    /\ NoCall
    /\ Continue(Done, {})

NoSecrets ==
    /\ \E c \in {"aws", "gcp", "azure"} : At(c, StageSecrets, 1)
    /\ config.secrets = <<>>
    /\ NoCall
    /\ Return("secrets", "amber")

BugCmekAnyReplica(s) ==
    /\ UserManaged(s) \in facts
    /\ \E r \in Replicas : (Sealed(s, r) \in facts) = ("key" \in config.names)

\* Every user-managed replica names the resolved key; when none is configured,
\* names no key.
CmekMatches(s) ==
    /\ UserManaged(s) \in facts
    /\ \A r \in Replicas : (Sealed(s, r) \in facts) = ("key" \in config.names)

\* Whether s passes for encrypted.
Encrypted(s) ==
    CASE config.cloud = "aws" -> "key" \in config.names /\ Sealed(s, "east") \in facts
      [] config.cloud = "gcp" -> CmekMatches(s)
      [] OTHER                -> TRUE

BugSecretLastWins ==
    /\ \E c \in {"aws", "gcp", "azure"} : At(c, StageSecrets, call)
    /\ call \in 1..Len(config.secrets)
    /\ \E ok \in BOOLEAN :
        LET s == config.secrets[call]
            sev == IF ok /\ Encrypted(s) THEN "green" ELSE "red"
        IN  /\ Asked(Secret(s), ok)
            /\ IF call = Len(config.secrets) THEN ReportOn("secrets", sev, s, Done, {})
               ELSE Continue(call + 1, {})

BugSecretOverrun ==
    /\ \E c \in {"aws", "gcp", "azure"} : At(c, StageSecrets, call)
    /\ call \in 1..Len(config.secrets)
    /\ \E ok \in BOOLEAN :
        LET s == config.secrets[call]
        IN  /\ Asked(Secret(s), ok)
            /\ ReportOn("secrets", IF ok /\ Encrypted(s) THEN "green" ELSE "red", s,
                        IF call > Len(config.secrets) THEN Done ELSE call + 1, {})

\* A secret that fails does not end the loop.
DescribeSecret ==
    /\ \E c \in {"aws", "gcp", "azure"} : At(c, StageSecrets, call)
    /\ call \in 1..Len(config.secrets)
    /\ \E ok \in BOOLEAN :
        LET s == config.secrets[call]
        IN  /\ Asked(Secret(s), ok)
            /\ ReportOn("secrets", IF ok /\ Encrypted(s) THEN "green" ELSE "red", s,
                        IF call = Len(config.secrets) THEN Done ELSE call + 1, {})

-----------------------------------------------------------------------------
(* Stage 3: the network.                                                    *)

BugNoNetworkIsRed ==
    /\ At("aws", StageNetwork, 1)
    /\ "network" \notin config.names
    /\ NoCall
    /\ Return("egress.vpc", "red")

AwsNoNetwork ==
    /\ At("aws", StageNetwork, 1)
    /\ "network" \notin config.names
    /\ NoCall
    /\ Return("egress.vpc", "amber")

AwsDescribeVpc ==
    /\ At("aws", StageNetwork, 1)
    /\ "network" \in config.names
    /\ \E ok \in BOOLEAN :
        /\ Asked(Network, ok)
        /\ IF ok /\ Usable \in facts THEN ReportOn("egress.vpc", "green", "", 2, {})
           ELSE Return("egress.vpc", "red")

AwsDescribeNat ==
    /\ At("aws", StageNetwork, 2)
    /\ \E ok \in BOOLEAN :
        /\ Asked(Credentials, ok)
        /\ ReportOn("egress.nat", IF ok /\ Path \in facts THEN "green" ELSE "amber", "", 3, {})

AwsNoFirewall ==
    /\ At("aws", StageNetwork, 3)
    /\ "path" \notin config.names
    /\ NoCall
    /\ ReportOn("egress.firewall_inpath", "amber", "", 5, {})

\* One list of route tables answers two questions; a default route via an
\* endpoint in any of the tables will do.
AwsDescribeRoutes ==
    /\ At("aws", StageNetwork, 3)
    /\ "path" \in config.names
    /\ \E ok \in BOOLEAN :
        /\ Asked(Credentials, ok)
        /\ IF ok
           THEN ReportOn("egress.firewall_inpath",
                         IF \E t \in Tables : Behind(t) \in facts THEN "green" ELSE "red",
                         "", 4, {Metadata} \cap facts)
           ELSE ReportOn("egress.firewall_inpath", "amber", "", 5, {})

AwsMetadataBlock ==
    /\ At("aws", StageNetwork, 4)
    /\ NoCall
    /\ ReportOn("egress.metadata_block", IF Metadata \in seen THEN "amber" ELSE "green", "", 5, {})

AwsDeferred ==
    /\ At("aws", StageNetwork, 5)
    /\ NoCall
    /\ Return("egress.deferred", "amber")

GcpGetNetwork ==
    /\ At("gcp", StageNetwork, 1)
    /\ \E ok \in BOOLEAN :
        /\ Asked(Network, ok)
        /\ CASE ~ok -> Return("egress.vpc", "red")
             [] ok /\ "path" \notin config.names -> Return("egress.nat", "amber")
             [] OTHER -> Continue(2, {})

GcpListNats ==
    /\ At("gcp", StageNetwork, 2)
    /\ \E ok \in BOOLEAN :
        /\ Asked(Credentials, ok)
        /\ IF ok /\ Path \in facts THEN Return("egress.vpc", "green")
           ELSE Return("egress.nat", "amber")

AzureGetVNet ==
    /\ At("azure", StageNetwork, 1)
    /\ \E ok \in BOOLEAN :
        /\ Asked(Network, ok)
        /\ Return("egress.vpc", IF ~ok \/ Usable \notin facts THEN "red"
                                ELSE IF Path \in facts THEN "green" ELSE "amber")

-----------------------------------------------------------------------------
(* The run.                                                                 *)

\* The fake provider has one green result per stage.
FakeCheck ==
    /\ At("", stage, 1)
    /\ stage \in Provisioned
    /\ NoCall
    /\ Return(<<"identity", "kms", "secrets", "egress.vpc">>[stage + 1], "green")

\* A call of a check of stages 0 to 3.
CloudCheck ==
    \/ FakeCheck
    \/ AwsNothingToProvision \/ AwsResolveCaller \/ AwsSimulatePolicy
    \/ GcpTestPermissions \/ AzureListAssignments
    \/ AwsNoKey \/ AwsDescribeKey \/ AwsGetRotation \/ GcpGetKey \/ AzureGetKey
    \/ NoSecrets \/ DescribeSecret
    \/ AwsNoNetwork \/ AwsDescribeVpc \/ AwsDescribeNat
    \/ AwsNoFirewall \/ AwsDescribeRoutes \/ AwsMetadataBlock \/ AwsDeferred
    \/ GcpGetNetwork \/ GcpListNats \/ AzureGetVNet

\* A check of stages 4 and 5 returns.
ClusterCheck ==
    /\ stage \in {StageKubernetes, StageWorkload}
    /\ \E s \in ClusterResults : ReportResult(s)
    /\ UNCHANGED <<probeVars, checkVars>>

\* A stage ends when its check has returned.
StageDone ==
    /\ stage \in Provisioned => call = Done
    /\ EndStage
    /\ call' = 1
    /\ UNCHANGED <<probeVars, config, seen, found>>

Preflight ==
    \/ (StartStages \/ EmitError \/ SkipStage \/ PrintReport) /\ UNCHANGED <<probeVars, checkVars>>
    \/ CloudCheck
    \/ ClusterCheck
    \/ StageDone

\* Something changes in the cloud while there are calls to come that may see it.
Change(f) ==
    /\ f \in Asks(config.cloud)
    /\ Running /\ stage \in Provisioned
    /\ Flip(f)
    /\ UNCHANGED <<vars, checkVars>>

CloudNext == Preflight \/ \E f \in Varying : Change(f)

CloudSpec == CloudInit /\ [][CloudNext]_cloudVars /\ WF_cloudVars(Preflight)

-----------------------------------------------------------------------------
(* Properties.  ever and always bracket what a call can have seen.          *)

\* The facts without which a result is red.
Wanted(id, of) ==
    CASE id = "identity"   -> Required
      [] id = "kms"        -> {Key, KeyEnabled}
      [] id = "secrets"    ->
            {Secret(of)} \cup
            (CASE config.cloud = "aws" -> {Sealed(of, "east")}
               [] config.cloud = "gcp" -> {UserManaged(of)} \cup
                      {Sealed(of, r) : r \in {x \in Replicas : "key" \in config.names}}
               [] OTHER -> {})
      [] id = "egress.vpc" -> {Network} \cup {x \in {Usable} : config.cloud # "gcp"}
      [] OTHER             -> {}

\* What a green result wants beyond that.
Desired(id) ==
    CASE id = "kms" -> {Rotation}
      [] id = "egress.nat" \/ (id = "egress.vpc" /\ config.cloud # "aws") -> {Path}
      [] id = "identity" /\ config.cloud = "azure" -> {Scoped}
      [] OTHER -> {}

\* What a green result says.
BacksGreen(id, of) ==
    /\ Credentials \in ever \/ id = "egress.metadata_block"
    /\ Wanted(id, of) \cup Desired(id) \subseteq ever
    /\ id = "egress.firewall_inpath" => \E t \in Tables : Behind(t) \in ever
    /\ id = "egress.metadata_block" => Metadata \notin always
    /\ id = "identity" /\ config.cloud = "azure" => Privileged \notin always

\* What may be the reason for a red result when no call failed.
ExplainsRed(id, of) ==
    \/ ~(Wanted(id, of) \subseteq always)
    \/ id = "identity" /\ config.cloud = "azure"
         /\ ("principal" \notin config.names \/ {Scoped, Privileged} \cap always = {})
    \/ id = "egress.firewall_inpath" /\ \A t \in Tables : Behind(t) \notin always
    \/ "key" \notin config.names
         /\ (id = "secrets" \/ (id = "kms" /\ config.cloud # "aws"))
    \/ "network" \notin config.names /\ id = "egress.vpc" /\ config.cloud # "aws"

\* A green result is true: all it says held at some time of the run, although
\* the check pieced it together from several calls and pages; nothing that was
\* not asked, not named or not answered is ever green (aws/kms.go:13-66,
\* azure/identity.go:41-78, aws/egress.go:147-195, gcp/secrets.go:55-68).  On
\* GCP without a configured key the secrets are not known to be encrypted.
GreenIsFounded ==
    config.cloud # "" => \A r \in found : r[2] = "green" => BacksGreen(r[1], r[3])

\* A red result has a reason: a call failed, something it wants was missing at
\* some time, or a reference is not configured; on AWS a concern that is not
\* configured is not the reason, except a key that secrets should be encrypted
\* with (docs/operations/common/preflight.md:178-190, aws/egress.go:39-50).
RedIsFounded ==
    errors = 0 /\ Credentials \in always =>
        \A r \in found : r[2] = "red" => ExplainsRed(r[1], r[3])

\* No stage of the cloud is over without a result: an empty stage would be green
\* (check.go:91-108, report.go:76-97).
EveryStageSpeaks ==
    ~failed => \A id \in Provisioned : report[id] \in Severities => results[id] # {}

\* A verdict that lets an agnostic deploy go on is backed by the cloud: every
\* right, the configured key, each configured secret and the network were there
\* at some time of the run; so is a green verdict in either mode
\* (cloudstages.go:39-48, aws/secrets.go:25-52, main.go:101-111).
CloudGoIsFounded ==
    /\ pc = "printed" /\ config.cloud # ""
    /\ verdict = "green" \/ (verdict = "amber" /\ options.mode = "agnostic")
    => /\ Required \subseteq ever
       /\ config.cloud = "azure" => {Scoped, Privileged} \cap ever # {}
       /\ "key" \in config.names => Wanted("kms", "") \subseteq ever
       /\ \A i \in 1..Len(config.secrets) : Wanted("secrets", config.secrets[i]) \subseteq ever
       /\ "network" \in config.names => Wanted("egress.vpc", "") \subseteq ever
       /\ config.cloud # "aws" => {"key", "network"} \subseteq config.names
       /\ {"network", "path"} \subseteq config.names /\ config.cloud = "aws"
             /\ errors = 0 /\ Credentials \in always =>
             \E t \in Tables : Behind(t) \in ever
===============================================================================
