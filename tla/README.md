# Verification of the multi-cloud workload deploy

TLA+ models of the programs of this repository, the TLC configurations that check them on small
instances, and TLAPS proofs of theorems about them for every instance. The source is
`src/operator` (the Workload operator and the preflight binary with its cloud providers), the two
Terraform modules that turn a preflight report into a deploy (`src/modules/preflight`,
`src/modules/workload`) and the release targets of mage (`src/magefile_release.go`).

## The system

| Part | State it keeps | Operations | Talks to |
|---|---|---|---|
| Workload operator (`operator/internal/controller`, `operator/cmd/main.go`) | nothing of its own: an informer cache, a work queue, one reconcile in progress | `Reconcile`: read, render, `CreateOrUpdate` per child, status patch | API server; triggered by watches, timers and its own status patch |
| Renderer (`operator/internal/render`, `charts/workload`) | none | spec to child objects, or an error | called by `Reconcile`; Helm uses the same chart in Tier B |
| Preflight runner (`operator/internal/preflight/check.go`, `report.go`, `operator/cmd/preflight`) | the report being built | stages 0 to 5, short circuit, verdict, error report | calls the checks, prints for Terraform |
| Kubernetes checks (`k8sstages.go`) | none between checks | one to four API calls per check | API server of the target cluster |
| Cloud providers (`operator/internal/cloud/*`, `preflight/cloudstages.go`) | clients | one method per stage 0 to 3: the rights of the deploy identity, the key, each secret, the network | cloud APIs; configured by the environment |
| Terraform gate (`modules/preflight`) and tiers (`modules/workload`) | the plan | postcondition, tier derivation, CR or Helm release | runs the binary; applies to the cluster |
| Release bundle (`magefile_release.go`) | none between targets: `dist/`, `release/` and the registries | image, charts, SBOM, signature, BOM, or all of them in a row | docker, helm, syft, cosign |
| Platform, security, observability and cloud modules | Terraform state | declarative resources | clouds, cluster |

Where it is hard:

* **Operator.** A reconcile is a dozen calls against objects that other actors write, decided on
  cached copies of any age. Calls fail or lose their reply, the process stops anywhere, an upgrade
  overlaps two processes without leader election, the Workload is edited, deleted and re-created
  meanwhile. Correct means: what the status says of a generation is true; fields and objects of
  others survive; once disturbances stop the children are what the spec asks, and then the operator
  rests.
* **Preflight.** The report is assembled from calls made one after the other on a cluster that
  changes; stages are masked, skipped, empty or fail. Correct means: the verdict is exactly what the
  findings call for, no go without a cause to go, no red without a cause, always a report.
* **Clouds.** A check pieces its result together from one to five calls, pages and lists, with
  references that the environment may leave out. Correct means: a green result says nothing that was
  not so, a red one has a reason, and no check is silent, since an empty stage counts as green.
* **Deploy.** A plan decides on a report and is applied later. Correct means: red stops it, and the
  tier it plans is one the reviews have found. An apply needs more than was reviewed, and may fail.
* **Release.** Nine commands, each of which names the image by a tag and resolves it anew, and any of
  which may fail, with or without having had its effect; runs of the same version share everything.
  Correct means: a BOM pins artifacts that exist and that belong together.

`PROJECT.json` lists the hazards line by line with the properties that watch them.

## Modules

```
PreflightReport        severities, worse, the mask
  ├─ PreflightGate         what a preflight promises (abstract)
  └─ PreflightRunner       one run of the binary; implements PreflightGate
       ├─ PreflightRunner_proofs
       ├─ CloudChecks          stages 0 to 3, call by call, on a changing cloud
       │    ├─ MCCloudChecks
       │    └─ CloudChecks_proofs   (also uses PreflightRunner_proofs)
       │         └─ CloudVerdict_proofs
       └─ ClusterChecks        stages 4 and 5, call by call, on a changing cluster
            ├─ MCClusterChecks
            ├─ ClusterChecks_proofs (also uses PreflightRunner_proofs)
            └─ DeployGate          Terraform plan and apply around it
                 ├─ MCDeployGate
                 └─ DeployGate_proofs    (also uses ClusterChecks_proofs)
Probes                 calls on a system that changes and fails; part of CloudChecks, ClusterChecks
AtomicApply            the operator as if CreateOrUpdate were one step (abstract)
WorkloadOperator       the operator and everything beside it; implements AtomicApply
  ├─ MCWorkloadOperator
  └─ WorkloadOperator_proofs
Release                the release targets
  ├─ MCRelease
  └─ Release_proofs
```

Definitions called `Bug...` are plausible mistakes in the definition after them. No specification
uses them; they show that a property notices the mistake.

### WorkloadOperator

One Workload name and its children, any number of operator processes.

| Model | Code |
|---|---|
| `Begin(m)` | take the request, `r.Get` from the cache, snapshot `base`, `render.Chart` (`workload_controller.go:35-57`) |
| `ApplyChild`, `FailChild` | one turn of the apply loop, `setOwnerAndApply` (`:59-67`, `apply.go`): `CreateChild`, `UpdateChild`, `LeaveChild`, `Refused` are the outcomes of `CreateOrUpdate` |
| `PatchStatus(m)` with `NewStatus`, `MergePatch` | conditions, ready replicas, observed generation, `Status().Patch(MergeFrom(base))`, result (`:48-98`) |
| `Observe`, `Enqueues`, `RequeueDue` | watches set up in `SetupWithManager`, `RequeueAfter`, backoff |
| `Restart` | the process ends anywhere and lists everything again |
| `CollectGarbage`, `Scale`, `ReportReady`, `Drift`, `CreateWorkload`, `EditSpec`, `DeleteWorkload` | garbage collector, HPA, Deployment controller, others, users |

`AtomicApply` is the operator as one would write it if `CreateOrUpdate` were one step: a process has a
request (uid and spec of a Workload as it was at some time) and sets one child after the other to
what it renders, on the child as it is. `ImplementsAtomicApply` maps the operator to it: what was
asked for, known and ordered are the live, the cached and the base Workload, `left` is `todo`. Cached
children, resourceVersions, queue and status have no counterpart, so they cannot excuse a write.

Notes on the abstraction:

* `resourceVersion` is used by the code for one comparison, cached against live; `stale[m]` is that
  comparison. A patch without a resourceVersion is never refused.
* `CreateOrUpdate` reads the cache and then writes. The two are one step: the cached copy is fixed by
  the read, and what happens at the server before the write only makes the copy stale, which the
  same step covers with `Observe` not having happened.
* A child is its controller, the part the chart renders (labels and annotations folded in), one
  field others own (`spec.replicas` of the Deployment, `clusterIP` of the Service) and the ready
  count. `Rewritten` are the kinds whose rendered spec never equals the live one, because the API
  server adds defaults to it: `CreateOrUpdate` always sends those. Deployment and Service are; for
  an HPA the rendered spec is complete.
* The order in which the children are applied is the order of a rendered map of templates: any.
* `newMessage` is the one effect of error texts: a new text makes the condition list differ.
* Replies may be lost, and calls may fail that the API server would accept, only while `"lost"` is
  among the instance's disturbances.

### PreflightRunner, PreflightGate, Probes, ClusterChecks

`PreflightRunner` is one process: `StartStages` or `EmitError`, then per stage any number of
`ReportResult` and one `EndStage`, or `SkipStage`, then `PrintReport`. The two folds of `report.go`
are taken one element at a time (`status`, `verdict`); `TrueSeverity` and `VerdictIsTruth` compare
them with a definition over the whole set. `PreflightGate` is what a caller may rely on: findings come in,
then one verdict is announced, a function of the findings. `ImplementsGate` maps the runner to it.

`Probes` is what checks have in common. A system is a set of facts; a step is one call; between
calls a fact may change (`Flip`), and a call may fail. `ever` and `always` are the facts that held at
some time and all the time: whatever the calls saw lies between the two. The properties say which
verdict and which result such a run may end with.

`ClusterChecks` replaces "a check returns some severity" for stages 4 and 5 by the calls of each
check. Its facts are a right, an object, a served API; beside them the cluster has a version, which
does not change during a run. `Discovery` and `List` calls return one consistent answer; the version
result of Argo Rollouts is computed from the same list as its presence, so it costs no call.

### CloudChecks

Stages 0 to 3 for the four providers. A check is a row of calls (`call`), each of which continues,
reports a result or ends the check; `seen` is what one call keeps for a later one.

| Model | Code |
|---|---|
| `config`, `Selected` | `--cloud` and the environment of `selectProvider` and `splitNonEmpty` (`cmd/preflight/main.go:136-189`) |
| `AwsNothingToProvision`, `AwsResolveCaller`, `AwsSimulatePolicy`, `ProvisionConcerns` | `aws/identity.go` |
| `GcpTestPermissions`, `AzureListAssignments` | `gcp/identity.go`; `azure/identity.go`, `azure/azure.go:117-137` (the pager) |
| `AwsNoKey`, `AwsDescribeKey`, `AwsGetRotation`, `KeyInOneCall` | `kms.go` of each cloud |
| `NoSecrets`, `DescribeSecret`, `Encrypted`, `CmekMatches` | `secrets.go` of each cloud |
| `AwsNoNetwork` to `AwsDeferred`, `GcpGetNetwork`, `GcpListNats`, `AzureGetVNet` | `egress.go` of each cloud |
| `FakeCheck`, `StageDone` | `cloud/fake`, `preflight/cloudstages.go` |

* An ID is taken without the cloud's prefix and without the suffix that names the reason of one
  severity; the deferred results of the AWS network stage, always amber, are one result.
* `Asked(f, ok)` is one call. Without credentials, with a reference that is not configured (an empty
  name) or without the object there is no answer; every other failure is an incident.
* An environment variable that is unset or empty leaves no concern named, which `ProvisionConcerns`
  turns into all of them; only a list of unknown names leaves none.
* A role assignment of Azure has its page: it may be granted or revoked between two pages, but one
  that is held all the time and moves to a page already read does not occur. Whether the service
  shifts pages is not in this code.
* Facts change while there are calls to come; what changes after the last call no call can see.
* Stages 4 and 5 return one of `ClusterResults` here, with a kubeconfig of `KubeConfigs`; they are the
  subject of `ClusterChecks`.

### DeployGate

`Plan` is what Terraform evaluates from the report: postcondition, the null results of a skipped stage,
tier, override, validation in `modules/workload`. `ApplyPlan` is the first apply, later, on the cluster
as it is then. `CannotDoWithout` are the facts it cannot succeed without (the chart's Deployment and
NetworkPolicy in Tier B; nothing for the Workload of Tier A, whose CRD another module installs). With
all of them it may still fail: the right to write a Workload, the release secrets, Service, HPA and
PDB is no fact of the model because no check asks for it, and the waits for Ready (`wait_for_ready`)
and for the release (300 s) may run out. So no property speaks of how an apply ends.

### Release

A run of mage is a stretch of the nine commands: the whole row for `Bundle`, a part of it for a single
target. Each command is an action (`Image`, `Package`, `Push`, `Sbom`, `Sign`, `Resolve`, `Bom`),
which reads the tag, `dist/` and the registries as other runs have left them.

| Model | Code |
|---|---|
| `Start` | `releaseVersion`: without `VERSION` every target fails (`:34-40`) |
| `Image`, `Package`, `Push` | `docker buildx build --push`, `helm package`, `helm push` (`:57-93`) |
| `Sbom`, `Sign`, `Uses` | `syft` and `cosign` on `repo:tag`, skipped when not installed (`:97-131`) |
| `Resolve`, `Bom` | `IMAGE_DIGEST`, else the inspected digest, else a placeholder; then the file (`:136-181`) |
| `End`, `CommandFails` | a command that fails with its effect, or without it; `Abort` ends the run, `SerialDeps` the bundle |

* A digest stands for an image, a run for the chart it packaged. `Trim` is `strings.TrimPrefix(v, "v")`:
  two spellings of a version are two tags and one chart version.
* `disturbed` records which runs had an artifact of theirs touched by another run. It is history;
  no command reads it. `BomIsTrue` speaks of the others: what another run has published in between may
  make a BOM false, nothing in the code prevents it, and the property says that nothing else does.
* The inspection at the end of `Image` only prints.

## What is checked

| Run | Question | Size |
|---|---|---|
| `edits` | do spec edits, a spec that does not render, Canary, lost replies and restarts leave a status that is true and monotone? | 1 manager, 2 kinds, 3 specs, 3 generations |
| `writers` | do stale writes ever harm what the HPA or another controller owns, and does each have the effect of one step on the live child? | 1 manager, 1 kind, 6 disturbances |
| `converges` | are drift of watched and unwatched children, readiness, failed calls, lost replies and restarts repaired and reported? | 1 manager, 2 kinds, 1 spec |
| `two` | do two overlapping managers, either restarted at any time, end with the spec applied and come to rest? | 2 managers, 1 kind, 1 spec |
| `cascade` | is nothing of the old Workload left, and everything of the new one right, after delete and re-create in mid-reconcile, with lost replies and restarts? | 1 manager, Deployment and an Ingress one spec leaves out, 2 specs, 2 uids |
| `preflight_all` | is the report right, always printed, and an implementation of the gate? | all options, all results |
| `cloud_checks` | is each green and each red of a cloud founded, no stage silent, and a verdict to go on backed? | 10 environments, 14 facts that vary, 1 change or failure |
| `cluster_checks` | is each go and each red founded, and do the canary results fit together and the cluster? | 9 facts that vary, 5 versions, 1 change or failure |
| `deploy_gate` | is the tier one the identity could have had, and what has a plan that goes ahead behind it, with every setting? | 3 rights and NetworkPolicy, 2 changes or failures |
| `release` | does a bundle's BOM pin artifacts that exist, and those the bundle has made? | 2 runs of any targets, 2 spellings of a version, 2 digests, 2 failures |

`CloudStages` and `CloudResults` say which of the credential and network
stages return something in the instances of `ClusterChecks`, and what: stage 0 a red in
`cluster_checks`, stages 0 and 3 a red in `deploy_gate`. What those stages really return is
`cloud_checks`, whose own stages 4 and 5 are green, so that a green or amber verdict speaks of the
cloud. `PreflightRunner` lets every stage return every severity.

Runs that end in a violation, each a disagreement of the code with what the repository says:

| Run | What it shows |
|---|---|
| `aba` | Ready=True, "all child objects applied", over an HPA of an intermediate spec (`workload_controller.go:88`) |
| `deploy_crash` | with `fail_on_red = false` a red before stage 4 crashes the plan (`modules/preflight/main.tf:42`) |

### Disagreements without a run of their own

The models follow the code. Where a document or comment says something else and the reading alone
settles it, there is no run:

* Operator. The document says that the `Owns()` watch re-reconciles on child changes
  (`docs/components/workload-operator.md:97`); only Deployments are owned, as `Enqueues` says, and
  `converges` shows that the requeue repairs the others. "Conflicts propagate" of the status patch
  (`workload_controller.go:101`, `docs/components/workload-operator.md:104`): the patch carries no
  resourceVersion and is never refused. "Both tiers render the identical chart, so they cannot drift"
  (`docs/components/workload-operator.md:139`): an Ingress taken out of the spec stays in Tier A, as
  the operator only applies what is rendered.
* Versions. A BOM claims compatibility with `kubernetes: ">=1.30 <=1.34"` (`release/bom.template.yaml:35`).
  The preflight knows a floor of 1.26 and no ceiling (`k8sstages.go:17-20`, `:297`): 1.26 to 1.29, everything
  above 1.34 and any 2.x are green. `NoFalseGo` and `NoFalseAlarm` measure a verdict by the floor of the
  binary, not by the range of the BOM.
* Install tier. The preflight asks Tier A for the right to create ClusterRoles
  (`k8sstages.go:394`), although the operator chart has a Role and "never a `ClusterRole`"
  (`docs/components/workload-operator.md:125`); what the tiers do need is reviewed in part only (see
  `DeployGate`).
* Clouds. BYO everything on AWS with an explicitly empty `PREFLIGHT_AWS_PROVISION_CONCERNS` is
  documented as amber (`docs/operations/aws/deploy.md:157`); `splitNonEmpty` (`main.go:179`) turns empty
  into nil and nil means every concern, so missing rights are red. On GCP and Azure a key or network
  that is not configured is red, not "amber, never red" (`docs/operations/aws/deploy.md:128` says it
  of AWS); on AWS it is amber, not "red" (`main.go:131`). On GCP, without a configured key, a secret
  whose replicas name no key is green (`gcp/secrets.go:57`). `egress.firewall_inpath` is green for
  one route table of several. Of the stable result IDs that implementations "MUST emit"
  (`cloudstages.go:9`) GCP and Azure emit none of those listed, AWS leaves out `egress.metadata_block` at a
  customer's edge.
* Release. The comment says that `Sign` signs the image and the SBOM (`magefile_release.go:114`), the
  design that it signs image and charts (`docs/design.md:500`, `:510`); it signs the image. The BOM
  claims both signatures also when `cosign` or `syft` was skipped, and its chart digests stay "(set
  after helm push)".

### Bounds

Three generations give a -> b -> a; a third spec does not render. Two
kinds are one watched and one unwatched, one always sent and one skipped when equal, or one always
rendered and one not. Two uids are
an old and a new Workload. One changed fact between two calls is what separates a call from the
next; two let each of the three reviews of the tier see another cluster. The versions are 1.25 and 1.26,
2.0 (a minor below the floor), 0.30 (a minor above it) and one that does not parse. The groups of the
service meshes are absent in `cluster_checks`, an ingress class may be there; `CanaryTellsTheTruth`
covers the groups. In `cloud_checks` of each
sort of fact one varies (one right, one secret with its keys, one route table), the others are true, and the
ten environments name all references, none and the mixtures a check distinguishes; two secrets tell
a loop from its last turn. In `release` two runs are a run and its
disturbance, or a bundle and its repetition; two failures let each run fail once. `MaxUid`, `MaxGen`,
`MaxIncidents` and `MaxFailures` are the only counters, and they bound what the environment does,
never the program.
Liveness costs most, so its disturbances are spread: `converges` has third-party edits, readiness, lost replies
and restarts with one manager, `cascade` deletion and re-creation with lost replies and restarts, `two` two
managers with restarts. Lost replies with two managers are in no liveness run; calls of theirs
that are refused (Conflict, AlreadyExists) are in `two`. A Workload has one generation in these runs:
children of another spec come from a Workload that was deleted, edits of the spec are in `edits`.
The safety runs `edits` and `writers` have one manager; theorems cover any number where they hold for it (`HeldFieldsKept`, `ForeignOwnerRespected`,
`OperatorIsAtomic`, `CanaryIsNeverIgnored`).
`CHECK_DEADLOCK FALSE` is set because these programs may stop: a preflight and a release
end, and a bounded environment lets the operator come to rest.

### Fairness

* Operator: informers deliver (`Observe`), timers fire (`RequeueDue`), the worker goroutine goes on
  with what it has (`Begin`, `Apply`, `PatchStatus`), the garbage collector gets to every orphan.
  Users and disturbances owe nothing. `Converges` and `Quiesces` speak of the time after the
  disturbances have stopped (`calm`). Nothing is assumed about the order of children, so the loop is
  fair as a whole and not per child.
* Preflight: the process keeps running and every check returns. The code has no deadline
  (`context.Background()`), so this is an assumption about the servers and not a fact of the code;
  only `AlwaysPrints` uses it. `CloudChecks` and `ClusterChecks` state it too and `DeployGate` needs
  none.
* Release: none. A run may stop at any command, and every property is one of safety.

## What is proved

For every value of the constants, checked by TLAPS (SMT, Zenon, LS4).

*Operator* (`WorkloadOperator_proofs`). `TypeCorrect` is an invariant by itself: a busy reconcile has
a Workload and only rendered children to do. `HeldFieldsKept` and `ForeignOwnerRespected` follow from
what a cache that is not stale knows: it equals the live object, so a write that passes the version
check writes what was mutated from the live child. That, and that a process at rest has no Workload
and no children left (`AtRest`), give the refinement `OperatorIsAtomic`, for any number of managers,
any disturbance and any number of re-creations: each step maps to a step of `AtomicApply` or shows
nothing there. `ReadyIsTrue` and `ObservedNeverRegresses` need `Sole`: one manager, one Workload
object, no third-party writer of children. Their invariant adds
that a child not in `todo` carries the content of the generation the reconcile works from, that
generations only grow from status to base to cache to live object, and that a status at the live
generation was computed from it; Ready alone is not inductive because it is written at the end from
what was done long before. `CanaryIsNeverIgnored` asks for less, only that the Workload is not
re-created under its name (`MaxUid = 1`): managers may overlap and others may write the children.
Its invariant `Claim` says that whatever a manager works from descends from the live Workload
(`Descent`), so a spec goes with its generation, and that the status is not ahead of it
(`NotAhead`); Ready and RolloutDegraded then speak of one spec because they are computed and patched
together.

*Preflight* (`PreflightRunner_proofs`). `IInv` ties the incremental fold to the set of results of
each stage (`CurrentStage`, `Progress`), the verdict to the stages reported so far (`VerdictSoFar`),
the short circuit to a blocking red before (`ShortCircuit`) and stage 4 to its one red result without
a cluster (`NoCluster`). From it: `RunnerTypeCorrect`, `VerdictIsSound`, `SeverityIsKept`,
`SkippingIsJustified`, `NoClusterIsRed`, and the refinement `RunnerImplementsGate`.

*Clouds* (`CloudChecks_proofs`). `CloudImplementsRunner`: each call of a check is a step of the runner
or leaves it alone, so the runner's theorems hold with the real providers. `CloudTypeCorrect` adds
that no check calls beyond its last call; `NoStageIsSilent` that a check which is over has a result.
`GreenIsTrue` and `RedHasReason` need the bracket of `Probes`: a fact seen is in `ever`, a fact missed
is not in `always`, and both stay so. What a later call relies on is kept with it
(`Remembers`): that the key whose rotation is asked for was enabled, that the role seen on the first
page was held, and that a role or a metadata route not in `seen` was missing at some time.

*Cloud verdict* (`CloudVerdict_proofs`). `CloudVerdictIsFounded` is `CloudGoIsFounded`. A verdict knows
severities and no results, so "this go is founded" has to be carried back from the verdict: it is
not red, hence no provisioned stage has a red (`GoMeansNoRed`), hence each of them has found out
what `Sound` says of it. `SoundInv` says so of the stages that are over (`ReportIsSound`) and, of the
stage that is running, of its calls so far (`RunningIsSound`, `SoundSoFar`: the secrets before this
one; on AWS the VPC, then a route table that leads to the firewall). There is one lemma per check: it returns a red,
or what it was to find out is in `ever`.

*Cluster* (`ClusterChecks_proofs`). `ClusterImplementsRunner` and `ClusterInv`: every result that was
left is backed by the bracket of `Probes` (`AllBacked`); what the running check keeps of its calls was
so when it was asked (`AnswersFit`); the results present are those of the checks that had their turn,
the canary's parts only behind Argo Rollouts (`InOrder`), and they are what the runner has collected
(`Collected`). The last two are needed because a go is the absence of a red: that no result is red
says something only of the checks that left one. From it: `GoIsFounded`, `AlarmHasReason`,
`CanaryTellsTheTruth`, `ClusterTypeCorrect`.

*Deploy* (`DeployGate_proofs`). Every step of the call-by-call preflight, of the cluster and of
Terraform is a step of the runner (`DeployImplementsRunner`) and of `ClusterChecks` (`DeployIsCluster`)
or leaves it alone, so the invariants of both hold of the whole. After the report is printed only the
cluster moves (`AfterPrint`); with `DeployInv`, which ties the plan to the report it was made from,
this gives `RedIsStopped`, `DeployedTierIsHonest`, `DeployTypeCorrect` and `PlanKnowsItsTier`: a verdict
that is not red has a tier result (`GoMeansResults`), the tier is derived from it, and the reviews
behind it saw rights that were held. Nothing is proved of an apply.

*Release* (`Release_proofs`). `BundleIsWhole` needs that what is published stays published, and that a
bundle past a command has the artifact of that command (`Fresh` for runs that have not begun,
`RunsKnow` for the others). For `BomTellsTheTruth` the same knowledge is sharper: as long as nobody
has touched its image, what a bundle described and signed is what the tag names, and as long as
nobody has touched its charts, `dist/` and the registry hold its own.

The assumptions are the named `ASSUME`s (`ConstantsAssumption`, `ProbesConstants`,
`ClusterConstants`, `CloudConstants`, `ReleaseConstants`), which TLC
evaluates on each instance.

*Only model-checked*: the liveness properties `Converges`, `Quiesces` and `AlwaysPrints`. They rest on
weak fairness, whose ENABLED the prover does not handle. Every other property of a passing run is
stated by a theorem.

## What is not modelled, and the plan

In the order of their weight:

1. `TierChange`: several applies in a row, with the rights each write needs. The tier flips when a
   right is withdrawn or a review fails (`modules/preflight/main.tf:59`); Terraform destroys the Workload while it installs the chart
   under the same names, against the garbage collector and the operator; `wait_for` against the
   status of an earlier generation; `replace_triggered_by`.
2. The status in `AtomicApply`: what an order that is over announces (generation, Ready), so that
   `ReadyMeansApplied` becomes a property of the atomic operator that `WorkloadOperator` inherits.
3. `RenderValues`: the mapping of a spec to chart values in both tiers and where they differ.
4. Alternating error texts and the backoff they bypass.

Left out of the release: the working tree that changes between two commands, the tag of the Terraform
modules, which no target makes, and the registry's own guarantees. Left out for good: build targets,
declarative infrastructure, generated code, manifests, message
texts. `--exit-on-red` acts after the report is printed and on the exit code only.
