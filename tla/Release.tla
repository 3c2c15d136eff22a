-------------------------------- MODULE Release --------------------------------
(***************************************************************************)
(* The release targets of magefile_release.go: a run of mage works through *)
(* the commands of its targets, from a bundle down to a single target.     *)
(* Runs of the same version share the registries, dist/ and release/.      *)
(*                                                                         *)
(* A tag of the image is moved by every push and resolved anew by every    *)
(* command that names it.  A package and a published chart are the run     *)
(* that made them.  The inspection at the end of Image only prints.        *)
(***************************************************************************)
EXTENDS Naturals

CONSTANTS
    Runs,           \* runs of mage
    Versions,       \* values of VERSION
    Trim,           \* the version of the charts: without a leading v
    Digests,        \* of the operator image; a build may make any of them
    Invocations,    \* the targets and environments of the instance
    MaxFailures     \* bound: commands that fail although they could succeed

Unset == ""
None  == "none"
Torn  == "torn"
Unresolved == "unresolved"

\* The charts, and the commands in the order Bundle has them (SerialDeps: one
\* target after the other).
Charts         == 1..2
PushImage      == 1
PackageChart(c) == 2 * c
PushChart(c)   == 2 * c + 1
DescribeImage  == 6
SignImage      == 7
ResolveDigest  == 8
WriteBom       == 9

\* A target is a stretch of commands.
Stretch(from, to) == [first |-> from, last |-> to]

Bundle     == Stretch(PushImage, WriteBom)
ImageOnly  == Stretch(PushImage, PushImage)
ChartsOnly == Stretch(PackageChart(1), PushChart(2))
SbomOnly   == Stretch(DescribeImage, DescribeImage)
SignOnly   == Stretch(SignImage, SignImage)
BomOnly    == Stretch(ResolveDigest, WriteBom)

Targets == {Bundle, ImageOnly, ChartsOnly, SbomOnly, SignOnly, BomOnly}

ASSUME ReleaseConstants ==
    /\ Trim \in [Versions -> Versions]
    /\ Invocations \subseteq [target : Targets, version : Versions \cup {Unset},
                              syft : BOOLEAN, cosign : BOOLEAN, digest : Digests \cup {Unset}]
    /\ MaxFailures \in Nat
    /\ None \notin Runs
    /\ Digests \cap {None, Torn, Unresolved} = {}

VARIABLES
    invocation,     \* of each run
    status,         \* "idle", "running", "ok" or "failed"
    next,           \* the next command of each run
    resolved,       \* the digest a run is about to write into the BOM
    tag,            \* the image a version names, per version
    package,        \* dist/<chart>-<version>.tgz, per chart and trimmed version
    published,      \* the chart in the registry, per chart and trimmed version
    sbom,           \* the image dist/sbom-<version>.spdx.json describes
    signed,         \* images with a signature
    bom,            \* release/bom-<version>.yaml
    failures,
    disturbed       \* what others have worked on while a run was running

ownVars      == <<invocation, status, next, resolved>>
artifactVars == <<tag, package, published, sbom, signed, bom>>
releaseVars  == <<ownVars, artifactVars, failures, disturbed>>

ReleaseTypeOK ==
    /\ invocation \in [Runs -> Invocations]
    /\ status \in [Runs -> {"idle", "running", "ok", "failed"}]
    /\ \A r \in Runs : status[r] \in {"running", "ok"} => invocation[r].version \in Versions
    /\ next \in [Runs -> Nat]
    /\ \A r \in Runs : LET target == invocation[r].target IN
          IF status[r] = "ok" THEN next[r] = target.last + 1
                              ELSE next[r] \in target.first..target.last
    /\ resolved \in [Runs -> Digests \cup {None, Unresolved}]
    /\ tag \in [Versions -> Digests \cup {None}]
    /\ package \in [Charts \X Versions -> Runs \cup {None}]
    /\ published \in [Charts \X Versions -> Runs \cup {None}]
    /\ sbom \in [Versions -> Digests \cup {None}]
    /\ signed \subseteq Digests
    /\ bom \in [Versions -> [digest : Digests \cup {None, Torn, Unresolved}, by : Runs \cup {None}]]
    /\ \A v \in Versions : bom[v].digest # None => bom[v].by # None
    /\ failures \in 0..MaxFailures
    /\ disturbed \subseteq Runs \X {"image", "charts"}

ReleaseInit ==
    /\ invocation \in [Runs -> Invocations]
    /\ status = [r \in Runs |-> "idle"]
    /\ next = [r \in Runs |-> invocation[r].target.first]
    /\ resolved = [r \in Runs |-> None]
    /\ tag = [v \in Versions |-> None]
    /\ package = [c \in Charts \X Versions |-> None]
    /\ published = [c \in Charts \X Versions |-> None]
    /\ sbom = [v \in Versions |-> None]
    /\ signed = {}
    /\ bom = [v \in Versions |-> [digest |-> None, by |-> None]]
    /\ failures = 0
    /\ disturbed = {}

-----------------------------------------------------------------------------
(* A run.                                                                   *)

VersionOf(r) == invocation[r].version
ChartVersion(r) == Trim[VersionOf(r)]

BugStartWithoutVersion(r) ==
    /\ status[r] = "idle"
    /\ status' = [status EXCEPT ![r] = "running"]
    /\ UNCHANGED <<invocation, next, resolved, artifactVars, failures, disturbed>>

\* The environment is read by every target; without VERSION the first one fails.
Start(r) ==
    /\ status[r] = "idle"
    /\ status' = [status EXCEPT ![r] = IF VersionOf(r) = Unset THEN "failed" ELSE "running"]
    /\ UNCHANGED <<invocation, next, resolved, artifactVars, failures, disturbed>>

At(r, command) == status[r] = "running" /\ next[r] = command

\* The others that work on the same artifact see it change.
Disturbs(r, what) ==
    disturbed' = disturbed \cup
        {<<p, what>> : p \in {q \in Runs \ {r} :
            /\ status[q] = "running"
            /\ IF what = "image" THEN VersionOf(q) = VersionOf(r)
                                 ELSE ChartVersion(q) = ChartVersion(r)}}

\* The command has succeeded.
Proceed(r) ==
    /\ next' = [next EXCEPT ![r] = @ + 1]
    /\ status' = [status EXCEPT ![r] = IF next[r] = invocation[r].target.last THEN "ok" ELSE @]
    /\ UNCHANGED invocation

Succeed(r) == Proceed(r) /\ UNCHANGED <<resolved, failures>>

Failing == failures < MaxFailures /\ failures' = failures + 1

BugGoesOn(r) ==
    /\ next[r] < invocation[r].target.last
    /\ Proceed(r)
    /\ UNCHANGED resolved

\* The command has failed, and with it the target and the targets after it.
Abort(r) ==
    /\ status' = [status EXCEPT ![r] = "failed"]
    /\ UNCHANGED <<invocation, next, resolved>>

\* A command that had its effect may fail all the same.
End(r) == Succeed(r) \/ (Failing /\ Abort(r))

\* docker buildx build --push.
Image(r) ==
    /\ At(r, PushImage)
    /\ \E d \in Digests : tag' = [tag EXCEPT ![VersionOf(r)] = d]
    /\ End(r)
    /\ Disturbs(r, "image")
    /\ UNCHANGED <<package, published, sbom, signed, bom>>

Package(r, c) ==
    /\ At(r, PackageChart(c))
    /\ package' = [package EXCEPT ![<<c, ChartVersion(r)>>] = r]
    /\ End(r)
    /\ Disturbs(r, "charts")
    /\ UNCHANGED <<tag, published, sbom, signed, bom>>

\* helm push sends what dist/ holds now.
Push(r, c) ==
    /\ At(r, PushChart(c))
    /\ published' = [published EXCEPT ![<<c, ChartVersion(r)>>] = package[<<c, ChartVersion(r)>>]]
    /\ End(r)
    /\ Disturbs(r, "charts")
    /\ UNCHANGED <<tag, package, sbom, signed, bom>>

\* syft and cosign, of the image the tag names now; skipped when not installed.
Uses(r, installed) == IF installed THEN tag[VersionOf(r)] # None /\ End(r) ELSE Succeed(r)

Sbom(r) ==
    /\ At(r, DescribeImage)
    /\ Uses(r, invocation[r].syft)
    /\ sbom' = IF invocation[r].syft THEN [sbom EXCEPT ![VersionOf(r)] = tag[VersionOf(r)]] ELSE sbom
    /\ UNCHANGED <<tag, package, published, signed, bom, disturbed>>

BugSignBestEffort(r) ==
    /\ At(r, SignImage)
    /\ Succeed(r)
    /\ signed' \in {signed, signed \cup ({tag[VersionOf(r)]} \ {None})}
    /\ UNCHANGED <<tag, package, published, sbom, bom, disturbed>>

Sign(r) ==
    /\ At(r, SignImage)
    /\ Uses(r, invocation[r].cosign)
    /\ signed' = IF invocation[r].cosign THEN signed \cup {tag[VersionOf(r)]} ELSE signed
    /\ UNCHANGED <<tag, package, published, sbom, bom, disturbed>>

\* A digest of the environment wins.  An inspection that fails does not fail the
\* target.
Resolve(r) ==
    /\ At(r, ResolveDigest)
    /\ Proceed(r)
    /\ \E d \in ({invocation[r].digest} \ {Unset}) \cup {tag[VersionOf(r)], Unresolved} :
        /\ invocation[r].digest # Unset => d = invocation[r].digest
        /\ d # None
        /\ IF d = Unresolved /\ tag[VersionOf(r)] # None THEN Failing ELSE UNCHANGED failures
        /\ resolved' = [resolved EXCEPT ![r] = d]
    /\ UNCHANGED <<artifactVars, disturbed>>

\* os.WriteFile truncates first.
Bom(r) ==
    /\ At(r, WriteBom)
    /\ \E d \in {resolved[r], Torn} :
        /\ bom' = [bom EXCEPT ![VersionOf(r)] = [digest |-> d, by |-> r]]
        /\ IF d = Torn THEN Failing /\ Abort(r) ELSE Succeed(r)
    /\ UNCHANGED <<tag, package, published, sbom, signed, disturbed>>

\* A command fails and leaves no trace: not one that is skipped, inevitably one
\* that has no image to work on.  For Bom it is the reading of the template.
CommandFails(r) ==
    /\ status[r] = "running"
    /\ At(r, DescribeImage) => invocation[r].syft
    /\ At(r, SignImage) => invocation[r].cosign
    /\ IF (At(r, DescribeImage) \/ At(r, SignImage)) /\ tag[VersionOf(r)] = None
       THEN UNCHANGED failures ELSE Failing
    /\ Abort(r)
    /\ UNCHANGED <<artifactVars, disturbed>>

Step(r) ==
    \/ Start(r)
    \/ Image(r)
    \/ \E c \in Charts : Package(r, c) \/ Push(r, c)
    \/ Sbom(r)
    \/ Sign(r)
    \/ Resolve(r)
    \/ Bom(r)
    \/ CommandFails(r)

ReleaseNext == \E r \in Runs : Step(r)

ReleaseSpec == ReleaseInit /\ [][ReleaseNext]_releaseVars

-----------------------------------------------------------------------------
(* Properties.                                                              *)

\* A BOM that can be read.
Written(entry) == entry.digest \notin {None, Torn}

\* The BOM of a bundle pins artifacts that are all there: a bundle that stopped
\* half way, between the two charts or before, has left no BOM of its own
\* (magefile_release.go:184-186, design.md:481-496).
BomIsWhole ==
    \A v \in Versions : Written(bom[v]) /\ invocation[bom[v].by].target = Bundle =>
        /\ tag[v] # None
        /\ \A c \in Charts : published[<<c, Trim[v]>>] # None
        /\ status[bom[v].by] = "ok"

WritesTruth(v, r) ==
    /\ /\ <<r, "image">> \notin disturbed
       /\ invocation[r].digest = Unset
       /\ bom'[v].digest # Unresolved
       => /\ bom'[v].digest = tag[v]
          /\ invocation[r].syft => sbom[v] = bom'[v].digest
          /\ invocation[r].cosign => bom'[v].digest \in signed
    /\ <<r, "charts">> \notin disturbed => \A c \in Charts : published[<<c, Trim[v]>>] = r

BomStep ==
    \A v \in Versions :
        /\ bom'[v] # bom[v]
        /\ Written(bom'[v])
        /\ invocation[bom'[v].by].target = Bundle
        => WritesTruth(v, bom'[v].by)

\* What a bundle writes into its BOM is what it has published, described and
\* signed, although each command resolves the tag anew: unless another run has
\* worked on the same artifact of the version meanwhile, the digest was set by
\* hand, or it could not be had (magefile_release.go:115-162).
BomIsTrue == [][BomStep]_releaseVars
===============================================================================
