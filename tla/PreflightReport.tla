--------------------------- MODULE PreflightReport ----------------------------
(***************************************************************************)
(* The severity algebra of a preflight report                              *)
(* (operator/internal/preflight/report.go): severities, how two of them    *)
(* combine, and what a stage contributes to the verdict.                   *)
(***************************************************************************)
EXTENDS Naturals

\* A check returns one of these; a stage may also be skipped.
Severities == {"green", "amber", "red"}
Statuses   == Severities \cup {"skipped"}

\* The six stages: identity, kms, secrets, network, kubernetes, workload.
StageIDs        == 0..5
StageIdentity   == 0
StageKMS        == 1
StageSecrets    == 2
StageNetwork    == 3
StageKubernetes == 4
StageWorkload   == 5

Rank(s) == CASE s = "red"   -> 3
             [] s = "amber" -> 2
             [] s = "green" -> 1
             [] OTHER       -> 0

BugWorseLatestWins(a, b) == b

\* The more severe of two statuses; skipped is benign.
Worse(a, b) ==
    LET w == IF Rank(a) >= Rank(b) THEN a ELSE b
    IN IF w = "skipped" THEN "green" ELSE w

BugMaskHides(blocking, status) == IF blocking THEN status ELSE "green"

\* What a stage contributes to the verdict: a non-blocking red counts as amber.
Effective(blocking, status) ==
    IF ~blocking /\ status = "red" THEN "amber" ELSE status

\* What the comments promise: red if any is red, else amber if any is amber,
\* else green.  S is the set of severities found.
Worst(S) ==
    IF "red" \in S THEN "red" ELSE IF "amber" \in S THEN "amber" ELSE "green"
===============================================================================
