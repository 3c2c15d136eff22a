---------------------------- MODULE PreflightGate -----------------------------
(***************************************************************************)
(* What a preflight run promises to whoever gates on it                    *)
(* (operator/internal/preflight/report.go and check.go): findings come in, *)
(* in any number and any order, gating or informational; then one verdict  *)
(* is announced, which is a function of the findings alone.                *)
(* PreflightRunner implements this with stages, a short circuit and folds. *)
(***************************************************************************)
EXTENDS PreflightReport

VARIABLES
    gating,      \* severities found that gate the deploy
    informing,   \* severities found that do not
    announced    \* the verdict, "none" before

gateVars == <<gating, informing, announced>>

GateInit == gating = {} /\ informing = {} /\ announced = "none"

\* Red for a gating red; amber for any other gap.
VerdictOf(G, I) ==
    IF "red" \in G THEN "red"
    ELSE IF G \cup I \subseteq {"green"} THEN "green" ELSE "amber"

Find(s) ==
    /\ announced = "none"
    /\ \/ gating' = gating \cup {s} /\ UNCHANGED informing
       \/ informing' = informing \cup {s} /\ UNCHANGED gating
    /\ UNCHANGED announced

Announce ==
    /\ announced = "none"
    /\ announced' = VerdictOf(gating, informing)
    /\ UNCHANGED <<gating, informing>>

\* The run breaks down before it finds anything, and says so in red.
BreakDown ==
    /\ announced = "none"
    /\ gating = {} /\ informing = {}
    /\ gating' = {"red"}
    /\ announced' = "red"
    /\ UNCHANGED informing

GateNext == (\E s \in Severities : Find(s)) \/ Announce \/ BreakDown

GateSpec == GateInit /\ [][GateNext]_gateVars
===============================================================================
