-------------------------- MODULE MCWorkloadOperator --------------------------
(* Small instances of WorkloadOperator: three specs and two children. *)
EXTENDS WorkloadOperator, TLC

CONSTANTS m1, m2

\* Specs: "a" and "b" differ in the Deployment and the Service; "a" has no
\* ingress; "b" asks for Canary; "bad" passes the CRD and fails the chart's schema.
MCRender ==
    [s \in Specs |-> [k \in Kinds |-> IF k = "Ingress" /\ s = "a" THEN Nothing ELSE s]]

MCContents == Specs \cup {Edited}

\* The API server starts a Deployment at one replica and picks the Service's
\* address.
MCAssigned == [k \in Kinds |-> IF k = "Service" THEN {1, 2} ELSE {1}]
===============================================================================
