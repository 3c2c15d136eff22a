----------------------------- MODULE MCDeployGate ------------------------------
(***************************************************************************)
(* Instances of DeployGate: the rights vary, the rest of the cluster is fit *)
(* to deploy to except for NetworkPolicy, whose absence is red.            *)
(***************************************************************************)
EXTENDS DeployGate

RightsAndPolicy == {CreateCRDs, CreateClusterRoles, CreateDeployments, "networking.k8s.io"}
BesideRights == {SA, Annotation, Namespace}
NewEnough == {<<1, 26>>}
=================================================================================
