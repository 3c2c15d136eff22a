---------------------------- MODULE MCClusterChecks ----------------------------
(***************************************************************************)
(* An instance of ClusterChecks: everything a red verdict turns on varies, *)
(* and Argo Rollouts and an ingress class with it.                         *)
(***************************************************************************)
EXTENDS ClusterChecks

VaryingFacts == {"networking.k8s.io", CreateDeployments, SA, CreateSAs, Namespace,
                 CreateNamespaces, Rollouts, RolloutVersion, "IngressClass"}
GivenFacts == {}

\* Both sides of the floor, a minor below it under a newer major, and one above it
\* under an older major.
AroundTheFloor == {<<1, 25>>, <<1, 26>>, <<2, 0>>, <<0, 30>>}
=================================================================================
