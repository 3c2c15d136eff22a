---------------------------- MODULE MCCloudChecks -----------------------------
(***************************************************************************)
(* An instance of CloudChecks: per cloud an environment that names         *)
(* everything, one that names nothing and some in between; of everything a *)
(* check turns on one instance varies.                                     *)
(***************************************************************************)
EXTENDS CloudChecks

Env(cloud, names, secrets, concerns) ==
    [cloud |-> cloud, names |-> names, secrets |-> secrets, concerns |-> concerns]

SomeEnvironments ==
    {Env("aws", {"key", "network", "path", "principal"}, <<"s1", "s2">>, {}),
     Env("aws", {"key", "network"}, <<>>, {"kms", "other"}),
     Env("aws", {"path"}, <<"s1">>, {"other"}),
     Env("gcp", {"key", "network", "path"}, <<"s1", "s2">>, {}),
     Env("gcp", {"network"}, <<"s1">>, {}),
     Env("gcp", {"key"}, <<>>, {}),
     Env("azure", {"key", "network", "principal"}, <<"s1", "s2">>, {}),
     Env("azure", {"network"}, <<>>, {}),
     Env("", {}, <<>>, {}),
     Env("unknown", {}, <<>>, {})}

VaryingFacts == {Credentials, Grant("kms"), KeyEnabled, Rotation, Sealed("s1", "east"), Sealed("s1", "west"),
                 UserManaged("s1"), Secret("s2"), Usable, Path, Behind("nodes"), Metadata,
                 Scoped, Privileged}

GivenFacts == Facts \ (VaryingFacts \cup {Behind("pods")})
================================================================================
