------------------------------- MODULE MCRelease -------------------------------
(* A bundle and its repetition, single targets, two spellings of one version,  *)
(* runs without the tools, with a digest set by hand and without a version.    *)
EXTENDS Release

Invoked(target, version, tools, digest) ==
    [target |-> target, version |-> version, syft |-> tools, cosign |-> tools, digest |-> digest]

MCInvocations ==
    {Invoked(target, "v1", TRUE, Unset) : target \in Targets}
    \cup {Invoked(Bundle, "v1", FALSE, Unset), Invoked(Bundle, "1", TRUE, Unset),
          Invoked(Bundle, "v1", TRUE, "d1"), Invoked(Bundle, Unset, TRUE, Unset)}

MCTrim == [v \in {"v1", "1"} |-> "1"]
===============================================================================
