---------------------------- MODULE Release_proofs -----------------------------
(***************************************************************************)
(* Proofs about module Release: its types, and that the BOM of a bundle is *)
(* whole and true, for any number of runs, versions and failures.          *)
(***************************************************************************)
EXTENDS Release, TLAPS

CommandNumbers ==
    Charts = {1, 2} /\ PushImage = 1 /\ DescribeImage = 6 /\ SignImage = 7
    /\ ResolveDigest = 8 /\ WriteBom = 9

LEMMA Numbers == CommandNumbers
BY DEF CommandNumbers, Charts, PushImage, DescribeImage, SignImage, ResolveDigest, WriteBom

\* The stretches of the targets.
LEMMA Stretches ==
    ASSUME NEW t \in Targets
    PROVE  /\ t.first \in 1..9 /\ t.last \in t.first..9
           /\ t = Bundle <=> t.first = 1 /\ t.last = 9
           /\ \A n \in t.first..t.last : n \in {3, 5} => t.first <= 2
BY DEF Targets, Bundle, ImageOnly, ChartsOnly, SbomOnly, SignOnly, BomOnly, Stretch,
       PushImage, PackageChart, PushChart, DescribeImage, SignImage, ResolveDigest, WriteBom

LEMMA Invoked ==
    ASSUME ReleaseTypeOK, NEW r \in Runs
    PROVE  /\ invocation[r].target \in Targets
           /\ invocation[r].version \in Versions \cup {Unset}
           /\ invocation[r].digest \in Digests \cup {Unset}
BY ReleaseConstants DEF ReleaseTypeOK

\* How a run takes a step.
Moves(r) ==
    /\ UNCHANGED invocation
    /\ status[r] = "running"
    /\ \/ /\ next' = [next EXCEPT ![r] = @ + 1]
          /\ status' = [status EXCEPT ![r] =
                            IF next[r] = invocation[r].target.last THEN "ok" ELSE @]
       \/ /\ next' = next
          /\ status' = [status EXCEPT ![r] = "failed"]

LEMMA MovesKeepsTypes ==
    ASSUME ReleaseTypeOK, NEW r \in Runs, Moves(r)
    PROVE  /\ status' \in [Runs -> {"idle", "running", "ok", "failed"}]
           /\ \A q \in Runs : status'[q] \in {"running", "ok"} => invocation'[q].version \in Versions
           /\ next' \in [Runs -> Nat]
           /\ \A q \in Runs :
                 IF status'[q] = "ok" THEN next'[q] = invocation'[q].target.last + 1
                 ELSE next'[q] \in invocation'[q].target.first..invocation'[q].target.last
<1>1. invocation[r].target.first \in Nat /\ invocation[r].target.last \in Nat
  BY Invoked, Stretches
<1>2. /\ status \in [Runs -> {"idle", "running", "ok", "failed"}] /\ next \in [Runs -> Nat]
      /\ \A q \in Runs : status[q] \in {"running", "ok"} => invocation[q].version \in Versions
      /\ \A q \in Runs :
            IF status[q] = "ok" THEN next[q] = invocation[q].target.last + 1
            ELSE next[q] \in invocation[q].target.first..invocation[q].target.last
  BY DEF ReleaseTypeOK
<1>3. CASE /\ next' = [next EXCEPT ![r] = @ + 1]
           /\ status' = [status EXCEPT ![r] =
                            IF next[r] = invocation[r].target.last THEN "ok" ELSE @]
  BY <1>1, <1>2, <1>3 DEF Moves
<1>4. CASE next' = next /\ status' = [status EXCEPT ![r] = "failed"]
  BY <1>1, <1>2, <1>4 DEF Moves
<1> QED BY <1>3, <1>4 DEF Moves

LEMMA EndMoves ==
    ASSUME NEW r \in Runs, status[r] = "running", End(r)
    PROVE  Moves(r) /\ UNCHANGED resolved
BY DEF End, Succeed, Proceed, Abort, Moves

LEMMA EndCounts ==
    ASSUME ReleaseTypeOK, NEW r \in Runs, End(r)
    PROVE  failures' \in 0..MaxFailures
BY ReleaseConstants DEF ReleaseTypeOK, End, Succeed, Failing

LEMMA DisturbsType ==
    ASSUME ReleaseTypeOK, NEW r \in Runs, NEW what \in {"image", "charts"}, Disturbs(r, what)
    PROVE  disturbed' \subseteq Runs \X {"image", "charts"}
BY DEF ReleaseTypeOK, Disturbs

LEMMA ReleaseInitTypes == ReleaseInit => ReleaseTypeOK
<1> SUFFICES ASSUME ReleaseInit PROVE ReleaseTypeOK
  OBVIOUS
<1>1. ASSUME NEW r \in Runs
      PROVE  /\ status[r] = "idle" /\ invocation[r].target.first \in Nat
             /\ next[r] \in invocation[r].target.first..invocation[r].target.last
  <2>1. invocation[r].target \in Targets
    BY ReleaseConstants DEF ReleaseInit
  <2>2. next[r] = invocation[r].target.first /\ status[r] = "idle"
    BY DEF ReleaseInit
  <2> QED BY <2>1, <2>2, Stretches
<1>2. next \in [Runs -> Nat]
  BY <1>1 DEF ReleaseInit
<1>3. failures \in 0..MaxFailures
  BY ReleaseConstants DEF ReleaseInit
<1>4. \A v \in Versions : bom[v].digest # None => bom[v].by # None
  BY DEF ReleaseInit
<1> QED BY <1>1, <1>2, <1>3, <1>4 DEF ReleaseInit, ReleaseTypeOK

LEMMA ReleaseStepTypes ==
    ReleaseTypeOK /\ [ReleaseNext]_releaseVars => ReleaseTypeOK'
<1> SUFFICES ASSUME ReleaseTypeOK, [ReleaseNext]_releaseVars PROVE ReleaseTypeOK'
  OBVIOUS
<1>u. CASE UNCHANGED releaseVars
  BY <1>u DEF ReleaseTypeOK, releaseVars, ownVars, artifactVars
<1>n. ASSUME NEW r \in Runs, Step(r) PROVE ReleaseTypeOK'
  <2>1. CASE Start(r)
    BY <2>1, Invoked DEF Start, VersionOf, ReleaseTypeOK, artifactVars
  <2>2. CASE Image(r)
    <3>1. Moves(r) /\ UNCHANGED resolved /\ failures' \in 0..MaxFailures
      BY <2>2, EndMoves, EndCounts DEF Image, At
    <3>2. disturbed' \subseteq Runs \X {"image", "charts"}
      BY <2>2, DisturbsType DEF Image
    <3>3. tag' \in [Versions -> Digests \cup {None}]
      BY <2>2 DEF Image, ReleaseTypeOK
    <3> QED BY <2>2, <3>1, <3>2, <3>3, MovesKeepsTypes DEF Image, Moves, ReleaseTypeOK
  <2>3. ASSUME NEW c \in Charts, Package(r, c) PROVE ReleaseTypeOK'
    <3>1. Moves(r) /\ UNCHANGED resolved /\ failures' \in 0..MaxFailures
      BY <2>3, EndMoves, EndCounts DEF Package, At
    <3>2. disturbed' \subseteq Runs \X {"image", "charts"}
      BY <2>3, DisturbsType DEF Package
    <3>3. package' \in [Charts \X Versions -> Runs \cup {None}]
      BY <2>3 DEF Package, ReleaseTypeOK
    <3> QED BY <2>3, <3>1, <3>2, <3>3, MovesKeepsTypes DEF Package, Moves, ReleaseTypeOK
  <2>4. ASSUME NEW c \in Charts, Push(r, c) PROVE ReleaseTypeOK'
    <3>1. Moves(r) /\ UNCHANGED resolved /\ failures' \in 0..MaxFailures
      BY <2>4, EndMoves, EndCounts DEF Push, At
    <3>2. disturbed' \subseteq Runs \X {"image", "charts"}
      BY <2>4, DisturbsType DEF Push
    <3>3. package[<<c, ChartVersion(r)>>] \in Runs \cup {None}
      BY <2>4, ReleaseConstants DEF Push, At, ChartVersion, VersionOf, ReleaseTypeOK
    <3>4. published' \in [Charts \X Versions -> Runs \cup {None}]
      BY <2>4, <3>3 DEF Push, ReleaseTypeOK
    <3> QED BY <2>4, <3>1, <3>2, <3>4, MovesKeepsTypes DEF Push, Moves, ReleaseTypeOK
  <2>5. CASE Sbom(r)
    <3>1. Moves(r) /\ UNCHANGED resolved /\ failures' \in 0..MaxFailures
      BY <2>5, EndMoves, EndCounts DEF Sbom, At, Uses, End
    <3>2. sbom' \in [Versions -> Digests \cup {None}]
      <4>1. VersionOf(r) \in Versions => tag[VersionOf(r)] \in Digests \cup {None}
        BY DEF ReleaseTypeOK
      <4> QED BY <2>5, <4>1 DEF Sbom, ReleaseTypeOK
    <3> QED BY <2>5, <3>1, <3>2, MovesKeepsTypes DEF Sbom, Moves, ReleaseTypeOK
  <2>6. CASE Sign(r)
    <3>1. Moves(r) /\ UNCHANGED resolved /\ failures' \in 0..MaxFailures
      BY <2>6, EndMoves, EndCounts DEF Sign, At, Uses, End
    <3>2. signed' \subseteq Digests
      BY <2>6 DEF Sign, At, Uses, VersionOf, ReleaseTypeOK
    <3> QED BY <2>6, <3>1, <3>2, MovesKeepsTypes DEF Sign, Moves, ReleaseTypeOK
  <2>7. CASE Resolve(r)
    <3>1. Moves(r)
      BY <2>7 DEF Resolve, At, Proceed, Moves
    <3>2. failures' \in 0..MaxFailures
      BY <2>7, ReleaseConstants DEF Resolve, Failing, ReleaseTypeOK
    <3>3. invocation[r].digest \in Digests \cup {Unset} /\ tag[VersionOf(r)] \in Digests \cup {None}
      BY <2>7, Invoked DEF Resolve, At, VersionOf, ReleaseTypeOK
    <3>4. resolved' \in [Runs -> Digests \cup {None, Unresolved}]
      BY <2>7, <3>3 DEF Resolve, ReleaseTypeOK
    <3> QED BY <2>7, <3>1, <3>2, <3>4, MovesKeepsTypes DEF Resolve, Moves, artifactVars, ReleaseTypeOK
  <2>8. CASE Bom(r)
    <3>1. Moves(r) /\ UNCHANGED resolved /\ failures' \in 0..MaxFailures
      BY <2>8, EndMoves, EndCounts DEF Bom, At, End
    <3>2. bom' \in [Versions -> [digest : Digests \cup {None, Torn, Unresolved}, by : Runs \cup {None}]]
      <4>1. PICK d \in {resolved[r], Torn} :
                bom' = [bom EXCEPT ![VersionOf(r)] = [digest |-> d, by |-> r]]
        BY <2>8 DEF Bom
      <4>2. [digest |-> d, by |-> r] \in
                [digest : Digests \cup {None, Torn, Unresolved}, by : Runs \cup {None}]
        BY <4>1 DEF ReleaseTypeOK
      <4> QED BY <4>1, <4>2 DEF ReleaseTypeOK
    <3>3. \A v \in Versions : bom'[v].digest # None => bom'[v].by # None
      BY <2>8, ReleaseConstants DEF Bom, ReleaseTypeOK
    <3> QED BY <2>8, <3>1, <3>2, <3>3, MovesKeepsTypes DEF Bom, Moves, ReleaseTypeOK
  <2>9. CASE CommandFails(r)
    <3>1. Moves(r) /\ UNCHANGED resolved /\ failures' \in 0..MaxFailures
      BY <2>9, ReleaseConstants DEF CommandFails, Abort, Failing, Moves, ReleaseTypeOK
    <3> QED BY <2>9, <3>1, MovesKeepsTypes DEF CommandFails, Moves, artifactVars, ReleaseTypeOK
  <2> QED BY <1>n, <2>1, <2>2, <2>3, <2>4, <2>5, <2>6, <2>7, <2>8, <2>9 DEF Step
<1> QED BY <1>u, <1>n DEF ReleaseNext

\* The runs keep their types whatever fails and whoever works on the same version
\* (magefile_release.go:36-186).
THEOREM ReleaseTypeCorrect == ReleaseSpec => []ReleaseTypeOK
BY ReleaseInitTypes, ReleaseStepTypes, PTL DEF ReleaseSpec

-----------------------------------------------------------------------------
(* What the commands behind a run have left.                                *)

\* A chart is packaged before it is pushed, by a bundle and by the target alone.
Packed(r) ==
    invocation[r].target.first <= 2 =>
        \A c \in Charts : next[r] > 2 * c => package[<<c, ChartVersion(r)>>] # None

\* What a bundle has published is there.
Out(r) ==
    invocation[r].target = Bundle =>
        /\ next[r] > 1 => tag[VersionOf(r)] # None
        /\ \A c \in Charts : next[r] > 2 * c + 1 => published[<<c, ChartVersion(r)>>] # None

\* The image a bundle knows is the one its tag names, while nobody moves it.
OwnImage(r) ==
    invocation[r].target = Bundle /\ <<r, "image">> \notin disturbed =>
        /\ next[r] > 6 /\ invocation[r].syft => sbom[VersionOf(r)] = tag[VersionOf(r)]
        /\ next[r] > 7 /\ invocation[r].cosign => tag[VersionOf(r)] \in signed
        /\ next[r] > 8 /\ invocation[r].digest = Unset =>
              resolved[r] \in {tag[VersionOf(r)], Unresolved}

\* The charts of a bundle are its own, while nobody works on them.
OwnCharts(r) ==
    invocation[r].target = Bundle /\ <<r, "charts">> \notin disturbed =>
        \A c \in Charts :
            /\ next[r] > 2 * c => package[<<c, ChartVersion(r)>>] = r
            /\ next[r] > 2 * c + 1 => published[<<c, ChartVersion(r)>>] = r

Behind(r) == status[r] = "running" => Packed(r) /\ Out(r) /\ OwnImage(r) /\ OwnCharts(r)

RunsKnow == \A r \in Runs : Behind(r)

\* A run starts with the first command of its target.
Fresh == \A r \in Runs : status[r] = "idle" => next[r] = invocation[r].target.first

\* What a step of r does to itself, and to the runs that share what it works on.
LEMMA SelfMoves ==
    ASSUME ReleaseTypeOK, NEW r \in Runs, Moves(r), status'[r] = "running"
    PROVE  /\ next'[r] = next[r] + 1 /\ next[r] \in 1..8
           /\ VersionOf(r) \in Versions /\ ChartVersion(r) \in Versions
           /\ VersionOf(r)' = VersionOf(r) /\ ChartVersion(r)' = ChartVersion(r)
<1>1. /\ invocation[r].target.first \in 1..9
      /\ invocation[r].target.last \in invocation[r].target.first..9
      /\ next[r] \in invocation[r].target.first..invocation[r].target.last
      /\ next \in [Runs -> Nat] /\ status \in [Runs -> {"idle", "running", "ok", "failed"}]
  BY Invoked, Stretches DEF ReleaseTypeOK, Moves
<1>2. next'[r] = next[r] + 1 /\ next[r] # invocation[r].target.last
  BY <1>1 DEF Moves
<1>3. VersionOf(r) \in Versions
  BY DEF ReleaseTypeOK, Moves, VersionOf
<1> QED BY <1>1, <1>2, <1>3, ReleaseConstants DEF ChartVersion, VersionOf, Moves

LEMMA OthersRest ==
    ASSUME ReleaseTypeOK, NEW r \in Runs, Moves(r), NEW q \in Runs \ {r}, status'[q] = "running"
    PROVE  /\ status[q] = "running" /\ next'[q] = next[q] /\ next[q] \in 1..9
           /\ VersionOf(q) \in Versions /\ ChartVersion(q) \in Versions
           /\ VersionOf(q)' = VersionOf(q) /\ ChartVersion(q)' = ChartVersion(q)
<1>1. /\ next \in [Runs -> Nat] /\ status \in [Runs -> {"idle", "running", "ok", "failed"}]
  BY DEF ReleaseTypeOK
<1>2. status[q] = "running" /\ next'[q] = next[q]
  BY <1>1 DEF Moves
<1>3. next[q] \in 1..9
  <2>1. /\ invocation[q].target.first \in 1..9
        /\ invocation[q].target.last \in invocation[q].target.first..9
    BY Invoked, Stretches
  <2>2. next[q] \in invocation[q].target.first..invocation[q].target.last
    BY <1>2 DEF ReleaseTypeOK
  <2> QED BY <2>1, <2>2
<1>4. VersionOf(q) \in Versions
  BY <1>2 DEF ReleaseTypeOK, VersionOf
<1> QED BY <1>2, <1>3, <1>4, ReleaseConstants DEF ChartVersion, VersionOf, Moves

LEMMA ImageKnows ==
    ASSUME ReleaseTypeOK, RunsKnow, NEW r \in Runs, Image(r)
    PROVE  RunsKnow'
<1> SUFFICES ASSUME NEW q \in Runs, status'[q] = "running"
             PROVE  (Packed(q) /\ Out(q) /\ OwnImage(q) /\ OwnCharts(q))'
  BY DEF RunsKnow, Behind
<1>1. Moves(r) /\ UNCHANGED resolved /\ next[r] = 1
  BY EndMoves DEF Image, At, PushImage
<1>2. /\ UNCHANGED <<invocation, package, published, sbom, signed>>
      /\ disturbed \subseteq disturbed'
  BY <1>1 DEF Image, Moves, Disturbs
<1>3. PICK d \in Digests : tag' = [tag EXCEPT ![VersionOf(r)] = d]
  BY DEF Image
<1>4. d # None /\ tag \in [Versions -> Digests \cup {None}]
  BY <1>3, ReleaseConstants DEF ReleaseTypeOK
<1>5. CASE q = r
  <2>1. next'[q] = 2 /\ VersionOf(r)' = VersionOf(r) /\ VersionOf(r) \in Versions
    BY <1>1, <1>5, SelfMoves
  <2>2. \A c \in Charts : ~(next'[q] > 2 * c) /\ ~(next'[q] > 2 * c + 1)
    BY <2>1 DEF Charts
  <2> QED BY <1>3, <1>4, <1>5, <2>1, <2>2 DEF Packed, Out, OwnImage, OwnCharts
<1>6. CASE q # r
  <2>1. /\ status[q] = "running" /\ next'[q] = next[q] /\ VersionOf(q) \in Versions
        /\ VersionOf(q)' = VersionOf(q) /\ ChartVersion(q)' = ChartVersion(q)
    BY <1>1, <1>6, OthersRest
  <2>2. Packed(q) /\ Out(q) /\ OwnImage(q) /\ OwnCharts(q)
    BY <2>1 DEF RunsKnow, Behind
  <2>3. Packed(q)' /\ OwnCharts(q)'
    BY <1>2, <2>1, <2>2 DEF Packed, OwnCharts
  <2>4. Out(q)'
    BY <1>2, <1>3, <1>4, <2>1, <2>2 DEF Out
  <2>5. CASE VersionOf(q) = VersionOf(r)
    <3>1. <<q, "image">> \in disturbed'
      BY <1>6, <2>1, <2>5 DEF Image, Disturbs
    <3> QED BY <2>3, <2>4, <3>1 DEF OwnImage
  <2>6. CASE VersionOf(q) # VersionOf(r)
    <3>1. tag'[VersionOf(q)] = tag[VersionOf(q)]
      BY <1>3, <1>4, <2>1, <2>6
    <3> QED BY <1>1, <1>2, <2>1, <2>2, <2>3, <2>4, <3>1 DEF OwnImage
  <2> QED BY <2>5, <2>6
<1> QED BY <1>5, <1>6

LEMMA PackageKnows ==
    ASSUME ReleaseTypeOK, RunsKnow, NEW r \in Runs, NEW c \in Charts, Package(r, c)
    PROVE  RunsKnow'
<1> SUFFICES ASSUME NEW q \in Runs, status'[q] = "running"
             PROVE  (Packed(q) /\ Out(q) /\ OwnImage(q) /\ OwnCharts(q))'
  BY DEF RunsKnow, Behind
<1> DEFINE key(x, p) == <<x, ChartVersion(p)>>
<1>1. Moves(r) /\ UNCHANGED resolved /\ next[r] = 2 * c /\ c \in 1..2
  BY EndMoves DEF Package, At, PackageChart, Charts
<1>2. /\ UNCHANGED <<invocation, tag, published, sbom, signed>>
      /\ disturbed \subseteq disturbed'
  BY <1>1 DEF Package, Moves, Disturbs
<1>3. /\ package' = [package EXCEPT ![key(c, r)] = r]
      /\ package \in [Charts \X Versions -> Runs \cup {None}]
      /\ r # None
  BY ReleaseConstants DEF Package, ReleaseTypeOK
<1>4. CASE q = r
  <2>1. /\ next'[q] = 2 * c + 1 /\ ChartVersion(q) \in Versions
        /\ ChartVersion(q)' = ChartVersion(q) /\ VersionOf(q)' = VersionOf(q)
    BY <1>1, <1>4, SelfMoves
  <2>2. Packed(q) /\ Out(q) /\ OwnImage(q) /\ OwnCharts(q)
    BY <1>1, <1>4 DEF RunsKnow, Behind, Moves
  <2>3. /\ package'[key(c, q)] = r
        /\ \A x \in Charts : x # c => package'[key(x, q)] = package[key(x, q)]
    BY <1>3, <1>4, <2>1
  <2>4. \A x \in Charts : /\ next'[q] > 2 * x <=> x = c \/ next[q] > 2 * x
                          /\ next'[q] > 2 * x + 1 <=> next[q] > 2 * x + 1
    BY <1>1, <1>4, <2>1 DEF Charts
  <2>5. Packed(q)' /\ OwnCharts(q)'
    BY <1>2, <1>3, <1>4, <2>1, <2>2, <2>3, <2>4 DEF Packed, OwnCharts
  <2>6. Out(q)' /\ OwnImage(q)'
    BY <1>1, <1>2, <1>4, <2>1, <2>2, <2>4 DEF Out, OwnImage
  <2> QED BY <2>5, <2>6
<1>5. CASE q # r
  <2>1. /\ status[q] = "running" /\ next'[q] = next[q] /\ ChartVersion(q) \in Versions
        /\ VersionOf(q)' = VersionOf(q) /\ ChartVersion(q)' = ChartVersion(q)
    BY <1>1, <1>5, OthersRest
  <2>2. Packed(q) /\ Out(q) /\ OwnImage(q) /\ OwnCharts(q)
    BY <2>1 DEF RunsKnow, Behind
  <2>3. Out(q)' /\ OwnImage(q)'
    BY <1>1, <1>2, <2>1, <2>2 DEF Out, OwnImage
  <2>4. Packed(q)'
    BY <1>2, <1>3, <2>1, <2>2 DEF Packed
  <2>5. CASE ChartVersion(q) = ChartVersion(r)
    <3>1. <<q, "charts">> \in disturbed'
      BY <1>5, <2>1, <2>5 DEF Package, Disturbs
    <3> QED BY <2>3, <2>4, <3>1 DEF OwnCharts
  <2>6. CASE ChartVersion(q) # ChartVersion(r)
    <3>1. \A x \in Charts : package'[key(x, q)] = package[key(x, q)]
      BY <1>3, <2>1, <2>6
    <3> QED BY <1>2, <2>1, <2>2, <2>3, <2>4, <3>1 DEF OwnCharts
  <2> QED BY <2>5, <2>6
<1> QED BY <1>4, <1>5

LEMMA PushKnows ==
    ASSUME ReleaseTypeOK, RunsKnow, NEW r \in Runs, NEW c \in Charts, Push(r, c)
    PROVE  RunsKnow'
<1> SUFFICES ASSUME NEW q \in Runs, status'[q] = "running"
             PROVE  (Packed(q) /\ Out(q) /\ OwnImage(q) /\ OwnCharts(q))'
  BY DEF RunsKnow, Behind
<1> DEFINE key(x, p) == <<x, ChartVersion(p)>>
<1>1. Moves(r) /\ UNCHANGED resolved /\ next[r] = 2 * c + 1 /\ c \in 1..2
  BY EndMoves DEF Push, At, PushChart, Charts
<1>2. /\ UNCHANGED <<invocation, tag, package, sbom, signed>>
      /\ disturbed \subseteq disturbed'
  BY <1>1 DEF Push, Moves, Disturbs
<1>3. /\ published' = [published EXCEPT ![key(c, r)] = package[key(c, r)]]
      /\ published \in [Charts \X Versions -> Runs \cup {None}]
  BY DEF Push, ReleaseTypeOK
<1>4. package[key(c, r)] # None
  <2>1. Packed(r)
    BY <1>1 DEF RunsKnow, Behind, Moves
  <2>2. next[r] \in invocation[r].target.first..invocation[r].target.last
    BY <1>1 DEF ReleaseTypeOK, Moves
  <2>3. next[r] \in {3, 5} /\ next[r] > 2 * c
    BY <1>1
  <2>4. invocation[r].target.first <= 2
    BY <2>2, <2>3, Invoked, Stretches
  <2> QED BY <2>1, <2>3, <2>4 DEF Packed
<1>5. CASE q = r
  <2>1. /\ next'[q] = 2 * c + 2 /\ ChartVersion(q) \in Versions
        /\ ChartVersion(q)' = ChartVersion(q) /\ VersionOf(q)' = VersionOf(q)
    BY <1>1, <1>5, SelfMoves
  <2>2. Packed(q) /\ Out(q) /\ OwnImage(q) /\ OwnCharts(q)
    BY <1>1, <1>5 DEF RunsKnow, Behind, Moves
  <2>3. /\ published'[key(c, q)] = package[key(c, q)]
        /\ \A x \in Charts : x # c => published'[key(x, q)] = published[key(x, q)]
    BY <1>3, <1>5, <2>1
  <2>4. \A x \in Charts : /\ next'[q] > 2 * x <=> next[q] > 2 * x
                          /\ next'[q] > 2 * x + 1 <=> x = c \/ next[q] > 2 * x + 1
    BY <1>1, <1>5, <2>1 DEF Charts
  <2>5. next[q] > 2 * c /\ next[q] > 1 /\ ~(next'[q] > 6)
    BY <1>1, <1>5, <2>1
  <2>6. Packed(q)'
    BY <1>2, <2>1, <2>2, <2>4 DEF Packed
  <2>7. Out(q)'
    BY <1>2, <1>4, <1>5, <2>1, <2>2, <2>3, <2>4, <2>5 DEF Out
  <2>8. OwnImage(q)'
    <3>1. ~(next'[q] > 6) /\ ~(next'[q] > 7) /\ ~(next'[q] > 8)
      BY <1>1, <2>1
    <3> QED BY <3>1 DEF OwnImage
  <2>9. OwnCharts(q)'
    BY <1>2, <1>5, <2>1, <2>2, <2>3, <2>4, <2>5 DEF OwnCharts
  <2> QED BY <2>6, <2>7, <2>8, <2>9
<1>6. CASE q # r
  <2>1. /\ status[q] = "running" /\ next'[q] = next[q] /\ ChartVersion(q) \in Versions
        /\ VersionOf(q)' = VersionOf(q) /\ ChartVersion(q)' = ChartVersion(q)
    BY <1>1, <1>6, OthersRest
  <2>2. Packed(q) /\ Out(q) /\ OwnImage(q) /\ OwnCharts(q)
    BY <2>1 DEF RunsKnow, Behind
  <2>3. Packed(q)' /\ OwnImage(q)'
    BY <1>1, <1>2, <2>1, <2>2 DEF Packed, OwnImage
  <2>4. Out(q)'
    BY <1>2, <1>3, <1>4, <2>1, <2>2 DEF Out
  <2>5. CASE ChartVersion(q) = ChartVersion(r)
    <3>1. <<q, "charts">> \in disturbed'
      BY <1>6, <2>1, <2>5 DEF Push, Disturbs
    <3> QED BY <2>3, <2>4, <3>1 DEF OwnCharts
  <2>6. CASE ChartVersion(q) # ChartVersion(r)
    <3>1. \A x \in Charts : published'[key(x, q)] = published[key(x, q)]
      BY <1>3, <2>1, <2>6
    <3> QED BY <1>2, <2>1, <2>2, <2>3, <2>4, <3>1 DEF OwnCharts
  <2> QED BY <2>5, <2>6
<1> QED BY <1>5, <1>6

\* Describing and signing take the image the tag names now, resolving the digest
\* is nobody else's business, and the rest publishes nothing.
LEMMA DescribeKnows ==
    ASSUME ReleaseTypeOK, RunsKnow, NEW r \in Runs, Sbom(r) \/ Sign(r) \/ Resolve(r)
    PROVE  RunsKnow'
<1> SUFFICES ASSUME NEW q \in Runs, status'[q] = "running"
             PROVE  (Packed(q) /\ Out(q) /\ OwnImage(q) /\ OwnCharts(q))'
  BY DEF RunsKnow, Behind
<1>1. Moves(r) /\ next[r] \in 6..8
  <2>1. CASE Sbom(r)
    BY <2>1, EndMoves DEF Sbom, At, Uses, End, DescribeImage
  <2>2. CASE Sign(r)
    BY <2>2, EndMoves DEF Sign, At, Uses, End, SignImage
  <2>3. CASE Resolve(r)
    BY <2>3 DEF Resolve, At, Proceed, Moves, ResolveDigest
  <2> QED BY <2>1, <2>2, <2>3
<1>2. UNCHANGED <<invocation, tag, package, published, disturbed>>
  BY <1>1 DEF Sbom, Sign, Resolve, Moves, artifactVars
<1>3. /\ \A p \in Runs : VersionOf(p) \in Versions =>
             \/ sbom'[VersionOf(p)] = sbom[VersionOf(p)]
             \/ sbom'[VersionOf(p)] = tag[VersionOf(p)]
      /\ signed \subseteq signed'
      /\ \A p \in Runs \ {r} : resolved'[p] = resolved[p]
  <2>1. sbom \in [Versions -> Digests \cup {None}] /\ resolved \in [Runs -> Digests \cup {None, Unresolved}]
    BY DEF ReleaseTypeOK
  <2>2. CASE Sbom(r)
    <3>1. UNCHANGED resolved
      BY <1>1, <2>2, EndMoves DEF Sbom, Uses, End, Moves
    <3> QED BY <2>1, <2>2, <3>1 DEF Sbom
  <2>3. CASE Sign(r)
    <3>1. UNCHANGED resolved
      BY <1>1, <2>3, EndMoves DEF Sign, Uses, End, Moves
    <3> QED BY <2>1, <2>3, <3>1 DEF Sign
  <2>4. CASE Resolve(r)
    BY <2>1, <2>4 DEF Resolve, artifactVars
  <2> QED BY <2>2, <2>3, <2>4
<1>4. CASE q # r
  <2>1. /\ status[q] = "running" /\ next'[q] = next[q] /\ VersionOf(q) \in Versions
        /\ VersionOf(q)' = VersionOf(q) /\ ChartVersion(q)' = ChartVersion(q)
    BY <1>1, <1>4, OthersRest
  <2>2. Packed(q) /\ Out(q) /\ OwnImage(q) /\ OwnCharts(q)
    BY <2>1 DEF RunsKnow, Behind
  <2>3. Packed(q)' /\ Out(q)' /\ OwnCharts(q)'
    BY <1>2, <2>1, <2>2 DEF Packed, Out, OwnCharts
  <2>4. OwnImage(q)'
    BY <1>2, <1>3, <1>4, <2>1, <2>2 DEF OwnImage
  <2> QED BY <2>3, <2>4
<1>5. CASE q = r
  <2>1. /\ next'[q] = next[q] + 1 /\ VersionOf(q) \in Versions
        /\ VersionOf(q)' = VersionOf(q) /\ ChartVersion(q)' = ChartVersion(q)
    BY <1>1, <1>5, SelfMoves
  <2>2. Packed(q) /\ Out(q) /\ OwnImage(q) /\ OwnCharts(q)
    BY <1>1, <1>5 DEF RunsKnow, Behind, Moves
  <2>3. /\ next[q] > 1 /\ next'[q] > 1
        /\ \A c \in Charts : next[q] > 2 * c /\ next[q] > 2 * c + 1
    BY <1>1, <1>5, <2>1 DEF Charts
  <2>4. Packed(q)' /\ Out(q)' /\ OwnCharts(q)'
    BY <1>2, <2>1, <2>2, <2>3 DEF Packed, Out, OwnCharts
  <2>5. next'[q] > 6 /\ invocation[q].syft => next[q] > 6 \/ Sbom(r)
    <3>1. next[q] = 6 => Sbom(r)
      BY <1>5, Numbers DEF CommandNumbers, Sign, Resolve, At
    <3> QED BY <1>1, <1>5, <2>1, <3>1
  <2>6. next'[q] > 7 => next[q] > 7 \/ Sign(r)
    <3>1. next[q] = 7 => Sign(r)
      BY <1>5, Numbers DEF CommandNumbers, Sbom, Resolve, At
    <3> QED BY <1>1, <1>5, <2>1, <3>1
  <2>7. next'[q] > 8 => Resolve(r)
    <3>1. next[q] = 8 => Resolve(r)
      BY <1>5, Numbers DEF CommandNumbers, Sbom, Sign, At
    <3> QED BY <1>1, <1>5, <2>1, <3>1
  <2>8. Sbom(r) /\ invocation[q].syft => sbom'[VersionOf(q)] = tag[VersionOf(q)]
    BY <1>5, <2>1 DEF Sbom, ReleaseTypeOK
  <2>9. Sign(r) /\ invocation[q].cosign => tag[VersionOf(q)] \in signed'
    BY <1>5 DEF Sign
  <2>10. Resolve(r) /\ invocation[q].digest = Unset => resolved'[q] \in {tag[VersionOf(q)], Unresolved}
    BY <1>5 DEF Resolve, ReleaseTypeOK
  <2>11. OwnImage(q)'
    BY <1>2, <1>3, <2>1, <2>2, <2>5, <2>6, <2>7, <2>8, <2>9, <2>10 DEF OwnImage
  <2> QED BY <2>4, <2>11
<1> QED BY <1>4, <1>5

\* A run that is over knows nothing more; one that starts, nothing yet.
LEMMA RestKnows ==
    ASSUME ReleaseTypeOK, Fresh, RunsKnow, NEW r \in Runs, Start(r) \/ Bom(r) \/ CommandFails(r)
    PROVE  RunsKnow'
<1> SUFFICES ASSUME NEW q \in Runs, status'[q] = "running"
             PROVE  (Packed(q) /\ Out(q) /\ OwnImage(q) /\ OwnCharts(q))'
  BY DEF RunsKnow, Behind
<1>1. UNCHANGED <<invocation, resolved, tag, package, published, sbom, signed, disturbed>>
  BY DEF Start, Bom, CommandFails, Abort, Succeed, Proceed, artifactVars
<1>2. next'[q] = next[q] /\ (status[q] = "running" \/ (q = r /\ Start(r)))
  <2>1. /\ status \in [Runs -> {"idle", "running", "ok", "failed"}] /\ next \in [Runs -> Nat]
    BY DEF ReleaseTypeOK
  <2>2. CASE Start(r)
    BY <2>1, <2>2 DEF Start
  <2>3. CASE Bom(r)
    <3>1. Moves(r) /\ next[r] = 9
      BY <2>3, EndMoves DEF Bom, At, End, WriteBom
    <3>2. q # r
      BY <3>1, SelfMoves
    <3> QED BY <3>1, <3>2, OthersRest
  <2>4. CASE CommandFails(r)
    BY <2>1, <2>4 DEF CommandFails, Abort
  <2> QED BY <2>2, <2>3, <2>4
<1>3. CASE status[q] = "running"
  <2>1. Packed(q) /\ Out(q) /\ OwnImage(q) /\ OwnCharts(q)
    BY <1>3 DEF RunsKnow, Behind
  <2> QED BY <1>1, <1>2, <2>1 DEF Packed, Out, OwnImage, OwnCharts, VersionOf, ChartVersion
<1>4. CASE q = r /\ Start(r)
  <2>1. next'[q] = invocation[q].target.first
    BY <1>2, <1>4 DEF Start, Fresh
  <2>2. invocation[q].target.first \in 1..9
        /\ (invocation[q].target = Bundle => invocation[q].target.first = 1)
    BY Invoked, Stretches
  <2>3. invocation[q].target.first <= 2 => \A c \in Charts : ~(next'[q] > 2 * c)
    BY <2>1, <2>2 DEF Charts
  <2>4. invocation[q].target = Bundle =>
            /\ ~(next'[q] > 1) /\ ~(next'[q] > 6) /\ ~(next'[q] > 7) /\ ~(next'[q] > 8)
            /\ \A c \in Charts : ~(next'[q] > 2 * c) /\ ~(next'[q] > 2 * c + 1)
    BY <2>1, <2>2 DEF Charts
  <2> QED BY <1>1, <2>3, <2>4 DEF Packed, Out, OwnImage, OwnCharts
<1> QED BY <1>2, <1>3, <1>4

\* Every step of a run but its start is a move.
LEMMA StepMoves ==
    ASSUME NEW r \in Runs, Step(r)
    PROVE  Start(r) \/ Moves(r)
<1>1. ASSUME status[r] = "running", End(r) PROVE Moves(r)
  BY <1>1, EndMoves
<1>2. CASE Image(r)
  BY <1>1, <1>2 DEF Image, At
<1>3. ASSUME NEW c \in Charts, Package(r, c) \/ Push(r, c) PROVE Moves(r)
  BY <1>1, <1>3 DEF Package, Push, At
<1>4. CASE Sbom(r) \/ Sign(r)
  BY <1>1, <1>4 DEF Sbom, Sign, At, Uses, End
<1>5. CASE Resolve(r)
  BY <1>5 DEF Resolve, At, Proceed, Moves
<1>6. CASE Bom(r)
  BY <1>1, <1>6 DEF Bom, At, End
<1>7. CASE CommandFails(r)
  BY <1>7 DEF CommandFails, Abort, Moves
<1> QED BY <1>2, <1>3, <1>4, <1>5, <1>6, <1>7 DEF Step

LEMMA FreshStep ==
    ReleaseTypeOK /\ Fresh /\ [ReleaseNext]_releaseVars => Fresh'
<1> SUFFICES ASSUME ReleaseTypeOK, Fresh, [ReleaseNext]_releaseVars PROVE Fresh'
  OBVIOUS
<1>0. /\ status \in [Runs -> {"idle", "running", "ok", "failed"}] /\ next \in [Runs -> Nat]
  BY DEF ReleaseTypeOK
<1>1. CASE UNCHANGED releaseVars
  BY <1>1 DEF Fresh, releaseVars, ownVars
<1>2. ASSUME NEW r \in Runs, Start(r) PROVE Fresh'
  BY <1>0, <1>2 DEF Fresh, Start
<1>3. ASSUME NEW r \in Runs, Moves(r) PROVE Fresh'
  BY <1>0, <1>3 DEF Fresh, Moves
<1> QED BY <1>1, <1>2, <1>3, StepMoves DEF ReleaseNext

LEMMA KnowsStep ==
    ReleaseTypeOK /\ Fresh /\ RunsKnow /\ [ReleaseNext]_releaseVars => RunsKnow'
<1> SUFFICES ASSUME ReleaseTypeOK, Fresh, RunsKnow, [ReleaseNext]_releaseVars PROVE RunsKnow'
  OBVIOUS
<1>1. CASE UNCHANGED releaseVars
  BY <1>1 DEF RunsKnow, Behind, Packed, Out, OwnImage, OwnCharts, VersionOf, ChartVersion,
              releaseVars, ownVars, artifactVars
<1>2. ASSUME NEW r \in Runs, Step(r) PROVE RunsKnow'
  BY <1>2, ImageKnows, PackageKnows, PushKnows, DescribeKnows, RestKnows DEF Step
<1> QED BY <1>1, <1>2 DEF ReleaseNext

-----------------------------------------------------------------------------
(* The BOM.                                                                 *)

\* A BOM that has just been written: by a bundle, after all that comes before.
BomWritten(r, v) ==
    /\ status[r] = "running" /\ next[r] = 9
    /\ v = VersionOf(r) /\ bom'[v].by = r /\ bom'[v].digest = resolved[r]
    /\ UNCHANGED <<invocation, tag, published, sbom, signed, disturbed>>
    /\ invocation[r].target = Bundle => status'[r] = "ok"

LEMMA BomWrites ==
    ASSUME ReleaseTypeOK, NEW r \in Runs, Bom(r), NEW v \in Versions, bom'[v] # bom[v],
           Written(bom'[v])
    PROVE  BomWritten(r, v)
<1>1. PICK d \in {resolved[r], Torn} :
          /\ bom' = [bom EXCEPT ![VersionOf(r)] = [digest |-> d, by |-> r]]
          /\ IF d = Torn THEN Failing /\ Abort(r) ELSE Succeed(r)
  BY DEF Bom
<1>2. v = VersionOf(r) /\ bom'[v] = [digest |-> d, by |-> r]
  BY <1>1 DEF ReleaseTypeOK
<1>3. d # Torn
  BY <1>2 DEF Written
<1>4. Succeed(r) /\ d = resolved[r]
  BY <1>1, <1>3
<1>5. status[r] = "running" /\ next[r] = 9
  BY DEF Bom, At, WriteBom
<1>6. invocation[r].target = Bundle => status'[r] = "ok"
  <2>1. invocation[r].target = Bundle => invocation[r].target.last = 9
    BY Invoked, Stretches
  <2> QED BY <1>4, <1>5, <2>1 DEF Succeed, Proceed, ReleaseTypeOK
<1>7. UNCHANGED <<invocation, tag, published, sbom, signed, disturbed>>
  BY <1>4 DEF Bom, Succeed, Proceed
<1> QED BY <1>2, <1>4, <1>5, <1>6, <1>7 DEF BomWritten

\* A push finds the package, of whatever run.
LEMMA PushedIsPackaged ==
    ASSUME ReleaseTypeOK, RunsKnow, NEW r \in Runs, NEW c \in Charts, Push(r, c)
    PROVE  package[<<c, ChartVersion(r)>>] # None
<1>1. status[r] = "running" /\ next[r] = 2 * c + 1 /\ c \in 1..2
  BY DEF Push, At, PushChart, Charts
<1>2. Packed(r)
  BY <1>1 DEF RunsKnow, Behind
<1>3. next[r] \in invocation[r].target.first..invocation[r].target.last
  BY <1>1 DEF ReleaseTypeOK
<1>4. next[r] \in {3, 5} /\ next[r] > 2 * c
  BY <1>1
<1>5. invocation[r].target.first <= 2
  BY <1>3, <1>4, Invoked, Stretches
<1> QED BY <1>2, <1>4, <1>5 DEF Packed

\* Only Bom writes a BOM, at the end of its run.
LEMMA WholeStep ==
    ReleaseTypeOK /\ RunsKnow /\ BomIsWhole /\ [ReleaseNext]_releaseVars => BomIsWhole'
<1> SUFFICES ASSUME ReleaseTypeOK, RunsKnow, BomIsWhole, [ReleaseNext]_releaseVars,
                    NEW v \in Versions, Written(bom'[v]), invocation'[bom'[v].by].target = Bundle
             PROVE  /\ tag'[v] # None
                    /\ \A c \in Charts : published'[<<c, Trim[v]>>] # None
                    /\ status'[bom'[v].by] = "ok"
  BY DEF BomIsWhole, Written
<1>0. /\ status \in [Runs -> {"idle", "running", "ok", "failed"}]
      /\ tag \in [Versions -> Digests \cup {None}]
      /\ published \in [Charts \X Versions -> Runs \cup {None}]
      /\ Trim[v] \in Versions
  BY ReleaseConstants DEF ReleaseTypeOK
<1>1. CASE UNCHANGED releaseVars
  BY <1>1 DEF BomIsWhole, Written, releaseVars, ownVars, artifactVars
<1>2. ASSUME NEW r \in Runs, Step(r), bom'[v] = bom[v]
      PROVE  /\ tag'[v] # None
             /\ \A c \in Charts : published'[<<c, Trim[v]>>] # None
             /\ status'[bom'[v].by] = "ok"
  <2>1. invocation' = invocation
    BY <1>2, StepMoves DEF Start, Moves
  <2>2. /\ tag[v] # None
        /\ \A c \in Charts : published[<<c, Trim[v]>>] # None
        /\ status[bom[v].by] = "ok"
    BY <1>2, <2>1 DEF BomIsWhole, Written
  <2>3. status'[bom[v].by] = "ok"
    <3>1. status[r] # "ok"
      BY <1>2, StepMoves DEF Start, Moves
    <3>2. \E s \in {"idle", "running", "ok", "failed"} : status' = [status EXCEPT ![r] = s]
      BY <1>0, <1>2, StepMoves DEF Start, Moves
    <3> QED BY <1>0, <2>2, <3>1, <3>2
  <2>4. tag'[v] # None
    <3>1. CASE Image(r)
      BY <1>0, <2>2, <3>1, ReleaseConstants DEF Image
    <3>2. CASE ~Image(r)
      BY <1>2, <2>2, <3>2 DEF Step, Start, Package, Push, Sbom, Sign, Resolve, Bom, CommandFails,
                              artifactVars
    <3> QED BY <3>1, <3>2
  <2>5. ASSUME NEW c \in Charts PROVE published'[<<c, Trim[v]>>] # None
    <3>1. ASSUME NEW x \in Charts, Push(r, x) PROVE published'[<<c, Trim[v]>>] # None
      <4>1. package[<<x, ChartVersion(r)>>] # None
        BY <3>1, PushedIsPackaged
      <4> QED BY <1>0, <2>2, <3>1, <4>1 DEF Push
    <3>2. CASE ~\E x \in Charts : Push(r, x)
      BY <1>2, <2>2, <3>2 DEF Step, Start, Image, Package, Sbom, Sign, Resolve, Bom, CommandFails,
                              artifactVars
    <3> QED BY <3>1, <3>2
  <2> QED BY <1>2, <2>3, <2>4, <2>5
<1>3. ASSUME NEW r \in Runs, Bom(r), bom'[v] # bom[v]
      PROVE  /\ tag'[v] # None
             /\ \A c \in Charts : published'[<<c, Trim[v]>>] # None
             /\ status'[bom'[v].by] = "ok"
  <2>1. BomWritten(r, v)
    BY <1>3, BomWrites
  <2>2. invocation[r].target = Bundle
    BY <1>3, <2>1 DEF BomWritten
  <2>3. Out(r) /\ next[r] = 9
    BY <2>1 DEF BomWritten, RunsKnow, Behind
  <2>4. \A c \in Charts : next[r] > 1 /\ next[r] > 2 * c + 1
    BY <2>3 DEF Charts
  <2> QED BY <1>3, <2>1, <2>2, <2>3, <2>4 DEF BomWritten, Out, ChartVersion, Bom
<1>4. ASSUME NEW r \in Runs, Step(r), bom'[v] # bom[v] PROVE Bom(r)
  BY <1>4 DEF Step, Start, Image, Package, Push, Sbom, Sign, Resolve, CommandFails, artifactVars
<1>5. CASE ReleaseNext
  <2>1. PICK r \in Runs : Step(r)
    BY <1>5 DEF ReleaseNext
  <2>2. CASE bom'[v] = bom[v]
    BY <1>2, <2>1, <2>2
  <2>3. CASE bom'[v] # bom[v]
    BY <1>3, <1>4, <2>1, <2>3
  <2> QED BY <2>2, <2>3
<1> QED BY <1>1, <1>5

LEMMA ReleaseInitKnows == ReleaseInit => Fresh /\ RunsKnow /\ BomIsWhole
<1> SUFFICES ASSUME ReleaseInit PROVE Fresh /\ RunsKnow /\ BomIsWhole
  OBVIOUS
<1>1. Fresh /\ RunsKnow
  BY DEF ReleaseInit, Fresh, RunsKnow, Behind
<1>2. BomIsWhole
  BY DEF ReleaseInit, BomIsWhole, Written
<1> QED BY <1>1, <1>2

\* The inductive invariant: what the runs know is what makes the BOM whole.
THEOREM BundleKnows == ReleaseSpec => [](ReleaseTypeOK /\ Fresh /\ RunsKnow /\ BomIsWhole)
BY ReleaseInitTypes, ReleaseInitKnows, ReleaseStepTypes, FreshStep, KnowsStep, WholeStep, PTL
DEF ReleaseSpec

\* A bundle that stopped half way leaves no BOM of its own, and what a BOM pins has
\* been published (magefile_release.go:184-186), for any number of runs, whatever
\* fails and whoever works on the same version.
THEOREM BundleIsWhole == ReleaseSpec => []BomIsWhole
BY BundleKnows, PTL

\* What a bundle alone at work writes into the BOM is what it has made.
LEMMA TrueStep ==
    ReleaseTypeOK /\ RunsKnow /\ [ReleaseNext]_releaseVars => BomStep
<1> SUFFICES ASSUME ReleaseTypeOK, RunsKnow, [ReleaseNext]_releaseVars, NEW v \in Versions,
                    bom'[v] # bom[v], Written(bom'[v]), invocation[bom'[v].by].target = Bundle
             PROVE  WritesTruth(v, bom'[v].by)
  BY DEF BomStep
<1>1. PICK p \in Runs : Step(p)
  BY DEF ReleaseNext, releaseVars, artifactVars
<1>2. Bom(p)
  BY <1>1 DEF Step, Start, Image, Package, Push, Sbom, Sign, Resolve, CommandFails, artifactVars
<1>3. BomWritten(p, v) /\ p = bom'[v].by
  BY <1>2, BomWrites DEF BomWritten
<1>4. OwnImage(p) /\ OwnCharts(p) /\ next[p] = 9 /\ VersionOf(p) = v
  BY <1>3 DEF BomWritten, RunsKnow, Behind
<1>5. \A c \in Charts : next[p] > 2 * c + 1
  BY <1>4 DEF Charts
<1>6. bom'[v].digest = resolved[p]
  BY <1>3 DEF BomWritten
<1> QED BY <1>3, <1>4, <1>5, <1>6 DEF WritesTruth, OwnImage, OwnCharts, ChartVersion

\* The BOM of a bundle names the image it pushed, described and signed and the
\* charts it pushed, although every command resolves the tag anew
\* (magefile_release.go:115-162), as long as no other run works on them.
THEOREM BomTellsTheTruth == ReleaseSpec => BomIsTrue
BY TrueStep, BundleKnows, PTL DEF ReleaseSpec, BomIsTrue
===============================================================================
