-------------------------- MODULE CloudVerdict_proofs --------------------------
(***************************************************************************)
(* What a verdict says of the cloud.  The verdict only knows severities,   *)
(* so the invariant says of every stage what it means that none of its     *)
(* results is red: of a stage in the report (ReportIsSound), and of the    *)
(* calls that the running check has made so far (RunningIsSound).          *)
(***************************************************************************)
EXTENDS CloudChecks_proofs

\* The pod network or the nodes go by the firewall, as far as a list that did not
\* fail has shown.
Shielded ==
    errors = 0 /\ Credentials \in always => \E t \in Tables : Behind(t) \in ever

\* All the secrets, and those that the running check has come to.
SecretsThere ==
    \A i \in 1..Len(config.secrets) : Wanted("secrets", config.secrets[i]) \subseteq ever

SecretsSoFar ==
    \A i \in 1..Len(config.secrets) :
        i < call => Wanted("secrets", config.secrets[i]) \subseteq ever

\* The rights, the key and the network.
RightsThere ==
    /\ Required \subseteq ever
    /\ config.cloud = "azure" => {Scoped, Privileged} \cap ever # {}

KeyThere ==
    /\ "key" \in config.names => {Key, KeyEnabled} \subseteq ever
    /\ config.cloud # "aws" => "key" \in config.names

NetworkThere ==
    /\ "network" \in config.names => Wanted("egress.vpc", "") \subseteq ever
    /\ config.cloud # "aws" => "network" \in config.names
    /\ {"network", "path"} \subseteq config.names /\ config.cloud = "aws" => Shielded

\* What stage id has found out when none of its results is red.
Sound(id) ==
    /\ id = StageIdentity => RightsThere
    /\ id = StageKMS      => KeyThere
    /\ id = StageSecrets  => SecretsThere
    /\ id = StageNetwork  => NetworkThere

\* The check at call n of stage id is running.
Doing(id, n) == stage = id /\ call = n

\* What the running check has found out so far.
SoundSoFar ==
    /\ \A id \in Provisioned : Doing(id, Done) => Sound(id)
    /\ stage = StageSecrets => SecretsSoFar
    /\ config.cloud = "aws" =>
          /\ \A n \in 2..5 : Doing(StageNetwork, n) => Wanted("egress.vpc", "") \subseteq ever
          /\ \A n \in 4..5 : Doing(StageNetwork, n) => ("path" \in config.names => Shielded)
    /\ config.cloud = "gcp" /\ Doing(StageNetwork, 2) => "network" \in config.names

RunningIsSound ==
    config.cloud # "" /\ ~failed /\ stage < 6 /\ "red" \notin results[stage] => SoundSoFar

ReportIsSound ==
    config.cloud # "" /\ ~failed =>
        \A id \in Provisioned :
            report[id] \in Severities /\ "red" \notin results[id] => Sound(id)

-----------------------------------------------------------------------------
(* What has been found out stays so.                                        *)

LEMMA ShieldedLasts == ASSUME Widens, Shielded PROVE Shielded'
BY DEF Widens, Shielded

LEMMA SecretsLast ==
    ASSUME Widens
    PROVE  /\ SecretsThere => SecretsThere'
           /\ UNCHANGED call /\ SecretsSoFar => SecretsSoFar'
<1>1. ever \subseteq ever' /\ config' = config
  BY DEF Widens
<1>2. \A of : Wanted("secrets", of)' = Wanted("secrets", of)
  BY <1>1, SameWants
<1>3. SecretsThere => SecretsThere'
  BY <1>1, <1>2 DEF SecretsThere
<1>4. UNCHANGED call /\ SecretsSoFar => SecretsSoFar'
  BY <1>1, <1>2 DEF SecretsSoFar
<1> QED BY <1>3, <1>4

LEMMA SoundLasts ==
    ASSUME Widens, NEW id, Sound(id)
    PROVE  Sound(id)'
<1>1. /\ ever \subseteq ever' /\ config' = config /\ (Shielded => Shielded')
      /\ SecretsThere => SecretsThere'
  BY ShieldedLasts, SecretsLast DEF Widens
<1>2. Required' = Required /\ Wanted("egress.vpc", "")' = Wanted("egress.vpc", "")
  BY <1>1, SameWants DEF Required
<1>3. RightsThere => RightsThere'
  BY <1>1, <1>2 DEF RightsThere
<1>4. KeyThere => KeyThere'
  BY <1>1 DEF KeyThere
<1>5. NetworkThere => NetworkThere'
  BY <1>1, <1>2 DEF NetworkThere
<1> QED BY <1>1, <1>3, <1>4, <1>5 DEF Sound

LEMMA SoFarLasts ==
    ASSUME Widens, SoundSoFar, UNCHANGED <<stage, call>>
    PROVE  SoundSoFar'
<1>1. /\ ever \subseteq ever' /\ config' = config /\ (Shielded => Shielded')
      /\ SecretsSoFar => SecretsSoFar'
  BY ShieldedLasts, SecretsLast DEF Widens
<1>2. \A of : Wanted("egress.vpc", of)' = Wanted("egress.vpc", of)
  BY <1>1, SameWants
<1>3. \A id \in Provisioned : Sound(id) => Sound(id)'
  BY SoundLasts
<1>4. \A id, n : Doing(id, n)' = Doing(id, n)
  BY DEF Doing
<1> QED BY <1>1, <1>2, <1>3, <1>4 DEF SoundSoFar

LEMMA StageIsOne == TypeOK /\ Running => stage \in StageIDs /\ stage < 6
BY DEF TypeOK, Running, StageIDs

\* A check that is over has found out what its stage is about.
LEMMA OverIsSound ==
    ASSUME call' = 0, NEW st \in Provisioned, stage' = st, Sound(st)'
    PROVE  SoundSoFar'
<1>1. ASSUME NEW m \in Provisioned, Doing(m, Done)' PROVE Sound(m)'
  <2>1. m = st
    BY <1>1 DEF Doing
  <2> QED BY <2>1
<1>2. SecretsSoFar'
  BY DEF SecretsSoFar
<1>3. \A n \in 2..5 : ~Doing(StageNetwork, n)'
  BY DEF Doing
<1>4. ~Doing(StageNetwork, 2)' /\ 4..5 \subseteq 2..5
  BY <1>3
<1> QED BY <1>1, <1>2, <1>3, <1>4 DEF SoundSoFar

\* A result, after which the check goes on or is over.
LEMMA OnIsSound ==
    ASSUME TypeOK, RunningIsSound, Running, NEW id, NEW s, NEW of, NEW n, NEW kept,
           ReportOn(id, s, of, n, kept),
           s # "red" /\ config.cloud # "" /\ SoundSoFar => SoundSoFar'
    PROVE  RunningIsSound'
<1>1. /\ results' = [results EXCEPT ![stage] = @ \cup {s}]
      /\ UNCHANGED <<failed, stage, config>>
  BY DEF ReportOn, ReportResult
<1>2. stage \in StageIDs /\ stage < 6
  BY StageIsOne
<1>3. results'[stage] = results[stage] \cup {s}
  BY <1>1, <1>2 DEF TypeOK
<1> QED BY <1>1, <1>2, <1>3 DEF RunningIsSound

\* Another call to make.
LEMMA GoesOnSound ==
    ASSUME RunningIsSound, NEW n, NEW kept, Continue(n, kept),
           config.cloud # "" /\ SoundSoFar => SoundSoFar'
    PROVE  RunningIsSound'
BY DEF Continue, vars, RunningIsSound

\* The end of a check.
LEMMA EndIsSound ==
    ASSUME TypeOK, RunningIsSound, Running, Widens, NEW id, NEW s, NEW of, NEW kept,
           ReportOn(id, s, of, Done, kept), NEW st \in Provisioned, stage = st,
           s # "red" /\ config.cloud # "" /\ SoundSoFar => Sound(st)
    PROVE  RunningIsSound'
<1>1. stage' = stage /\ call' = 0 /\ config' = config
  BY DEF ReportOn, ReportResult, Done
<1>2. Sound(st)' => SoundSoFar'
  BY <1>1, OverIsSound
<1>3. Sound(st) => Sound(st)'
  BY SoundLasts
<1>4. s # "red" /\ config.cloud # "" /\ SoundSoFar => SoundSoFar'
  BY <1>2, <1>3
<1> QED BY <1>4, OnIsSound

\* In the first two stages nothing is settled before the end.
LEMMA NothingSettled ==
    ASSUME stage' \in {0, 1}, call' # Done
    PROVE  SoundSoFar'
<1>1. stage' # StageSecrets /\ stage' # StageNetwork
  BY StageFacts
<1>2. \A id \in Provisioned : ~Doing(id, Done)'
  BY DEF Doing
<1>3. \A n : ~Doing(StageNetwork, n)'
  BY <1>1 DEF Doing
<1> QED BY <1>1, <1>2, <1>3 DEF SoundSoFar

\* What makes each stage sound.
LEMMA SoundIs ==
    /\ RightsThere <=> Sound(0)
    /\ KeyThere <=> Sound(1)
    /\ SecretsThere <=> Sound(2)
    /\ NetworkThere <=> Sound(3)
BY DEF Sound, StageIdentity, StageKMS, StageSecrets, StageNetwork

\* The end of a check, after a call or none.
LEMMA ReturnIsSound ==
    ASSUME TypeOK, CloudTypeOK, RunningIsSound, NEW b \in BOOLEAN, Probed(b),
           NEW id, NEW s, NEW of, ReportOn(id, s, of, Done, {}),
           NEW st \in Provisioned, stage = st,
           s # "red" /\ config.cloud # "" /\ SoundSoFar => Sound(st)
    PROVE  RunningIsSound'
<1>1. Running /\ config' = config
  BY DEF ReportOn, ReportResult
<1>2. Widens
  BY <1>1, CallWidens DEF CloudTypeOK
<1> QED BY <1>1, <1>2, EndIsSound

LEMMA RedIsSound ==
    ASSUME TypeOK, CloudTypeOK, RunningIsSound, NEW b \in BOOLEAN, Probed(b),
           NEW id, Return(id, "red"), stage \in Provisioned
    PROVE  RunningIsSound'
<1>1. PICK st \in Provisioned : stage = st
  OBVIOUS
<1> QED BY <1>1, ReturnIsSound DEF Return

-----------------------------------------------------------------------------
(* Every call of every check.                                               *)

LEMMA FakeSound ==
    ASSUME RunningIsSound, FakeCheck
    PROVE  RunningIsSound'
BY DEF FakeCheck, At, Return, ReportOn, RunningIsSound

LEMMA NothingToProvisionSound ==
    ASSUME TypeOK, CloudTypeOK, RunningIsSound, AwsNothingToProvision
    PROVE  RunningIsSound'
<1>1. /\ stage = 0 /\ config.cloud = "aws" /\ Required = {} /\ Probed(FALSE)
      /\ ReportOn("identity", "amber", "", Done, {})
  BY StageFacts DEF AwsNothingToProvision, At, NoCall, Return
<1>2. Sound(0)
  BY <1>1, SoundIs DEF RightsThere
<1> QED BY <1>1, <1>2, StageFacts, ReturnIsSound

LEMMA ResolveCallerSound ==
    ASSUME TypeOK, CloudTypeOK, RunningIsSound, AwsResolveCaller
    PROVE  RunningIsSound'
<1>0. ProbesTypeOK(Facts) /\ stage = 0
  BY StageFacts DEF CloudTypeOK, AwsResolveCaller, At
<1>1. PICK ok \in BOOLEAN :
          /\ Asked(Credentials, ok)
          /\ IF ok THEN Continue(2, {}) ELSE Return("identity", "red")
  BY DEF AwsResolveCaller
<1>2. PICK b \in BOOLEAN : Probed(b)
  BY <1>0, <1>1, FailedCall
<1>3. CASE ok
  <2>1. stage' = 0 /\ call' = 2
    BY <1>0, <1>1, <1>3 DEF Continue, vars
  <2>2. SoundSoFar'
    BY <2>1, NothingSettled DEF Done
  <2> QED BY <1>1, <1>3, <2>2, GoesOnSound
<1>4. CASE ~ok
  BY <1>0, <1>1, <1>2, <1>4, StageFacts, RedIsSound
<1> QED BY <1>3, <1>4

LEMMA RightsSound ==
    ASSUME TypeOK, CloudTypeOK, RunningIsSound, AwsSimulatePolicy \/ GcpTestPermissions
    PROVE  RunningIsSound'
<1>0. ProbesTypeOK(Facts) /\ stage = 0 /\ config.cloud # "azure"
  BY StageFacts DEF CloudTypeOK, AwsSimulatePolicy, GcpTestPermissions, At
<1>1. PICK ok \in BOOLEAN :
          /\ Asked(Credentials, ok)
          /\ Return("identity", IF ok /\ Required \subseteq facts THEN "green" ELSE "red")
  BY DEF AwsSimulatePolicy, GcpTestPermissions, RightsAreHeld
<1>2. PICK b \in BOOLEAN : Probed(b)
  BY <1>0, <1>1, FailedCall
<1>3. facts \subseteq ever
  BY <1>0 DEF ProbesTypeOK
<1>4. CASE ok /\ Required \subseteq facts
  <2>1. Sound(0)
    BY <1>0, <1>3, <1>4, SoundIs DEF RightsThere
  <2> QED BY <1>0, <1>1, <1>2, <1>4, <2>1, StageFacts, ReturnIsSound DEF Return
<1>5. CASE ~(ok /\ Required \subseteq facts)
  BY <1>0, <1>1, <1>2, <1>5, StageFacts, RedIsSound
<1> QED BY <1>4, <1>5

\* Without a role on any page the result is red.
LEMMA ListAssignmentsSound ==
    ASSUME TypeOK, CloudTypeOK, Reasons, RunningIsSound, AzureListAssignments
    PROVE  RunningIsSound'
<1>0. /\ ProbesTypeOK(Facts) /\ config.cloud = "azure" /\ stage = 0 /\ call \in 1..2
      /\ Required = {}
  BY DEF CloudTypeOK, AzureListAssignments, At, StageIdentity, Pages, Required
<1> DEFINE held == seen \cup ({Pages[call]} \cap facts)
<1>1. PICK ok \in BOOLEAN :
          /\ Asked(Credentials, ok)
          /\ CASE ~ok -> Return("identity", "red")
               [] ok /\ call < Len(Pages) -> Continue(call + 1, held)
               [] OTHER -> Return("identity",
                      IF held = {} \/ "principal" \notin config.names THEN "red"
                      ELSE IF Privileged \in held THEN "amber" ELSE "green")
  BY DEF AzureListAssignments
<1>2. PICK b \in BOOLEAN : Probed(b)
  BY <1>0, <1>1, FailedCall
<1>3. facts \subseteq ever
  BY <1>0 DEF ProbesTypeOK
<1>4. CASE ~ok
  <2>1. Return("identity", "red")
    BY <1>1, <1>4
  <2> QED BY <1>0, <1>2, <2>1, StageFacts, RedIsSound
<1>5. CASE ok /\ call = 1
  <2>1. PICK kept : Continue(2, kept)
    BY <1>1, <1>5 DEF Pages
  <2>2. stage' = 0 /\ call' = 2
    BY <1>0, <2>1 DEF Continue, vars
  <2>3. SoundSoFar'
    BY <2>2, NothingSettled DEF Done
  <2> QED BY <2>1, <2>3, GoesOnSound
<1>6. CASE ok /\ call = 2
  <2>1. Pages[call] = Privileged /\ Len(Pages) = 2
    BY <1>6 DEF Pages
  <2>2. seen \subseteq {Scoped} \cap ever
    BY <1>0, <1>6 DEF Reasons, Remembers, StageIdentity
  <2>3. Return("identity", IF held = {} \/ "principal" \notin config.names THEN "red"
                           ELSE IF Privileged \in held THEN "amber" ELSE "green")
    BY <1>1, <1>6, <2>1
  <2>4. CASE held = {} \/ "principal" \notin config.names
    BY <1>0, <1>2, <2>3, <2>4, StageFacts, RedIsSound
  <2>5. CASE held # {} /\ "principal" \in config.names
    <3>1. {Scoped, Privileged} \cap ever # {}
      BY <1>3, <2>1, <2>2, <2>5
    <3>2. Sound(0)
      BY <1>0, <3>1, SoundIs DEF RightsThere
    <3>3. PICK s : Return("identity", s)
      BY <2>3
    <3> QED BY <1>0, <1>2, <3>2, <3>3, StageFacts, ReturnIsSound DEF Return
  <2> QED BY <2>4, <2>5
<1> QED BY <1>0, <1>4, <1>5, <1>6

\* A key that is disabled, and one that is not named where the provider needs
\* one, is red.
LEMMA KeySound ==
    ASSUME TypeOK, CloudTypeOK, Reasons, RunningIsSound,
           AwsNoKey \/ AwsDescribeKey \/ AwsGetRotation \/ GcpGetKey \/ AzureGetKey
    PROVE  RunningIsSound'
<1>0. ProbesTypeOK(Facts) /\ stage = 1 /\ facts \subseteq ever
  BY StageFacts DEF CloudTypeOK, ProbesTypeOK, AwsNoKey, AwsDescribeKey, AwsGetRotation,
                    GcpGetKey, AzureGetKey, At
<1>1. CASE AwsNoKey
  <2>1. /\ "key" \notin config.names /\ config.cloud = "aws" /\ Probed(FALSE)
        /\ ReportOn("kms", "amber", "", Done, {})
    BY <1>1 DEF AwsNoKey, At, NoCall, Return
  <2>2. Sound(1)
    BY <2>1, SoundIs DEF KeyThere
  <2> QED BY <1>0, <2>1, <2>2, StageFacts, ReturnIsSound
<1>2. CASE AwsDescribeKey
  <2>1. PICK ok \in BOOLEAN :
            /\ Asked(Key, ok)
            /\ IF ok /\ KeyEnabled \in facts THEN Continue(2, {}) ELSE Return("kms", "red")
    BY <1>2 DEF AwsDescribeKey
  <2>2. PICK b \in BOOLEAN : Probed(b)
    BY <1>0, <2>1, FailedCall
  <2>3. CASE ok /\ KeyEnabled \in facts
    <3>1. stage' = 1 /\ call' = 2
      BY <1>0, <2>1, <2>3 DEF Continue, vars
    <3>2. SoundSoFar'
      BY <3>1, NothingSettled DEF Done
    <3> QED BY <2>1, <2>3, <3>2, GoesOnSound
  <2>4. CASE ~(ok /\ KeyEnabled \in facts)
    BY <1>0, <2>1, <2>2, <2>4, StageFacts, RedIsSound
  <2> QED BY <2>3, <2>4
<1>3. CASE AwsGetRotation
  <2>1. PICK ok \in BOOLEAN :
            /\ Asked(Key, ok)
            /\ Return("kms", IF ok /\ Rotation \in facts THEN "green" ELSE "amber")
    BY <1>3 DEF AwsGetRotation
  <2>2. PICK b \in BOOLEAN : Probed(b)
    BY <1>0, <2>1, FailedCall
  <2>3. {Key, KeyEnabled} \subseteq ever /\ config.cloud = "aws"
    BY <1>3 DEF AwsGetRotation, At, Reasons, Remembers
  <2>4. Sound(1)
    BY <2>3, SoundIs DEF KeyThere
  <2>5. PICK s : Return("kms", s)
    BY <2>1
  <2> QED BY <1>0, <2>2, <2>4, <2>5, StageFacts, ReturnIsSound DEF Return
<1>4. CASE GcpGetKey \/ AzureGetKey
  <2>1. PICK ok \in BOOLEAN :
            /\ Asked(Key, ok)
            /\ Return("kms", IF ~ok \/ KeyEnabled \notin facts THEN "red"
                             ELSE IF Rotation \in facts THEN "green" ELSE "amber")
    BY <1>4 DEF GcpGetKey, AzureGetKey, KeyInOneCall
  <2>2. PICK b \in BOOLEAN : Probed(b)
    BY <1>0, <2>1, FailedCall
  <2>3. CASE ~ok \/ KeyEnabled \notin facts
    BY <1>0, <2>1, <2>2, <2>3, StageFacts, RedIsSound
  <2>4. CASE ok /\ KeyEnabled \in facts
    <3>1. {Key, KeyEnabled} \subseteq ever /\ "key" \in config.names
      BY <1>0, <2>1, <2>4, Answer
    <3>2. Sound(1)
      BY <3>1, SoundIs DEF KeyThere
    <3>3. PICK s : Return("kms", s)
      BY <2>1
    <3> QED BY <1>0, <2>2, <3>2, <3>3, StageFacts, ReturnIsSound DEF Return
  <2> QED BY <2>3, <2>4
<1> QED BY <1>1, <1>2, <1>3, <1>4

LEMMA NoSecretsSound ==
    ASSUME TypeOK, CloudTypeOK, RunningIsSound, NoSecrets
    PROVE  RunningIsSound'
<1>1. /\ stage = 2 /\ config.secrets = <<>> /\ Probed(FALSE)
      /\ ReportOn("secrets", "amber", "", Done, {})
  BY StageFacts DEF NoSecrets, At, NoCall, Return
<1>2. Sound(2)
  <2>1. Len(<<>>) = 0 /\ 1..0 = {}
    OBVIOUS
  <2> QED BY <1>1, <2>1, SoundIs DEF SecretsThere
<1> QED BY <1>1, <1>2, StageFacts, ReturnIsSound

\* One secret that is missing or not encrypted makes the stage red for good.
LEMMA SecretSound ==
    ASSUME TypeOK, CloudTypeOK, RunningIsSound, DescribeSecret
    PROVE  RunningIsSound'
<1>0. /\ ProbesTypeOK(Facts) /\ stage = 2 /\ config.cloud \in {"aws", "gcp", "azure"}
      /\ call \in 1..Len(config.secrets) /\ Len(config.secrets) \in Nat
  <2>1. /\ ProbesTypeOK(Facts) /\ stage = 2 /\ config.cloud \in {"aws", "gcp", "azure"}
        /\ call \in 1..Len(config.secrets)
    BY DEF CloudTypeOK, DescribeSecret, At, StageSecrets
  <2>2. config.secrets \in Seq(Secrets)
    BY ConfigShape DEF CloudTypeOK
  <2> QED BY <2>1, <2>2, LenProperties
<1> DEFINE of == config.secrets[call]
           n  == IF call = Len(config.secrets) THEN Done ELSE call + 1
<1>1. PICK ok \in BOOLEAN :
          /\ Asked(Secret(of), ok)
          /\ ReportOn("secrets", IF ok /\ Encrypted(of) THEN "green" ELSE "red", of, n, {})
  BY DEF DescribeSecret
<1>2. PICK b \in BOOLEAN : Probed(b)
  BY <1>0, <1>1, FailedCall
<1>3. /\ config' = config /\ stage' = 2 /\ call' = n /\ ever' = ever /\ Running
  BY <1>0, <1>1, <1>2 DEF ReportOn, ReportResult, Probed
<1>4. ok /\ Encrypted(of) => Wanted("secrets", of) \subseteq ever
  BY <1>0, <1>1, SecretIsThere
<1>5. ASSUME ok, Encrypted(of), SoundSoFar
      PROVE  \A i \in 1..Len(config.secrets) :
                 i <= call => Wanted("secrets", config.secrets[i]) \subseteq ever
  <2> TAKE i \in 1..Len(config.secrets)
  <2> HAVE i <= call
  <2>1. CASE i < call
    BY <1>0, <1>5, <2>1, StageFacts DEF SoundSoFar, SecretsSoFar
  <2>2. CASE i = call
    BY <1>4, <1>5, <2>2
  <2>3. i \in Nat /\ call \in Nat
    BY <1>0
  <2> QED BY <2>1, <2>2, <2>3
<1>6. ASSUME ok, Encrypted(of), SoundSoFar PROVE SoundSoFar'
  <2>1. CASE call = Len(config.secrets)
    <3>0. \A i \in 1..Len(config.secrets) : i <= call
      BY <1>0, <2>1
    <3>1. Sound(2)
      BY <1>5, <1>6, <3>0, SoundIs DEF SecretsThere
    <3>2. Widens
      BY <1>0, <1>2, <1>3, CallWidens
    <3>3. Sound(2)'
      BY <3>1, <3>2, SoundLasts
    <3> QED BY <1>3, <2>1, <3>3, StageFacts, OverIsSound DEF Done
  <2>2. CASE call # Len(config.secrets)
    <3>1. call' = call + 1 /\ call' # Done
      BY <1>0, <1>3, <2>2 DEF Done
    <3>2. \A i \in 1..Len(config.secrets) : i < call' => i <= call
      BY <1>0, <3>1
    <3>3. \A x : Wanted("secrets", x)' = Wanted("secrets", x)
      BY <1>3, SameWants
    <3>4. SecretsSoFar'
      BY <1>3, <1>5, <1>6, <3>2, <3>3 DEF SecretsSoFar
    <3>5. \A id : ~Doing(id, Done)'
      BY <3>1 DEF Doing
    <3>6. \A m : ~Doing(StageNetwork, m)'
      BY <1>3, StageFacts DEF Doing
    <3> QED BY <3>4, <3>5, <3>6 DEF SoundSoFar
  <2> QED BY <2>1, <2>2
<1>7. PICK s, o, m : ReportOn("secrets", s, o, m, {}) /\ (s # "red" => ok /\ Encrypted(of))
  BY <1>1
<1> HIDE DEF of, n
<1> QED BY <1>3, <1>6, <1>7, OnIsSound

\* On AWS the check of the network has five calls, the other providers have one
\* or two.
LEMMA NetworkSoFar ==
    ASSUME SoundSoFar, stage = 3, config.cloud = "aws", call \in 2..5
    PROVE  /\ Wanted("egress.vpc", "") \subseteq ever
           /\ call \in 4..5 => ("path" \in config.names => Shielded)
BY StageFacts DEF SoundSoFar, Doing

LEMMA NetworkCalls ==
    /\ \A n \in 2..5 : n # Done
    /\ 2 \in 2..5 /\ 3 \in 2..5 /\ 4 \in 2..5 /\ 5 \in 2..5
    /\ 3 \notin 4..5 /\ 4 \in 4..5 /\ 5 \in 4..5
BY DEF Done

LEMMA NetworkIsNotSecrets ==
    ASSUME stage' = 3, call' # Done
    PROVE  stage' # StageSecrets /\ \A id : ~Doing(id, Done)'
BY StageFacts DEF Doing

LEMMA NetworkGoesOn ==
    ASSUME config' = config, config.cloud = "aws", stage' = 3, call' \in 2..5,
           Wanted("egress.vpc", "") \subseteq ever',
           call' \in 4..5 => ("path" \in config.names => Shielded')
    PROVE  SoundSoFar'
<1>1. Wanted("egress.vpc", "")' = Wanted("egress.vpc", "")
  BY SameWants
<1>2. call' # Done
  BY NetworkCalls
<1>3. stage' # StageSecrets /\ \A id : ~Doing(id, Done)'
  BY <1>2, NetworkIsNotSecrets
<1>4. \A n \in 4..5 : Doing(StageNetwork, n)' => ("path" \in config'.names => Shielded')
  BY DEF Doing
<1> QED BY <1>1, <1>3, <1>4 DEF SoundSoFar

LEMMA NoNetworkSound ==
    ASSUME TypeOK, CloudTypeOK, RunningIsSound, AwsNoNetwork
    PROVE  RunningIsSound'
<1>1. /\ stage = 3 /\ config.cloud = "aws" /\ "network" \notin config.names /\ Probed(FALSE)
      /\ ReportOn("egress.vpc", "amber", "", Done, {})
  BY StageFacts DEF AwsNoNetwork, At, NoCall, Return
<1>2. Sound(3)
  BY <1>1, SoundIs DEF NetworkThere
<1> QED BY <1>1, <1>2, StageFacts, ReturnIsSound

LEMMA DescribeVpcSound ==
    ASSUME TypeOK, CloudTypeOK, RunningIsSound, AwsDescribeVpc
    PROVE  RunningIsSound'
<1>0. ProbesTypeOK(Facts) /\ config.cloud = "aws" /\ stage = 3
  BY DEF CloudTypeOK, AwsDescribeVpc, At, StageNetwork
<1>1. PICK ok \in BOOLEAN :
          /\ Asked(Network, ok)
          /\ IF ok /\ Usable \in facts THEN ReportOn("egress.vpc", "green", "", 2, {})
             ELSE Return("egress.vpc", "red")
  BY DEF AwsDescribeVpc
<1>2. PICK b \in BOOLEAN : Probed(b)
  BY <1>0, <1>1, FailedCall
<1>3. CASE ok /\ Usable \in facts
  <2>1. ReportOn("egress.vpc", "green", "", 2, {})
    BY <1>1, <1>3
  <2>2. /\ config' = config /\ stage' = 3 /\ call' = 2 /\ ever' = ever /\ Running
    BY <1>0, <1>2, <2>1 DEF ReportOn, ReportResult, Probed
  <2>3. {Network, Usable} \subseteq ever
    BY <1>0, <1>1, <1>3, Answer
  <2>4. Wanted("egress.vpc", "") \subseteq ever'
    BY <2>2, <2>3, WantedIs
  <2>5. call' \in 2..5 /\ call' \notin 4..5
    BY <2>2
  <2>6. SoundSoFar'
    BY <1>0, <2>2, <2>4, <2>5, NetworkGoesOn
  <2> QED BY <2>1, <2>2, <2>6, OnIsSound
<1>4. CASE ~(ok /\ Usable \in facts)
  BY <1>0, <1>1, <1>2, <1>4, StageFacts, RedIsSound
<1> QED BY <1>3, <1>4

\* A call of the AWS network check after the first, and before the last.
LEMMA OnIsSoundOnAws ==
    ASSUME TypeOK, CloudTypeOK, RunningIsSound, NEW b \in BOOLEAN, Probed(b),
           NEW id, NEW s, NEW of, NEW n \in 2..5, NEW kept, ReportOn(id, s, of, n, kept),
           config.cloud = "aws", stage = 3, call \in 2..5,
           s # "red" /\ n \in 4..5 /\ call \notin 4..5 =>
               ("path" \in config.names => Shielded')
    PROVE  RunningIsSound'
<1>1. /\ config' = config /\ stage' = 3 /\ call' = n /\ ever' = ever /\ Running
  BY DEF ReportOn, ReportResult, Probed
<1>2. Widens
  BY <1>1, CallWidens DEF CloudTypeOK
<1>3. ASSUME s # "red", SoundSoFar PROVE SoundSoFar'
  <2>1. /\ Wanted("egress.vpc", "") \subseteq ever
        /\ call \in 4..5 => ("path" \in config.names => Shielded)
    BY <1>3, NetworkSoFar
  <2>2. call' \in 4..5 => ("path" \in config.names => Shielded')
    BY <1>1, <1>2, <1>3, <2>1, ShieldedLasts
  <2> QED BY <1>1, <2>1, <2>2, NetworkGoesOn
<1> QED BY <1>1, <1>3, OnIsSound

LEMMA DescribeNatSound ==
    ASSUME TypeOK, CloudTypeOK, RunningIsSound, AwsDescribeNat
    PROVE  RunningIsSound'
<1>0. ProbesTypeOK(Facts) /\ config.cloud = "aws" /\ stage = 3 /\ call = 2
  BY DEF CloudTypeOK, AwsDescribeNat, At, StageNetwork
<1>1. PICK ok \in BOOLEAN :
          /\ Asked(Credentials, ok)
          /\ ReportOn("egress.nat", IF ok /\ Path \in facts THEN "green" ELSE "amber", "", 3, {})
  BY DEF AwsDescribeNat
<1>2. PICK b \in BOOLEAN : Probed(b)
  BY <1>0, <1>1, FailedCall
<1>3. PICK s : ReportOn("egress.nat", s, "", 3, {})
  BY <1>1
<1>4. call \in 2..5 /\ 3 \in 2..5 /\ 3 \notin 4..5
  BY <1>0, NetworkCalls
<1> QED BY <1>0, <1>2, <1>3, <1>4, OnIsSoundOnAws

LEMMA NoFirewallSound ==
    ASSUME TypeOK, CloudTypeOK, RunningIsSound, AwsNoFirewall
    PROVE  RunningIsSound'
<1>1. /\ config.cloud = "aws" /\ stage = 3 /\ call = 3 /\ "path" \notin config.names
      /\ Probed(FALSE) /\ ReportOn("egress.firewall_inpath", "amber", "", 5, {})
  BY DEF AwsNoFirewall, At, StageNetwork, NoCall
<1>2. call \in 2..5 /\ 5 \in 2..5
  BY <1>1, NetworkCalls
<1> QED BY <1>1, <1>2, OnIsSoundOnAws

\* The list of the route tables shows a firewall route, or fails; without one the
\* result is red.
LEMMA DescribeRoutesSound ==
    ASSUME TypeOK, CloudTypeOK, RunningIsSound, AwsDescribeRoutes
    PROVE  RunningIsSound'
<1>0. ProbesTypeOK(Facts) /\ config.cloud = "aws" /\ stage = 3 /\ call = 3
  BY DEF CloudTypeOK, AwsDescribeRoutes, At, StageNetwork
<1>1. PICK ok \in BOOLEAN :
          /\ Asked(Credentials, ok)
          /\ IF ok
             THEN ReportOn("egress.firewall_inpath",
                           IF \E t \in Tables : Behind(t) \in facts THEN "green" ELSE "red",
                           "", 4, {Metadata} \cap facts)
             ELSE ReportOn("egress.firewall_inpath", "amber", "", 5, {})
  BY DEF AwsDescribeRoutes
<1>2. PICK b \in BOOLEAN : Probed(b)
  BY <1>0, <1>1, FailedCall
<1>3. call \in 2..5 /\ 4 \in 2..5 /\ 5 \in 2..5
  BY <1>0, NetworkCalls
<1>4. /\ facts \subseteq ever /\ ever' = ever /\ always' = always
      /\ ~ok => ~(errors' = 0 /\ Credentials \in always)
  BY <1>0, <1>1, <1>2, Answer, DistinctFacts DEF Probed
<1>5. CASE ok /\ \E t \in Tables : Behind(t) \in facts
  <2>1. Shielded'
    BY <1>4, <1>5 DEF Shielded
  <2>2. PICK kept : ReportOn("egress.firewall_inpath", "green", "", 4, kept)
    BY <1>1, <1>5
  <2> QED BY <1>0, <1>2, <1>3, <2>1, <2>2, OnIsSoundOnAws
<1>6. CASE ok /\ ~\E t \in Tables : Behind(t) \in facts
  <2>1. PICK kept : ReportOn("egress.firewall_inpath", "red", "", 4, kept)
    BY <1>1, <1>6
  <2> QED BY <1>0, <1>2, <1>3, <2>1, OnIsSoundOnAws
<1>7. CASE ~ok
  <2>1. Shielded'
    BY <1>4, <1>7 DEF Shielded
  <2>2. ReportOn("egress.firewall_inpath", "amber", "", 5, {})
    BY <1>1, <1>7
  <2> QED BY <1>0, <1>2, <1>3, <2>1, <2>2, OnIsSoundOnAws
<1> QED BY <1>5, <1>6, <1>7

LEMMA MetadataBlockSound ==
    ASSUME TypeOK, CloudTypeOK, RunningIsSound, AwsMetadataBlock
    PROVE  RunningIsSound'
<1>1. config.cloud = "aws" /\ stage = 3 /\ call = 4 /\ Probed(FALSE)
  BY DEF AwsMetadataBlock, At, StageNetwork, NoCall
<1>2. PICK s : ReportOn("egress.metadata_block", s, "", 5, {})
  BY DEF AwsMetadataBlock
<1>3. call \in 4..5 /\ call \in 2..5 /\ 5 \in 2..5
  BY <1>1, NetworkCalls
<1> QED BY <1>1, <1>2, <1>3, OnIsSoundOnAws

LEMMA DeferredSound ==
    ASSUME TypeOK, CloudTypeOK, RunningIsSound, AwsDeferred
    PROVE  RunningIsSound'
<1>1. /\ config.cloud = "aws" /\ stage = 3 /\ call = 5 /\ Probed(FALSE)
      /\ ReportOn("egress.deferred", "amber", "", Done, {})
  BY DEF AwsDeferred, At, StageNetwork, NoCall, Return
<1>2. call \in 4..5 /\ call \in 2..5
  BY <1>1, NetworkCalls
<1>3. SoundSoFar => Sound(3)
  BY <1>1, <1>2, NetworkSoFar, SoundIs DEF NetworkThere
<1> QED BY <1>1, <1>3, StageFacts, ReturnIsSound

LEMMA GetNetworkSound ==
    ASSUME TypeOK, CloudTypeOK, RunningIsSound, GcpGetNetwork
    PROVE  RunningIsSound'
<1>0. ProbesTypeOK(Facts) /\ config.cloud = "gcp" /\ stage = 3
  BY DEF CloudTypeOK, GcpGetNetwork, At, StageNetwork
<1>1. PICK ok \in BOOLEAN :
          /\ Asked(Network, ok)
          /\ CASE ~ok -> Return("egress.vpc", "red")
               [] ok /\ "path" \notin config.names -> Return("egress.nat", "amber")
               [] OTHER -> Continue(2, {})
  BY DEF GcpGetNetwork
<1>2. PICK b \in BOOLEAN : Probed(b)
  BY <1>0, <1>1, FailedCall
<1>3. ok => Network \in ever /\ "network" \in config.names
  BY <1>0, <1>1, Answer
<1>4. CASE ~ok
  <2>1. Return("egress.vpc", "red")
    BY <1>1, <1>4
  <2> QED BY <1>0, <1>2, <2>1, StageFacts, RedIsSound
<1>5. CASE ok /\ "path" \notin config.names
  <2>1. ReportOn("egress.nat", "amber", "", Done, {})
    BY <1>1, <1>5 DEF Return
  <2>2. Sound(3)
    BY <1>0, <1>3, <1>5, WantedIs, SoundIs DEF NetworkThere
  <2> QED BY <1>0, <1>2, <2>1, <2>2, StageFacts, ReturnIsSound
<1>6. CASE ok /\ "path" \in config.names
  <2>1. Continue(2, {})
    BY <1>1, <1>6
  <2>2. config' = config /\ stage' = 3 /\ call' = 2
    BY <1>0, <2>1 DEF Continue, vars
  <2>3. SoundSoFar'
    <3>1. \A id \in Provisioned : ~Doing(id, Done)'
      BY <2>2 DEF Doing, Done
    <3>2. stage' # StageSecrets
      BY <2>2, StageFacts
    <3> QED BY <1>0, <1>3, <1>6, <2>2, <3>1, <3>2 DEF SoundSoFar
  <2> QED BY <2>1, <2>3, GoesOnSound
<1> QED BY <1>4, <1>5, <1>6

LEMMA ListNatsSound ==
    ASSUME TypeOK, CloudTypeOK, Reasons, RunningIsSound, GcpListNats
    PROVE  RunningIsSound'
<1>0. /\ ProbesTypeOK(Facts) /\ config.cloud = "gcp" /\ Network \in ever
      /\ stage = 3 /\ call = 2
  BY DEF CloudTypeOK, GcpListNats, At, Reasons, Remembers, StageNetwork
<1>1. PICK ok \in BOOLEAN :
          /\ Asked(Credentials, ok)
          /\ IF ok /\ Path \in facts THEN Return("egress.vpc", "green")
             ELSE Return("egress.nat", "amber")
  BY DEF GcpListNats
<1>2. PICK b \in BOOLEAN : Probed(b)
  BY <1>0, <1>1, FailedCall
<1>3. PICK id, s : ReportOn(id, s, "", Done, {})
  BY <1>1 DEF Return
<1>4. SoundSoFar => Sound(3)
  <2>1. SoundSoFar => "network" \in config.names
    BY <1>0, StageFacts DEF SoundSoFar, Doing
  <2> QED BY <1>0, <2>1, WantedIs, SoundIs DEF NetworkThere
<1> QED BY <1>0, <1>2, <1>3, <1>4, StageFacts, ReturnIsSound

LEMMA GetVNetSound ==
    ASSUME TypeOK, CloudTypeOK, RunningIsSound, AzureGetVNet
    PROVE  RunningIsSound'
<1>0. ProbesTypeOK(Facts) /\ config.cloud = "azure" /\ stage = 3
  BY DEF CloudTypeOK, AzureGetVNet, At, StageNetwork
<1>1. PICK ok \in BOOLEAN :
          /\ Asked(Network, ok)
          /\ Return("egress.vpc", IF ~ok \/ Usable \notin facts THEN "red"
                                  ELSE IF Path \in facts THEN "green" ELSE "amber")
  BY DEF AzureGetVNet
<1>2. PICK b \in BOOLEAN : Probed(b)
  BY <1>0, <1>1, FailedCall
<1>3. CASE ~ok \/ Usable \notin facts
  BY <1>0, <1>1, <1>2, <1>3, StageFacts, RedIsSound
<1>4. CASE ok /\ Usable \in facts
  <2>1. {Network, Usable} \subseteq ever /\ "network" \in config.names
    BY <1>0, <1>1, <1>4, Answer
  <2>2. Sound(3)
    BY <1>0, <2>1, WantedIs, SoundIs DEF NetworkThere
  <2>3. PICK s : ReportOn("egress.vpc", s, "", Done, {})
    BY <1>1 DEF Return
  <2> QED BY <1>0, <1>2, <2>2, <2>3, StageFacts, ReturnIsSound
<1> QED BY <1>3, <1>4

LEMMA CheckIsSound ==
    ASSUME TypeOK, CloudTypeOK, Reasons, RunningIsSound, CloudCheck
    PROVE  RunningIsSound'
BY FakeSound, NothingToProvisionSound, ResolveCallerSound, RightsSound,
   ListAssignmentsSound, KeySound, NoSecretsSound, SecretSound, NoNetworkSound,
   DescribeVpcSound, DescribeNatSound, NoFirewallSound, DescribeRoutesSound,
   MetadataBlockSound, DeferredSound, GetNetworkSound, ListNatsSound, GetVNetSound
   DEF CloudCheck

-----------------------------------------------------------------------------
(* The run.                                                                 *)

SoundInv == RunningIsSound /\ ReportIsSound

LEMMA ProvisionedAreStages == \A id \in Provisioned : id \in StageIDs
BY StageFacts DEF StageIDs

\* The report of the stages that are over says the same while more is found out.
LEMMA ReportLasts ==
    ASSUME ReportIsSound, Widens, UNCHANGED <<failed, report>>,
           \A id \in StageIDs : results[id] \subseteq results'[id]
    PROVE  ReportIsSound'
<1>1. \A id \in Provisioned : Sound(id) => Sound(id)'
  BY SoundLasts
<1> QED BY <1>1, ProvisionedAreStages DEF ReportIsSound, Widens

\* The same check is at the same call.
LEMMA RunningLasts ==
    ASSUME TypeOK, RunningIsSound, Widens, UNCHANGED <<failed, stage, call>>,
           \A id \in StageIDs : results[id] \subseteq results'[id]
    PROVE  RunningIsSound'
<1>1. stage < 6 => stage \in StageIDs
  BY DEF TypeOK, StageIDs
<1>2. SoundSoFar => SoundSoFar'
  BY SoFarLasts
<1> QED BY <1>1, <1>2 DEF RunningIsSound, Widens

\* A check that has not begun has found out nothing.
LEMMA BeginningIsSound == ASSUME call' = 1 PROVE SoundSoFar'
<1>1. \A id : ~Doing(id, Done)'
  BY DEF Doing, Done
<1>2. \A n \in 2..5 : ~Doing(StageNetwork, n)'
  <2>1. \A n \in 2..5 : n # 1
    OBVIOUS
  <2> QED BY <2>1 DEF Doing
<1>3. 2 \in 2..5 /\ 4..5 \subseteq 2..5
  OBVIOUS
<1>4. SecretsSoFar'
  BY DEF SecretsSoFar
<1> QED BY <1>1, <1>2, <1>3, <1>4 DEF SoundSoFar

LEMMA ResultsGrow ==
    ASSUME TypeOK, NEW s, ReportResult(s)
    PROVE  /\ \A id \in StageIDs : results[id] \subseteq results'[id]
           /\ UNCHANGED <<failed, stage, report>>
BY DEF TypeOK, ReportResult

LEMMA CheckKeepsReport ==
    ASSUME TypeOK, CloudTypeOK, ReportIsSound, CheckStep
    PROVE  ReportIsSound'
<1>1. config' = config /\ UNCHANGED <<failed, report>>
  BY DEF CheckStep, OneResult, AnotherCall, ReportOn, ReportResult, Continue, vars
<1>2. Widens
  <2>1. PICK b \in BOOLEAN : Probed(b)
    BY DEF CheckStep, OneCall
  <2> QED BY <1>1, <2>1, CallWidens DEF CloudTypeOK
<1>3. \A id \in StageIDs : results[id] \subseteq results'[id]
  <2>1. CASE OneResult
    BY <2>1, ResultsGrow DEF OneResult, ReportOn
  <2>2. CASE AnotherCall
    BY <2>2 DEF AnotherCall, Continue, vars
  <2> QED BY <2>1, <2>2 DEF CheckStep
<1> QED BY <1>1, <1>2, <1>3, ReportLasts

\* The check that has returned goes into the report.
LEMMA StageDoneSound ==
    ASSUME TypeOK, SoundInv, StageDone
    PROVE  SoundInv'
<1>1. /\ Widens /\ call' = 1 /\ UNCHANGED <<failed, results>> /\ stage < 6
      /\ stage \in Provisioned => call = Done
      /\ report' = [report EXCEPT ![stage] = status]
  BY DEF StageDone, EndStage, Running, Widens, probeVars
<1>2. RunningIsSound'
  BY <1>1, BeginningIsSound DEF RunningIsSound
<1>3. \A id \in Provisioned : Sound(id) => Sound(id)'
  BY <1>1, SoundLasts
<1>4. \A id \in Provisioned : id # stage => report'[id] = report[id]
  BY <1>1, ProvisionedAreStages DEF TypeOK
<1>5. ASSUME stage \in Provisioned, config.cloud # "", ~failed, "red" \notin results[stage]
      PROVE  Sound(stage)
  <2>1. SoundSoFar /\ Doing(stage, Done)
    BY <1>1, <1>5 DEF SoundInv, RunningIsSound, Doing
  <2> QED BY <1>5, <2>1 DEF SoundSoFar
<1>6. ASSUME config.cloud # "", ~failed, NEW id \in Provisioned,
             report'[id] \in Severities, "red" \notin results[id]
      PROVE  Sound(id)
  <2>1. CASE id = stage
    BY <1>5, <1>6, <2>1
  <2>2. CASE id # stage
    BY <1>4, <1>6, <2>2 DEF SoundInv, ReportIsSound
  <2> QED BY <2>1, <2>2
<1>7. ReportIsSound'
  BY <1>1, <1>3, <1>6 DEF ReportIsSound, Widens
<1> QED BY <1>2, <1>7 DEF SoundInv

LEMMA SkipStageSound ==
    ASSUME TypeOK, SkippedAtStart, SoundInv, SkipStage, UNCHANGED <<probeVars, checkVars>>
    PROVE  SoundInv'
<1>1. /\ Widens /\ call' = 1 /\ UNCHANGED <<failed, results>> /\ stage < 6
      /\ report' = [report EXCEPT ![stage] = "skipped"]
  BY DEF SkipStage, SkippedAtStart, Widens, probeVars, checkVars
<1>2. RunningIsSound'
  BY <1>1, BeginningIsSound DEF RunningIsSound
<1>3. \A id \in Provisioned : Sound(id) => Sound(id)'
  BY <1>1, SoundLasts
<1>4. \A id \in Provisioned : report'[id] \in Severities => report[id] \in Severities
  BY <1>1, ProvisionedAreStages DEF TypeOK, Severities
<1>5. ReportIsSound'
  BY <1>1, <1>3, <1>4 DEF SoundInv, ReportIsSound, Widens
<1> QED BY <1>2, <1>5 DEF SoundInv

LEMMA CloudStepSound ==
    TypeOK /\ CloudTypeOK /\ SkippedAtStart /\ Reasons /\ SoundInv /\ [CloudNext]_cloudVars
        => SoundInv'
<1> SUFFICES ASSUME TypeOK, CloudTypeOK, SkippedAtStart, Reasons, SoundInv,
                    [CloudNext]_cloudVars
             PROVE  SoundInv'
  OBVIOUS
<1>1. CASE CloudCheck
  BY <1>1, EveryCheckSteps, CheckIsSound, CheckKeepsReport DEF SoundInv
<1>2. ASSUME Widens, UNCHANGED <<failed, stage, report, call>>,
             \A id \in StageIDs : results[id] \subseteq results'[id]
      PROVE  SoundInv'
  BY <1>2, RunningLasts, ReportLasts DEF SoundInv
<1>3. CASE ClusterCheck
  BY <1>2, <1>3, ResultsGrow DEF ClusterCheck, Widens, probeVars, checkVars
<1>4. CASE StageDone
  BY <1>4, StageDoneSound
<1>5. CASE SkipStage /\ UNCHANGED <<probeVars, checkVars>>
  BY <1>5, SkipStageSound
<1>6. CASE EmitError
  BY <1>6 DEF EmitError, SoundInv, RunningIsSound, ReportIsSound
<1>7. CASE (StartStages \/ PrintReport) /\ UNCHANGED <<probeVars, checkVars>>
  BY <1>2, <1>7 DEF StartStages, PrintReport, Widens, probeVars, checkVars
<1>8. CASE \E f \in Varying : Change(f)
  <2>1. Widens /\ UNCHANGED <<failed, stage, report, call, results>>
    BY <1>8 DEF Change, Flip, Widens, vars, checkVars
  <2> QED BY <1>2, <2>1
<1>9. CASE UNCHANGED cloudVars
  BY <1>2, <1>9 DEF cloudVars, vars, Widens, probeVars, checkVars
<1> QED BY <1>1, <1>3, <1>4, <1>5, <1>6, <1>7, <1>8, <1>9 DEF CloudNext, Preflight

LEMMA CloudInitSound == CloudInit => SoundInv
<1> SUFFICES ASSUME CloudInit PROVE SoundInv
  OBVIOUS
<1>1. call = 1 /\ stage = 0 /\ \A id \in StageIDs : report[id] = "none"
  BY DEF CloudInit, Init
<1>2. SoundSoFar
  <2>1. \A id : ~Doing(id, Done)
    BY <1>1 DEF Doing, Done
  <2>2. stage # StageSecrets /\ \A n : ~Doing(StageNetwork, n)
    BY <1>1, StageFacts DEF Doing
  <2> QED BY <2>1, <2>2 DEF SoundSoFar
<1>3. ReportIsSound
  BY <1>1, ProvisionedAreStages DEF ReportIsSound, Severities
<1> QED BY <1>2, <1>3 DEF SoundInv, RunningIsSound

-----------------------------------------------------------------------------
(* The verdict.                                                             *)

\* A verdict that is not red, and not masked, leaves no red result: every stage
\* of the cloud is in the report.
LEMMA GoMeansNoRed ==
    ASSUME IInv, pc = "printed", NEW id \in Provisioned,
           verdict = "green" \/ (verdict = "amber" /\ options.mode = "agnostic")
    PROVE  ~failed /\ report[id] \in Severities /\ "red" \notin results[id]
<1>1. ~failed
  BY DEF IInv, AfterError
<1>2. id \in StageIDs /\ id < 6
  BY StageFacts, ProvisionedAreStages
<1>3. stage = 6 /\ ~(\E j \in Before(stage) : BlockingRed(j))
  BY <1>1 DEF IInv, Progress, VerdictSoFar
<1>4. report[id] # "skipped"
  <2>1. id \in Before(stage) /\ \A j \in Before(id) : j \in Before(stage)
    BY <1>2, <1>3 DEF Before, StageIDs
  <2> QED BY <1>1, <1>3, <2>1 DEF IInv, ShortCircuit
<1>5. report[id] \in Severities
  BY <1>1, <1>2, <1>3, <1>4 DEF IInv, Progress
<1>6. "red" \notin results[id]
  BY <1>2, IInvGivesTruth DEF VerdictIsTruth, Blocking
<1> QED BY <1>1, <1>5, <1>6

LEMMA SoundGivesGo == IInv /\ SoundInv => CloudGoIsFounded
<1> SUFFICES ASSUME IInv, SoundInv, pc = "printed", config.cloud # "",
                    verdict = "green" \/ (verdict = "amber" /\ options.mode = "agnostic")
             PROVE  /\ RightsThere /\ KeyThere /\ SecretsThere /\ NetworkThere
  <2>1. Wanted("kms", "") = {Key, KeyEnabled}
    BY WantedIs
  <2> QED BY <2>1 DEF CloudGoIsFounded, RightsThere, KeyThere, SecretsThere, NetworkThere,
                      Shielded
<1>1. \A id \in Provisioned : Sound(id)
  BY GoMeansNoRed DEF SoundInv, ReportIsSound
<1> QED BY <1>1, SoundIs, StageFacts

\* A verdict that lets an agnostic deploy go on, and a green one in either mode,
\* is backed by the cloud, whatever the provider and the environment, however
\* many secrets are configured and however the cloud changes during the run:
\* every right, the configured key, each secret with its encryption and the
\* network were there (cloudstages.go:39-48, aws/secrets.go:25-52,
\* main.go:101-111).
THEOREM CloudVerdictIsFounded == CloudSpec => []CloudGoIsFounded
<1>1. IInv => TypeOK
  BY DEF IInv
<1> QED BY <1>1, CloudInitTypes, CloudStepTypes, CloudInitReasons, CloudStepReasons,
           CloudInitSound, CloudStepSound, SoundGivesGo, CloudKeepsIInv, PTL DEF CloudSpec
===============================================================================
