------------------------ MODULE WorkloadOperator_proofs ------------------------
(***************************************************************************)
(* Proofs about WorkloadOperator, for every value of its constants:        *)
(* type correctness; what a reconcile step may do to a child that others   *)
(* also write; for one manager, that Ready=True at the current generation  *)
(* is never claimed in vain; and, for a Workload that is not re-created,   *)
(* that it is never claimed of a Canary without saying what it became;     *)
(* and that the operator implements AtomicApply.                           *)
(***************************************************************************)
EXTENDS WorkloadOperator, TLAPS

-----------------------------------------------------------------------------
(* Inductive invariants.                                                    *)

\* A cached copy that carries the live resourceVersion is the live object.
Coherent ==
    \A m \in Managers, k \in Kinds :
        k \notin stale[m] => cachedChild[m][k] = child[k]

\* What the manager works from descends from the live Workload: never newer,
\* and of one generation there is one spec.
Descends(w) ==
    w # NoObject => /\ w.gen <= workload.gen
                    /\ w.gen = workload.gen => w.spec = workload.spec

Lineage ==
    workload # NoObject => \A m \in Managers :
        /\ Descends(cachedWorkload[m])
        /\ Descends(base[m])
        /\ base[m] # NoObject => /\ cachedWorkload[m] # NoObject
                                 /\ base[m].gen <= cachedWorkload[m].gen

\* The generation a status field speaks of has been read by the manager.
Known(g) ==
    /\ g <= workload.gen
    /\ \A m \in Managers :
          /\ g # 0 => cachedWorkload[m] # NoObject /\ g <= cachedWorkload[m].gen
          /\ base[m] # NoObject => g <= base[m].gen

StatusKnown ==
    workload # NoObject => Known(workload.status.ready.gen) /\ Known(workload.status.observed)

\* In the middle of a reconcile of the current generation, the children already
\* applied are as its spec renders them.
Progress ==
    \A m \in Managers :
        /\ pc[m] = "Reconciled" => todo[m] = {}
        /\ /\ pc[m] \in {"apply", "Reconciled"}
           /\ workload # NoObject
           /\ base[m].gen = workload.gen
           => \A k \in Rewritten \cap Rendered(workload.spec) :
                 k \notin todo[m] => Applied(k)

\* Nothing is known of a Workload before the first one is created.
Blank ==
    lastUid = 0 => /\ workload = NoObject
                   /\ \A m \in Managers : cachedWorkload[m] = NoObject /\ base[m] = NoObject

Inv == TypeOK /\ Blank /\ Lineage /\ StatusKnown /\ Progress /\ ReadyMeansApplied

-----------------------------------------------------------------------------
(* Type correctness.                                                        *)

\* The patched status is a status: each field is taken from one of two.
LEMMA MergePatchType ==
    ASSUME NEW onto \in Status, NEW old \in Status, NEW new \in Status,
           NEW newMessage \in BOOLEAN
    PROVE  MergePatch(onto, old, new, newMessage) \in Status
BY DEF MergePatch, Status

\* The status computed in memory is a status.
LEMMA NewStatusType ==
    ASSUME TypeOK, NEW m \in Managers, pc[m] \in Outcomes
    PROVE  NewStatus(m) \in Status
<1> DEFINE w == base[m]
<1>1. /\ w \in Workload
      /\ w.status \in Status /\ w.gen \in Gens
    BY DEF TypeOK, Workload, Outcomes
<1>2. [reason |-> pc[m], gen |-> w.gen] \in ReadyCondition
    BY <1>1 DEF ReadyCondition, Outcomes
<1>3. FailedStatus(m) \in Status
    BY <1>1, <1>2 DEF FailedStatus, Generation, Status
<1>4. ReconciledStatus(m) \in Status
    <2>1. cachedChild[m][Deployment] \in Child \cup {NoObject}
        BY ConstantsAssumption DEF TypeOK
    <2>2. [reason |-> "Reconciled", gen |-> w.gen] \in ReadyCondition
        BY <1>1 DEF ReadyCondition, Outcomes
    <2>3. [status |-> RolloutDegraded(w.spec), gen |-> w.gen] \in DegradedCondition
        BY <1>1 DEF DegradedCondition, RolloutDegraded
    <2> QED BY <1>1, <2>1, <2>2, <2>3
            DEF ReconciledStatus, Generation, Status, Child
<1> QED BY <1>3, <1>4 DEF NewStatus

\* What a reconcile writes to a child is a child.
LEMMA WrittenChildType ==
    ASSUME TypeOK, NEW m \in Managers, NEW k \in todo[m], pc[m] = "apply"
    PROVE  /\ cachedChild[m][k] # NoObject => Mutated(m, k) \in Child
           /\ \A h \in Assigned[k] :
                [owner |-> base[m].uid, content |-> Render[base[m].spec][k],
                 held |-> h, ready |-> 0] \in Child
<1>1. /\ k \in Kinds
      /\ base[m] \in Workload
      /\ cachedChild[m][k] \in Child \cup {NoObject}
      /\ MaxUid \in Nat
    BY ConstantsAssumption DEF TypeOK
<1>4. Render[base[m].spec][k] \in Contents
    <2>1. base[m].spec \in Specs /\ Render[base[m].spec][k] # Nothing
        BY <1>1 DEF TypeOK, Workload, Rendered
    <2> QED BY <1>1, <2>1, ConstantsAssumption
<1>2. base[m].uid \in Owners
    BY <1>1 DEF Workload, Uids, Owners
<1>3. Assigned[k] \subseteq Held /\ 0 \in Counts
    BY <1>1, ConstantsAssumption
<1> QED BY <1>1, <1>2, <1>3, <1>4 DEF Mutated, Child

\* Writing a child of the right type keeps the children and the caches typed.
LEMMA SetChildType ==
    ASSUME TypeOK, NEW k \in Kinds, NEW c \in Child \cup {NoObject}, SetChild(k, c)
    PROVE  /\ child' \in [Kinds -> Child \cup {NoObject}]
           /\ stale' \in [Managers -> SUBSET Objects]
BY DEF TypeOK, SetChild, Bump, Objects

\* The effect of CreateOrUpdate on a child, whatever it returns.
LEMMA WriteType ==
    ASSUME TypeOK, NEW m \in Managers, NEW k \in todo[m], pc[m] = "apply",
           CreateChild(m, k) \/ UpdateChild(m, k) \/ UNCHANGED <<child, stale>>
    PROVE  /\ child' \in [Kinds -> Child \cup {NoObject}]
           /\ stale' \in [Managers -> SUBSET Objects]
<1>1. k \in Kinds
    BY DEF TypeOK
<1>2. CASE CreateChild(m, k)
    BY <1>1, <1>2, WrittenChildType, SetChildType DEF CreateChild
<1>3. CASE UpdateChild(m, k)
    BY <1>1, <1>3, WrittenChildType, SetChildType DEF UpdateChild
<1>4. CASE UNCHANGED <<child, stale>>
    BY <1>4 DEF TypeOK
<1> QED BY <1>2, <1>3, <1>4

\* Initially every variable has its type.
LEMMA InitType == Init => TypeOK
<1> SUFFICES ASSUME Init PROVE TypeOK
    OBVIOUS
<1>1. MaxUid \in Nat
    BY ConstantsAssumption
<1>2. /\ child \in [Kinds -> Child \cup {NoObject}]
      /\ cachedChild \in [Managers -> [Kinds -> Child \cup {NoObject}]]
    BY DEF Init
<1>3. /\ pc \in [Managers -> {"idle", "apply"} \cup Outcomes]
      /\ \A m \in Managers : pc[m] = "idle"
    BY DEF Init
<1>4. /\ workload \in Workload \cup {NoObject}
      /\ lastUid \in 0..MaxUid
      /\ cachedWorkload \in [Managers -> Workload \cup {NoObject}]
      /\ base \in [Managers -> Workload \cup {NoObject}]
    BY <1>1 DEF Init
<1>5. /\ stale \in [Managers -> SUBSET Objects]
      /\ todo \in [Managers -> SUBSET Kinds]
      /\ queued \subseteq Managers /\ delayed \subseteq Managers
      /\ calm \in BOOLEAN
    BY DEF Init
<1>6. \A m \in Managers : pc[m] # "apply"
    BY <1>3
<1> QED BY <1>2, <1>3, <1>4, <1>5, <1>6 DEF TypeOK

\* Users and the cluster touch the API server only.
LEMMA EnvironmentType ==
    ASSUME TypeOK, User \/ Cluster \/ Settle
    PROVE  TypeOK'
<1> USE ConstantsAssumption
<1>1. EmptyStatus \in Status
    BY DEF EmptyStatus, Status, ReadyCondition, DegradedCondition, Gens
<1>2. ASSUME NEW s \in Specs, CreateWorkload(s) PROVE TypeOK'
    <2>1. workload' \in Workload
        BY <1>1, <1>2 DEF CreateWorkload, Workload, TypeOK, Uids, Gens
    <2>2. lastUid' \in 0..MaxUid
        BY <1>2 DEF CreateWorkload, TypeOK
    <2> QED BY <1>2, <2>1, <2>2
            DEF CreateWorkload, TypeOK, Bump, Objects, cache, queue, local
<1>3. ASSUME NEW s \in Specs, EditSpec(s) PROVE TypeOK'
    <2>1. workload' \in Workload
        <3>1. workload \in Workload /\ workload.gen + 1 \in Gens \ {0}
            BY <1>3 DEF EditSpec, Workload, TypeOK, Gens
        <3> QED BY <1>3, <3>1 DEF EditSpec, Workload
    <2> QED BY <1>3, <2>1
            DEF EditSpec, TypeOK, Bump, Objects, cache, queue, local
<1>4. ASSUME DeleteWorkload PROVE TypeOK'
    BY <1>4 DEF DeleteWorkload, TypeOK, Bump, Objects, cache, queue, local
<1>5. ASSUME NEW k \in Kinds, CollectGarbage(k) PROVE TypeOK'
    BY <1>5, SetChildType DEF CollectGarbage, TypeOK, cache, queue, local
<1>6. ASSUME NEW k \in Kinds, Drift(k) PROVE TypeOK'
    <2>1. \E c \in Child \cup {NoObject} : SetChild(k, c)
        <3>1. ASSUME child[k] # NoObject
              PROVE  [child[k] EXCEPT !.content = Edited] \in Child
            <4>1. child[k] \in Child /\ Edited \in Contents
                BY <3>1 DEF TypeOK
            <4> QED BY <4>1 DEF Child
        <3>2. ASSUME NEW o \in {NoOwner, Foreign}, NEW h \in Assigned[k]
              PROVE  [owner |-> o, content |-> Edited, held |-> h, ready |-> 0] \in Child
            BY DEF Child, Owners, NoOwner, Foreign
        <3> QED BY <1>6, <3>1, <3>2 DEF Drift
    <2> QED BY <1>6, <2>1, SetChildType DEF Drift, TypeOK, cache, queue, local
<1>7. ASSUME NEW n \in Held, Scale(n) PROVE TypeOK'
    <2>1. [child[Deployment] EXCEPT !.held = n] \in Child
        BY <1>7 DEF Scale, TypeOK, Child
    <2> QED BY <1>7, <2>1, SetChildType DEF Scale, TypeOK, cache, queue, local
<1>8. ASSUME NEW n \in Counts, ReportReady(n) PROVE TypeOK'
    <2>1. [child[Deployment] EXCEPT !.ready = n] \in Child
        BY <1>8 DEF ReportReady, TypeOK, Child
    <2> QED BY <1>8, <2>1, SetChildType DEF ReportReady, TypeOK, cache, queue, local
<1>9. ASSUME Settle PROVE TypeOK'
    BY <1>9 DEF Settle, TypeOK, live, cache, queue, local
<1> QED BY <1>2, <1>3, <1>4, <1>5, <1>6, <1>7, <1>8, <1>9 DEF User, Cluster

\* So does every step of an operator process.
LEMMA OperatorType ==
    ASSUME TypeOK, NEW m \in Managers, Operator(m)
    PROVE  TypeOK'
<1> USE ConstantsAssumption
<1>1. ASSUME NEW o \in Objects, Observe(m, o) PROVE TypeOK'
    <2>1. CASE o = "Workload"
        BY <1>1, <2>1 DEF Observe, TypeOK, live, local
    <2>2. CASE o # "Workload"
        <3>1. o \in Kinds
            BY <2>2 DEF Objects
        <3>2. cachedChild' \in [Managers -> [Kinds -> Child \cup {NoObject}]]
            <4>1. /\ child[o] \in Child \cup {NoObject}
                  /\ cachedChild' = [cachedChild EXCEPT ![m][o] = child[o]]
                BY <1>1, <2>2, <3>1 DEF Observe, TypeOK
            <4> QED BY <4>1, <3>1 DEF TypeOK
        <3> QED BY <1>1, <2>2, <3>1, <3>2 DEF Observe, TypeOK, live, local
    <2> QED BY <2>1, <2>2
<1>2. ASSUME RequeueDue(m) PROVE TypeOK'
    BY <1>2 DEF RequeueDue, TypeOK, live, cache, local
<1>3. ASSUME Restart(m) PROVE TypeOK'
    BY <1>3 DEF Restart, TypeOK, live
<1>4. ASSUME Begin(m) PROVE TypeOK'
    <2>1. CASE cachedWorkload[m] = NoObject
        BY <1>4, <2>1 DEF Begin, TypeOK, live, cache, local
    <2>2. CASE cachedWorkload[m] # NoObject
        <3>1. Rendered(cachedWorkload[m].spec) \subseteq Kinds
            BY DEF Rendered
        <3>2. CASE cachedWorkload[m].spec \in Unrenderable
            BY <1>4, <2>2, <3>2 DEF Begin, TypeOK, live, cache, Outcomes
        <3>3. CASE cachedWorkload[m].spec \notin Unrenderable
            <4>1. /\ base' = [base EXCEPT ![m] = cachedWorkload[m]]
                  /\ pc' = [pc EXCEPT ![m] = "apply"]
                  /\ todo' = [todo EXCEPT ![m] = Rendered(cachedWorkload[m].spec)]
                  /\ queued' = queued \ {m}
                  /\ UNCHANGED <<live, cache, stale, delayed, calm>>
                BY <1>4, <2>2, <3>3 DEF Begin
            <4> QED BY <2>2, <3>1, <4>1 DEF TypeOK, live, cache
        <3> QED BY <3>2, <3>3
    <2> QED BY <2>1, <2>2
<1>5. ASSUME NEW k \in Kinds, ApplyChild(m, k) PROVE TypeOK'
    <2>1. /\ child' \in [Kinds -> Child \cup {NoObject}]
          /\ stale' \in [Managers -> SUBSET Objects]
        BY <1>5, WriteType DEF ApplyChild, LeaveChild
    <2> QED BY <1>5, <2>1 DEF ApplyChild, TypeOK, cache, queue, Outcomes
<1>6. ASSUME NEW k \in Kinds, FailChild(m, k) PROVE TypeOK'
    <2>1. /\ child' \in [Kinds -> Child \cup {NoObject}]
          /\ stale' \in [Managers -> SUBSET Objects]
        BY <1>6, WriteType DEF FailChild
    <2> QED BY <1>6, <2>1 DEF FailChild, TypeOK, cache, queue, Outcomes
<1>7. ASSUME PatchStatus(m) PROVE TypeOK'
    <2>1. /\ workload' \in Workload \cup {NoObject}
          /\ stale' \in [Managers -> SUBSET Objects]
        <3>1. CASE UNCHANGED <<workload, stale>>
            BY <3>1 DEF TypeOK
        <3>2. CASE workload # NoObject /\ SendPatch(m)
            <4>1. PICK newMessage \in {FALSE, pc[m] # "Reconciled"} :
                    LET status == MergePatch(workload.status, base[m].status,
                                             NewStatus(m), newMessage)
                    IN /\ workload' = [workload EXCEPT !.status = status]
                       /\ IF status = workload.status /\ ~newMessage
                          THEN UNCHANGED stale ELSE Bump("Workload")
                BY <3>2 DEF SendPatch
            <4>2. MergePatch(workload.status, base[m].status, NewStatus(m), newMessage)
                    \in Status
                <5>1. workload.status \in Status /\ base[m].status \in Status
                    BY <1>7, <3>2 DEF PatchStatus, TypeOK, Workload, Outcomes
                <5>2. NewStatus(m) \in Status
                    BY <1>7, NewStatusType DEF PatchStatus
                <5>3. newMessage \in BOOLEAN
                    BY <4>1
                <5> QED BY <5>1, <5>2, <5>3, MergePatchType
            <4>3. workload' \in Workload
                BY <3>2, <4>1, <4>2 DEF TypeOK, Workload
            <4>4. stale' \in [Managers -> SUBSET Objects]
                BY <4>1 DEF TypeOK, Bump, Objects
            <4> QED BY <4>3, <4>4
        <3> QED BY <1>7, <3>1, <3>2 DEF PatchStatus
    <2> QED BY <1>7, <2>1 DEF PatchStatus, TypeOK, cache
<1> QED BY <1>1, <1>2, <1>3, <1>4, <1>5, <1>6, <1>7 DEF Operator, Apply

\* Type correctness: in every reachable state each variable has its type, a
\* running reconcile has the Workload it works from, and it applies only
\* children the chart rendered from it (workload_controller.go:39-67).
THEOREM TypeCorrect == Spec => []TypeOK
<1>1. TypeOK /\ [Next]_vars => TypeOK'
    <2>1. TypeOK /\ UNCHANGED vars => TypeOK'
        BY DEF TypeOK, vars, live, cache, queue, local
    <2> QED BY <2>1, EnvironmentType, OperatorType DEF Next
<1> QED BY InitType, <1>1, PTL DEF Spec

-----------------------------------------------------------------------------
(* Children with several writers.                                           *)

\* Writing a child makes every cached copy of it stale, or changes nothing.
LEMMA SetChildCoherent ==
    ASSUME TypeOK, Coherent, NEW k \in Kinds, NEW c, SetChild(k, c),
           UNCHANGED cachedChild
    PROVE  Coherent'
<1>1. CASE c = child[k]
    BY <1>1 DEF SetChild, Coherent, TypeOK
<1>2. CASE c # child[k]
    <2> SUFFICES ASSUME NEW m \in Managers, NEW j \in Kinds, j \notin stale'[m]
                 PROVE  cachedChild'[m][j] = child'[j]
        BY DEF Coherent
    <2>1. j # k /\ j \notin stale[m]
        BY <1>2 DEF SetChild, Bump
    <2> QED BY <2>1 DEF SetChild, Coherent, TypeOK
<1> QED BY <1>1, <1>2

\* Steps that leave children and their caches alone, and forget no staleness.
LEMMA OthersCoherent ==
    ASSUME TypeOK, Coherent, UNCHANGED <<child, cachedChild>>,
           UNCHANGED stale \/ Bump("Workload")
    PROVE  Coherent'
BY DEF Coherent, Bump, TypeOK

\* The resourceVersion identifies the content: every step keeps copies that
\* carry the live version equal to the live object.
LEMMA CoherentStep == TypeOK /\ Coherent /\ [Next]_vars => Coherent'
<1> SUFFICES ASSUME TypeOK, Coherent, [Next]_vars PROVE Coherent'
    OBVIOUS
<1>1. ASSUME User PROVE Coherent'
    BY <1>1, OthersCoherent
       DEF User, CreateWorkload, EditSpec, DeleteWorkload, cache
<1>2. ASSUME NEW k \in Kinds, CollectGarbage(k) PROVE Coherent'
    BY <1>2, SetChildCoherent DEF CollectGarbage, cache
<1>3. ASSUME NEW k \in Kinds, Drift(k) PROVE Coherent'
    BY <1>3, SetChildCoherent DEF Drift, cache
<1>4. ASSUME NEW n \in Held, Scale(n) PROVE Coherent'
    BY <1>4, ConstantsAssumption, SetChildCoherent DEF Scale, cache
<1>5. ASSUME NEW n \in Counts, ReportReady(n) PROVE Coherent'
    BY <1>5, ConstantsAssumption, SetChildCoherent DEF ReportReady, cache
<1>6. ASSUME NEW m \in Managers, NEW o \in Objects, Observe(m, o) PROVE Coherent'
    <2>1. CASE o = "Workload"
        BY <1>6, <2>1, ConstantsAssumption DEF Observe, Coherent, TypeOK, live
    <2>2. CASE o # "Workload"
        <3>1. /\ child' = child
              /\ cachedChild' = [cachedChild EXCEPT ![m][o] = child[o]]
              /\ stale' = [stale EXCEPT ![m] = @ \ {o}]
            BY <1>6, <2>2 DEF Observe, live
        <3> QED BY <3>1 DEF Coherent, TypeOK
    <2> QED BY <2>1, <2>2
<1>7. ASSUME NEW m \in Managers, Restart(m) PROVE Coherent'
    BY <1>7 DEF Restart, Coherent, TypeOK, live
<1>8. ASSUME NEW m \in Managers, RequeueDue(m) \/ Begin(m) PROVE Coherent'
    BY <1>8, OthersCoherent DEF RequeueDue, Begin, live, cache
<1>9. ASSUME NEW m \in Managers, Apply(m) PROVE Coherent'
    <2>1. PICK k \in Kinds : ApplyChild(m, k) \/ FailChild(m, k)
        BY <1>9 DEF Apply
    <2>2. UNCHANGED cachedChild
        BY <2>1 DEF ApplyChild, FailChild, cache
    <2>3. UNCHANGED <<child, stale>> \/ \E c : SetChild(k, c)
        BY <2>1 DEF ApplyChild, FailChild, CreateChild, UpdateChild, LeaveChild
    <2> QED BY <2>2, <2>3, SetChildCoherent, OthersCoherent
<1>10. ASSUME NEW m \in Managers, PatchStatus(m) PROVE Coherent'
    BY <1>10, OthersCoherent DEF PatchStatus, SendPatch, cache
<1>11. ASSUME UNCHANGED vars PROVE Coherent'
    BY <1>11 DEF vars, live, cache, Coherent
<1>12. ASSUME Settle PROVE Coherent'
    BY <1>12, OthersCoherent DEF Settle, live, cache
<1> QED BY <1>1, <1>2, <1>3, <1>4, <1>5, <1>6, <1>7, <1>8, <1>9, <1>10, <1>11, <1>12
        DEF Next, Cluster, Operator

\* Coherence of the caches in every reachable state.
LEMMA CacheCoherence == Spec => []Coherent
<1>1. Init => Coherent
    BY DEF Init, Coherent
<1> QED BY <1>1, CoherentStep, TypeCorrect, PTL DEF Spec

\* A reconcile step changes at most one child, and an existing child only into
\* the mutated copy of what is there: the version check rules out any other.
LEMMA AppliedFromLive ==
    ASSUME TypeOK, Coherent, NEW m \in Managers, Apply(m),
           NEW k \in Kinds, child[k] # NoObject, child'[k] # child[k]
    PROVE  /\ cachedChild[m][k] = child[k]
           /\ Adoptable(child[k])
           /\ child'[k] = Mutated(m, k)
<1>1. PICK j \in Kinds : ApplyChild(m, j) \/ FailChild(m, j)
    BY DEF Apply
<1>2. CreateChild(m, j) \/ UpdateChild(m, j)
    BY <1>1 DEF ApplyChild, FailChild, LeaveChild
<1>3. k = j
    BY <1>2 DEF CreateChild, UpdateChild, SetChild, TypeOK
<1>4. UpdateChild(m, j)
    BY <1>2, <1>3 DEF CreateChild
<1> QED BY <1>3, <1>4 DEF UpdateChild, SetChild, VersionMatches, Coherent, TypeOK

\* For any number of managers, any disturbance and any interleaving, a reconcile
\* step keeps replicas and clusterIP of every existing child and deletes none
\* (apply.go:40-59): an update prepared from an outdated copy is refused.
THEOREM HeldFieldsKept == Spec => KeepsHeldFields
<1>1. ASSUME TypeOK, Coherent, NEW m \in Managers, Apply(m),
             NEW k \in Kinds, child[k] # NoObject
      PROVE  child'[k] # NoObject /\ child'[k].held = child[k].held
    <2>1. CASE child'[k] # child[k]
        <3>1. child'[k] = [child[k] EXCEPT !.owner = base[m].uid,
                                           !.content = Render[base[m].spec][k]]
            <4>1. cachedChild[m][k] = child[k] /\ child'[k] = Mutated(m, k)
                BY <1>1, <2>1, AppliedFromLive
            <4> QED BY <4>1, Zenon DEF Mutated
        <3>2. child[k] \in Child
            BY <1>1 DEF TypeOK
        <3>3. child'[k].held = child[k].held
            BY <3>1, <3>2 DEF Child
        <3>4. child'[k] # NoObject
            <4>1. PICK j \in Kinds : ApplyChild(m, j) \/ FailChild(m, j)
                BY <1>1 DEF Apply
            <4>2. /\ j \in todo[m]
                  /\ pc[m] = "apply"
                  /\ CreateChild(m, j) \/ UpdateChild(m, j)
                BY <2>1, <4>1 DEF ApplyChild, FailChild, LeaveChild
            <4>3. k = j
                BY <1>1, <2>1, <4>2 DEF CreateChild, UpdateChild, SetChild, TypeOK
            <4>4. /\ cachedChild[m][k] # NoObject
                  /\ child'[k] = Mutated(m, k)
                BY <1>1, <2>1, AppliedFromLive
            <4>5. Mutated(m, k) \in Child
                BY <1>1, <4>2, <4>3, <4>4, WrittenChildType
            <4> QED BY <4>4, <4>5, ConstantsAssumption
        <3> QED BY <3>3, <3>4
    <2> QED BY <1>1, <2>1
<1>2. TypeOK /\ Coherent =>
        [\A m \in Managers : Apply(m) =>
            \A k \in Kinds : child[k] # NoObject =>
                /\ child'[k] # NoObject
                /\ child'[k].held = child[k].held]_vars
    BY <1>1
<1> QED BY <1>2, TypeCorrect, CacheCoherence, PTL DEF KeepsHeldFields

\* Nor does it touch a child another controller owns, also when that controller
\* took it after the cached copy was made (apply.go:31).
THEOREM ForeignOwnerRespected == Spec => RespectsForeignOwner
<1>1. ASSUME TypeOK, Coherent, NEW m \in Managers, Apply(m),
             NEW k \in Kinds, OwnedBy(child[k], Foreign)
      PROVE  child'[k] = child[k]
    BY <1>1, AppliedFromLive DEF OwnedBy, Adoptable
<1>2. TypeOK /\ Coherent =>
        [\A m \in Managers : Apply(m) =>
            \A k \in Kinds : OwnedBy(child[k], Foreign) => child'[k] = child[k]]_vars
    BY <1>1
<1> QED BY <1>2, TypeCorrect, CacheCoherence, PTL DEF RespectsForeignOwner

-----------------------------------------------------------------------------
(* What Ready=True claims.                                                  *)

\* The setting of the claim: one manager, one Workload object under the name,
\* and nobody else creates, edits or deletes the children.  With two managers, a
\* re-created Workload or a third-party edit the claim is false for a while.
Sole ==
    /\ \A m, n \in Managers : m = n
    /\ MaxUid = 1
    /\ Disturbances \cap {"delete", "edit", "plant"} = {}

\* What Inv says, apart from types.
Core == Blank /\ Lineage /\ StatusKnown /\ Progress /\ ReadyMeansApplied

\* The parts of Core that read neither children nor progress of a reconcile.
LEMMA Frame ==
    ASSUME Blank, Lineage, StatusKnown,
           UNCHANGED <<workload, lastUid, cachedWorkload, base>>
    PROVE  Blank' /\ Lineage' /\ StatusKnown'
BY DEF Blank, Lineage, Descends, StatusKnown, Known

\* Applied children stay applied when ownership and content are kept.
LEMMA AppliedKept ==
    ASSUME NEW k \in Kinds, Applied(k), UNCHANGED workload,
           child[k] # NoObject => /\ child'[k] # NoObject
                                  /\ child'[k].content = child[k].content
                                  /\ child'[k].owner = child[k].owner
    PROVE  Applied(k)'
BY DEF Applied

\* The copies a manager works from are Workloads when they exist.
LEMMA WorkingCopyType ==
    ASSUME TypeOK, NEW m \in Managers
    PROVE  /\ cachedWorkload[m] # NoObject =>
                /\ cachedWorkload[m] \in Workload
                /\ cachedWorkload[m].gen \in Gens \ {0}
           /\ base[m] # NoObject => base[m] \in Workload /\ base[m].gen \in Gens \ {0}
<1>1. /\ cachedWorkload[m] \in Workload \cup {NoObject}
      /\ base[m] \in Workload \cup {NoObject}
    BY DEF TypeOK
<1>2. \A w \in Workload : w.gen \in Gens \ {0}
    BY DEF Workload
<1> QED BY <1>1, <1>2

\* Initially there is nothing to claim.
LEMMA CoreInit == Init => Core
BY DEF Init, Core, Blank, Lineage, StatusKnown, Progress, ReadyMeansApplied, ReadyNow

LEMMA CreateCore ==
    ASSUME Sole, TypeOK, Core, NEW s \in Specs, CreateWorkload(s)
    PROVE  Core'
<1>1. lastUid = 0
    BY DEF Sole, TypeOK, CreateWorkload
<1>2. \A m \in Managers : cachedWorkload[m] = NoObject /\ base[m] = NoObject
    BY <1>1 DEF Core, Blank
<1>3. \A m \in Managers : pc[m] = "idle"
    BY <1>2 DEF TypeOK
<1>4. /\ workload' = [uid |-> 1, gen |-> 1, spec |-> s, status |-> EmptyStatus]
      /\ lastUid' = 1
      /\ UNCHANGED <<cachedWorkload, base, pc, todo>>
    BY <1>1 DEF CreateWorkload, cache, local
<1>5. Blank'
    BY <1>4 DEF Blank
<1>6. Lineage'
    BY <1>2, <1>4 DEF Lineage, Descends
<1>7. StatusKnown'
    BY <1>2, <1>4 DEF StatusKnown, Known, EmptyStatus
<1>8. Progress'
    BY <1>3, <1>4 DEF Progress
<1>9. ReadyMeansApplied'
    BY <1>4 DEF ReadyMeansApplied, ReadyNow, EmptyStatus
<1> QED BY <1>5, <1>6, <1>7, <1>8, <1>9 DEF Core

LEMMA EditCore ==
    ASSUME TypeOK, Core, NEW s \in Specs, EditSpec(s)
    PROVE  Core'
<1>1. /\ workload \in Workload /\ workload # NoObject
      /\ workload.gen \in Nat
      /\ workload.status.ready.gen \in Nat /\ workload.status.observed \in Nat
    BY DEF EditSpec, TypeOK, Workload, Status, ReadyCondition, Gens
<1>2. /\ workload' # NoObject
      /\ workload'.gen = workload.gen + 1
      /\ workload'.status = workload.status
      /\ UNCHANGED <<lastUid, cachedWorkload, base, pc, todo>>
    <2>1. workload' \in Workload \cup {NoObject} /\ workload' = [workload EXCEPT !.spec = s, !.gen = @ + 1]
        BY EnvironmentType DEF EditSpec, User, TypeOK
    <2>2. workload'.gen = workload.gen + 1 /\ workload'.status = workload.status
        BY <1>1, <2>1 DEF Workload
    <2>3. workload' \in Workload
        <3>1. workload.gen + 1 \in Gens \ {0}
            BY <1>1, ConstantsAssumption DEF EditSpec, Gens
        <3> QED BY <1>1, <2>1, <3>1 DEF Workload
    <2> QED BY <2>2, <2>3, ConstantsAssumption DEF EditSpec, cache, local
<1>3. \A m \in Managers :
        /\ cachedWorkload[m] # NoObject => cachedWorkload[m].gen \in Nat
        /\ base[m] # NoObject => base[m].gen \in Nat
    <2> TAKE m \in Managers
    <2> QED BY WorkingCopyType DEF Gens
<1>4. Blank'
    BY <1>1, <1>2 DEF Core, Blank
<1>5. Lineage'
    BY <1>1, <1>2, <1>3 DEF Core, Lineage, Descends
<1>6. StatusKnown'
    BY <1>1, <1>2 DEF Core, StatusKnown, Known
<1>7. Progress'
    BY <1>1, <1>2, <1>3 DEF Core, Lineage, Descends, Progress, TypeOK
<1>8. ReadyMeansApplied'
    BY <1>1, <1>2 DEF Core, StatusKnown, Known, ReadyMeansApplied, ReadyNow
<1> QED BY <1>4, <1>5, <1>6, <1>7, <1>8 DEF Core

LEMMA DeleteCore ==
    ASSUME TypeOK, Core, DeleteWorkload
    PROVE  Core'
BY DEF DeleteWorkload, cache, local,
       Core, Blank, Lineage, StatusKnown, Progress, ReadyMeansApplied, ReadyNow

\* The garbage collector only finds orphans when there is no Workload.
LEMMA CollectCore ==
    ASSUME Sole, TypeOK, Core, NEW k \in Kinds, CollectGarbage(k)
    PROVE  Core'
<1>1. workload = NoObject
    BY DEF Sole, TypeOK, CollectGarbage, Exists, Workload, Uids
<1>2. UNCHANGED <<workload, lastUid, cachedWorkload, base, pc, todo>>
    BY DEF CollectGarbage, cache, local
<1> QED BY <1>1, <1>2, Frame DEF Core, Progress, ReadyMeansApplied, ReadyNow

\* Other controllers change neither owner nor rendered content.
LEMMA ScaleCore ==
    ASSUME TypeOK, Core,
           \/ \E n \in Held : Scale(n)
           \/ \E n \in Counts : ReportReady(n)
    PROVE  Core'
<1>1. UNCHANGED <<workload, lastUid, cachedWorkload, base, pc, todo>>
    BY DEF Scale, ReportReady, cache, local
<1>2. /\ Deployment \in Kinds
      /\ child[Deployment] \in Child
      /\ \E c \in Child :
            /\ SetChild(Deployment, c)
            /\ c.content = child[Deployment].content
            /\ c.owner = child[Deployment].owner
    <2>1. child[Deployment] \in Child /\ Deployment \in Kinds
        BY ConstantsAssumption DEF TypeOK, Scale, ReportReady
    <2>2. CASE \E n \in Held : Scale(n)
        <3>1. PICK n \in Held : Scale(n)
            BY <2>2
        <3>2. [child[Deployment] EXCEPT !.held = n] \in Child
            BY <2>1 DEF Child
        <3> QED BY <2>1, <3>1, <3>2 DEF Scale, Child
    <2>3. CASE \E n \in Counts : ReportReady(n)
        <3>1. PICK n \in Counts : ReportReady(n)
            BY <2>3
        <3>2. [child[Deployment] EXCEPT !.ready = n] \in Child
            BY <2>1 DEF Child
        <3> QED BY <2>1, <3>1, <3>2 DEF ReportReady, Child
    <2> QED BY <2>1, <2>2, <2>3
<1>3. ASSUME NEW k \in Kinds, Applied(k) PROVE Applied(k)'
    <2>1. child[k] # NoObject =>
            /\ child'[k] # NoObject
            /\ child'[k].content = child[k].content
            /\ child'[k].owner = child[k].owner
        BY <1>2, ConstantsAssumption DEF SetChild, TypeOK
    <2> QED BY <1>1, <1>3, <2>1, AppliedKept
<1>4. Progress'
    BY <1>1, <1>3 DEF Core, Progress, Rendered
<1>5. ReadyMeansApplied'
    BY <1>1, <1>3 DEF Core, ReadyMeansApplied, ReadyNow, Rendered
<1> QED BY <1>1, <1>4, <1>5, Frame DEF Core

\* An event brings the manager the live Workload, which is never older than the
\* one it worked from.
LEMMA ObserveCore ==
    ASSUME TypeOK, Core, NEW m \in Managers, NEW o \in Objects, Observe(m, o)
    PROVE  Core'
<1>1. UNCHANGED <<workload, child, lastUid, base, pc, todo>>
    BY DEF Observe, live, local
<1>2. cachedWorkload' = cachedWorkload \/ cachedWorkload' = [cachedWorkload EXCEPT ![m] = workload]
    BY DEF Observe
<1>3. Progress' /\ ReadyMeansApplied'
    BY <1>1 DEF Core, Progress, ReadyMeansApplied, ReadyNow, Applied
<1>4. CASE cachedWorkload' = cachedWorkload
    BY <1>1, <1>3, <1>4, Frame DEF Core
<1>5. CASE cachedWorkload' = [cachedWorkload EXCEPT ![m] = workload]
    <2>1. Blank'
        BY <1>1, <1>5 DEF Core, Blank, TypeOK
    <2>2. workload # NoObject => workload.gen \in Nat
        BY DEF TypeOK, Workload, Gens
    <2>3. Lineage'
        BY <1>1, <1>5, <2>2 DEF Core, Lineage, Descends, TypeOK
    <2>4. StatusKnown'
        BY <1>1, <1>5 DEF Core, StatusKnown, Known, TypeOK
    <2> QED BY <1>3, <2>1, <2>3, <2>4 DEF Core
<1> QED BY <1>2, <1>4, <1>5

LEMMA RequeueDueCore ==
    ASSUME Core, NEW m \in Managers, RequeueDue(m)
    PROVE  Core'
<1>1. UNCHANGED <<workload, child, lastUid, cachedWorkload, base, pc, todo>>
    BY DEF RequeueDue, live, cache, local
<1> QED BY <1>1, Frame DEF Core, Progress, ReadyMeansApplied, ReadyNow, Applied

\* A new process lists the live Workload and has no reconcile under way.
LEMMA RestartCore ==
    ASSUME TypeOK, Core, NEW m \in Managers, Restart(m)
    PROVE  Core'
<1>1. /\ UNCHANGED <<workload, child, lastUid>>
      /\ cachedWorkload' = [cachedWorkload EXCEPT ![m] = workload]
      /\ pc' = [pc EXCEPT ![m] = "idle"]
      /\ base' = [base EXCEPT ![m] = NoObject]
      /\ todo' = [todo EXCEPT ![m] = {}]
    BY DEF Restart, live
<1>2. workload # NoObject => workload.gen \in Nat
    BY DEF TypeOK, Workload, Gens
<1>3. Blank'
    BY <1>1 DEF Core, Blank, TypeOK
<1>4. Lineage'
    BY <1>1, <1>2 DEF Core, Lineage, Descends, TypeOK
<1>5. StatusKnown'
    BY <1>1 DEF Core, StatusKnown, Known, TypeOK
<1>6. Progress' /\ ReadyMeansApplied'
    BY <1>1 DEF Core, Progress, ReadyMeansApplied, ReadyNow, Applied, TypeOK
<1> QED BY <1>3, <1>4, <1>5, <1>6 DEF Core

\* A reconcile starts from the cached Workload with everything still to apply.
LEMMA BeginCore ==
    ASSUME TypeOK, Core, NEW m \in Managers, Begin(m)
    PROVE  Core'
<1>1. UNCHANGED <<workload, child, lastUid, cachedWorkload>>
    BY DEF Begin, live, cache
<1>2. CASE cachedWorkload[m] = NoObject
    <2>1. UNCHANGED <<base, pc, todo>>
        BY <1>2 DEF Begin, local
    <2> QED BY <1>1, <2>1, Frame DEF Core, Progress, ReadyMeansApplied, ReadyNow, Applied
<1>3. CASE cachedWorkload[m] # NoObject
    <2>1. base' = [base EXCEPT ![m] = cachedWorkload[m]]
        BY <1>3 DEF Begin
    <2>2. \/ pc' = [pc EXCEPT ![m] = "RenderFailed"] /\ todo' = todo
          \/ /\ pc' = [pc EXCEPT ![m] = "apply"]
             /\ todo' = [todo EXCEPT ![m] = Rendered(cachedWorkload[m].spec)]
        BY <1>3 DEF Begin
    <2>3. cachedWorkload[m].gen \in Nat
        BY <1>3, WorkingCopyType DEF Gens
    <2>4. Blank'
        BY <1>1, <1>3, <2>1 DEF Core, Blank, TypeOK
    <2>5. Lineage'
        BY <1>1, <1>3, <2>1, <2>3 DEF Core, Lineage, Descends, TypeOK
    <2>6. StatusKnown'
        <3>1. workload # NoObject =>
                workload.status.ready.gen \in Nat /\ workload.status.observed \in Nat
            BY DEF TypeOK, Workload, Status, ReadyCondition, Gens
        <3> QED BY <1>1, <1>3, <2>1, <2>3, <3>1 DEF Core, StatusKnown, Known, TypeOK
    <2>7. ReadyMeansApplied'
        BY <1>1 DEF Core, ReadyMeansApplied, ReadyNow, Applied
    <2>8. Progress'
        <3> SUFFICES ASSUME NEW n \in Managers
                     PROVE  /\ pc'[n] = "Reconciled" => todo'[n] = {}
                            /\ /\ pc'[n] \in {"apply", "Reconciled"}
                               /\ workload' # NoObject
                               /\ base'[n].gen = workload'.gen
                               => \A k \in Rewritten \cap Rendered(workload'.spec) :
                                     k \notin todo'[n] => Applied(k)'
            BY DEF Progress
        <3>1. CASE n # m
            BY <1>1, <2>1, <2>2, <3>1 DEF Core, Progress, Applied, TypeOK
        <3>2. CASE n = m
            BY <1>1, <1>3, <2>1, <2>2, <3>2 DEF Core, Lineage, Descends, TypeOK
        <3> QED BY <3>1, <3>2
    <2> QED BY <2>4, <2>5, <2>6, <2>7, <2>8 DEF Core
<1> QED BY <1>2, <1>3

\* While a reconcile of generation g runs and Ready stands for generation g, both
\* are about the same spec: what the reconcile writes is what the claim is about.
LEMMA SameSpec ==
    ASSUME TypeOK, Core, NEW m \in Managers, base[m] # NoObject, ReadyNow
    PROVE  /\ base[m].gen = workload.gen
           /\ base[m].spec = workload.spec
<1>1. /\ workload # NoObject
      /\ workload.status.ready.gen = workload.gen
      /\ workload.gen \in Nat
    BY DEF ReadyNow, TypeOK, Workload, Gens
<1>2. base[m].gen \in Nat
    BY WorkingCopyType DEF Gens
<1>3. workload.gen <= base[m].gen
    BY <1>1 DEF Core, StatusKnown, Known
<1>4. Descends(base[m])
    BY <1>1 DEF Core, Lineage
<1> QED BY <1>1, <1>2, <1>3, <1>4 DEF Descends

\* What CreateOrUpdate leaves behind when it writes: the rendered child, under
\* the Workload that was read; the other children as they were.
LEMMA WriteApplies ==
    ASSUME TypeOK, NEW m \in Managers, pc[m] = "apply", NEW k \in todo[m],
           CreateChild(m, k) \/ UpdateChild(m, k)
    PROVE  /\ child'[k] # NoObject
           /\ child'[k].content = Render[base[m].spec][k]
           /\ child'[k].owner = base[m].uid
           /\ \A j \in Kinds : j # k => child'[j] = child[j]
<1>1. k \in Kinds /\ cachedChild[m][k] \in Child \cup {NoObject}
    BY DEF TypeOK
<1>2. CASE CreateChild(m, k)
    <2>1. PICK h \in Assigned[k] :
            SetChild(k, [owner |-> base[m].uid, content |-> Render[base[m].spec][k],
                         held |-> h, ready |-> 0])
        BY <1>2 DEF CreateChild
    <2>2. [owner |-> base[m].uid, content |-> Render[base[m].spec][k],
           held |-> h, ready |-> 0] \in Child
        BY <2>1, WrittenChildType
    <2> QED BY <1>1, <2>1, <2>2, ConstantsAssumption DEF SetChild, TypeOK
<1>3. CASE UpdateChild(m, k)
    <2>1. cachedChild[m][k] \in Child /\ Mutated(m, k) \in Child
        BY <1>1, <1>3, WrittenChildType DEF UpdateChild
    <2>2. /\ Mutated(m, k).content = Render[base[m].spec][k]
          /\ Mutated(m, k).owner = base[m].uid
        BY <2>1 DEF Mutated, Child
    <2> QED BY <1>1, <1>3, <2>1, <2>2, ConstantsAssumption
            DEF UpdateChild, SetChild, TypeOK
<1> QED BY <1>2, <1>3

\* In the sole-manager setting there is one Workload uid.
LEMMA OneUid ==
    ASSUME Sole, TypeOK, NEW m \in Managers, base[m] # NoObject, workload # NoObject
    PROVE  base[m].uid = workload.uid
<1>1. base[m] \in Workload /\ workload \in Workload
    BY DEF TypeOK
<1> QED BY <1>1 DEF Workload, Uids, Sole

\* Writing a child for the generation that Ready stands for, or for the one the
\* reconcile is at, takes nothing away from what is applied.
LEMMA WriteKeeps ==
    ASSUME Sole, TypeOK, NEW m \in Managers, pc[m] = "apply", NEW k \in todo[m],
           CreateChild(m, k) \/ UpdateChild(m, k),
           UNCHANGED workload, workload # NoObject,
           base[m].gen = workload.gen, base[m].spec = workload.spec,
           NEW j \in Kinds, j = k \/ Applied(j)
    PROVE  Applied(j)'
<1>1. base[m] # NoObject
    BY DEF TypeOK
<1>2. base[m].uid = workload.uid
    BY <1>1, OneUid
<1> QED BY <1>2, WriteApplies DEF Applied

LEMMA ApplyCore ==
    ASSUME Sole, TypeOK, Core, NEW m \in Managers, NEW k \in Kinds, ApplyChild(m, k)
    PROVE  Core'
<1>1. /\ UNCHANGED <<workload, lastUid, cachedWorkload, base>>
      /\ pc[m] = "apply" /\ k \in todo[m]
      /\ todo' = [todo EXCEPT ![m] = @ \ {k}]
      /\ pc' = [pc EXCEPT ![m] = IF todo[m] = {k} THEN "Reconciled" ELSE "apply"]
      /\ \/ CreateChild(m, k) \/ UpdateChild(m, k)
         \/ ~NeedsUpdate(m, k) /\ UNCHANGED child
    BY DEF ApplyChild, LeaveChild, cache
<1>2. base[m] # NoObject
    BY <1>1 DEF TypeOK
<1>3. ASSUME NEW j \in Kinds, workload # NoObject, base[m].gen = workload.gen,
             j \in Rewritten, j = k \/ Applied(j)
      PROVE  Applied(j)'
    <2>1. base[m].spec = workload.spec
        BY <1>2, <1>3 DEF Core, Lineage, Descends
    <2>2. CASE CreateChild(m, k) \/ UpdateChild(m, k)
        BY <1>1, <1>3, <2>1, <2>2, WriteKeeps
    <2>3. CASE ~NeedsUpdate(m, k) /\ UNCHANGED child
        BY <1>1, <1>3, <2>3 DEF NeedsUpdate, Applied
    <2> QED BY <1>1, <2>2, <2>3
<1>4. Progress'
    <2> SUFFICES ASSUME NEW n \in Managers
                 PROVE  /\ pc'[n] = "Reconciled" => todo'[n] = {}
                        /\ /\ pc'[n] \in {"apply", "Reconciled"}
                           /\ workload' # NoObject
                           /\ base'[n].gen = workload'.gen
                           => \A j \in Rewritten \cap Rendered(workload'.spec) :
                                 j \notin todo'[n] => Applied(j)'
        BY DEF Progress
    <2>1. n = m
        BY DEF Sole
    <2>2. pc'[n] = "Reconciled" => todo'[n] = {}
        BY <1>1, <2>1 DEF TypeOK
    <2>3. ASSUME workload # NoObject, base[m].gen = workload.gen,
                 NEW j \in Rewritten \cap Rendered(workload.spec), j \notin todo'[m]
          PROVE  Applied(j)'
        <3>1. j \in Kinds /\ (j = k \/ j \notin todo[m])
            BY <1>1, <2>3, ConstantsAssumption DEF TypeOK
        <3>2. j = k \/ Applied(j)
            BY <1>1, <2>3, <3>1 DEF Core, Progress
        <3> QED BY <1>3, <2>3, <3>1, <3>2
    <2> QED BY <1>1, <2>1, <2>2, <2>3
<1>5. ReadyMeansApplied'
    <2> SUFFICES ASSUME ReadyNow, NEW j \in Rewritten \cap Rendered(workload.spec)
                 PROVE  Applied(j)'
        BY <1>1 DEF ReadyMeansApplied, ReadyNow
    <2>1. /\ base[m].gen = workload.gen
          /\ workload # NoObject
          /\ j \in Kinds /\ Applied(j)
        BY <1>2, SameSpec, ConstantsAssumption DEF Core, ReadyMeansApplied, ReadyNow
    <2> QED BY <1>3, <2>1
<1> QED BY <1>1, <1>4, <1>5, Frame DEF Core

LEMMA FailCore ==
    ASSUME Sole, TypeOK, Core, NEW m \in Managers, NEW k \in Kinds, FailChild(m, k)
    PROVE  Core'
<1>1. /\ UNCHANGED <<workload, lastUid, cachedWorkload, base>>
      /\ pc[m] = "apply" /\ k \in todo[m]
      /\ pc' = [pc EXCEPT ![m] = "ApplyFailed"]
      /\ CreateChild(m, k) \/ UpdateChild(m, k) \/ UNCHANGED child
    BY DEF FailChild, cache
<1>2. base[m] # NoObject
    BY <1>1 DEF TypeOK
<1>3. Progress'
    <2> SUFFICES ASSUME NEW n \in Managers
                 PROVE  pc'[n] \notin {"apply", "Reconciled"}
        BY DEF Progress
    <2> QED BY <1>1 DEF Sole, TypeOK
<1>4. ReadyMeansApplied'
    <2> SUFFICES ASSUME ReadyNow, NEW j \in Rewritten \cap Rendered(workload.spec)
                 PROVE  Applied(j)'
        BY <1>1 DEF ReadyMeansApplied, ReadyNow
    <2>1. /\ base[m].gen = workload.gen /\ base[m].spec = workload.spec
          /\ workload # NoObject
          /\ j \in Kinds /\ Applied(j)
        BY <1>2, SameSpec, ConstantsAssumption DEF Core, ReadyMeansApplied, ReadyNow
    <2>2. CASE CreateChild(m, k) \/ UpdateChild(m, k)
        BY <1>1, <2>1, <2>2, WriteKeeps
    <2>3. CASE UNCHANGED child
        BY <1>1, <2>1, <2>3 DEF Applied
    <2> QED BY <1>1, <2>2, <2>3
<1> QED BY <1>1, <1>3, <1>4, Frame DEF Core

\* What a status patch can do to the live Workload: each of the two fields either
\* stays or speaks of the generation this reconcile read, Ready with its outcome,
\* observedGeneration only after a success.
LEMMA PatchEffect ==
    ASSUME TypeOK, NEW m \in Managers, PatchStatus(m), workload # NoObject
    PROVE  /\ workload' # NoObject
           /\ workload'.gen = workload.gen
           /\ workload'.spec = workload.spec
           /\ workload'.uid = workload.uid
           /\ \/ workload'.status.ready = workload.status.ready
              \/ workload'.status.ready = [reason |-> pc[m], gen |-> base[m].gen]
           /\ \/ workload'.status.observed = workload.status.observed
              \/ workload'.status.observed = base[m].gen
<1>1. workload \in Workload /\ base[m] \in Workload /\ pc[m] \in Outcomes
    BY DEF TypeOK, PatchStatus, Outcomes
<1>2. CASE UNCHANGED workload
    BY <1>2
<1>3. CASE SendPatch(m)
    <2>1. PICK newMessage \in {FALSE, pc[m] # "Reconciled"} :
            workload' = [workload EXCEPT !.status =
                MergePatch(workload.status, base[m].status, NewStatus(m), newMessage)]
        BY <1>3 DEF SendPatch
    <2> DEFINE status == MergePatch(workload.status, base[m].status, NewStatus(m), newMessage)
    <2>2. status \in Status
        <3>1. workload.status \in Status /\ base[m].status \in Status
            BY <1>1 DEF Workload
        <3>2. NewStatus(m) \in Status
            BY <1>1, NewStatusType
        <3> QED BY <2>1, <3>1, <3>2, MergePatchType
    <2>3. /\ workload' \in Workload
          /\ workload'.gen = workload.gen /\ workload'.spec = workload.spec
          /\ workload'.uid = workload.uid /\ workload'.status = status
        <3> HIDE DEF status
        <3> QED BY <1>1, <2>1, <2>2 DEF Workload, status
    <2>4. \/ status.ready = workload.status.ready
          \/ status.ready = NewStatus(m).ready
        BY DEF MergePatch
    <2>5. \/ status.observed = workload.status.observed
          \/ /\ NewStatus(m).observed # base[m].status.observed
             /\ status.observed = NewStatus(m).observed
        BY DEF MergePatch
    <2>6. NewStatus(m).ready = [reason |-> pc[m], gen |-> base[m].gen]
        <3>1. CASE pc[m] = "Reconciled"
            BY <3>1 DEF NewStatus, ReconciledStatus, Generation
        <3>2. CASE pc[m] # "Reconciled"
            BY <1>1, <3>2 DEF NewStatus, FailedStatus, Generation, Workload, Status
        <3> QED BY <3>1, <3>2
    <2>7. \/ NewStatus(m).observed = base[m].gen
          \/ NewStatus(m).observed = base[m].status.observed
        <3>1. CASE pc[m] = "Reconciled"
            BY <3>1 DEF NewStatus, ReconciledStatus, Generation
        <3>2. CASE pc[m] # "Reconciled"
            BY <1>1, <3>2 DEF NewStatus, FailedStatus, Generation, Workload, Status
        <3> QED BY <3>1, <3>2
    <2>8. workload' # NoObject
        BY <2>3, ConstantsAssumption
    <2> QED BY <2>3, <2>4, <2>5, <2>6, <2>7, <2>8
<1> QED BY <1>2, <1>3 DEF PatchStatus

LEMMA PatchedGen ==
    ASSUME TypeOK, NEW m \in Managers, PatchStatus(m), workload # NoObject
    PROVE  \/ workload'.status.ready.gen = workload.status.ready.gen
           \/ workload'.status.ready.gen = base[m].gen
<1>1. CASE workload'.status.ready = workload.status.ready
    BY <1>1
<1>2. CASE workload'.status.ready = [reason |-> pc[m], gen |-> base[m].gen]
    <2>1. [reason |-> pc[m], gen |-> base[m].gen].gen = base[m].gen
        OBVIOUS
    <2> QED BY <1>2, <2>1
<1> QED BY <1>1, <1>2, PatchEffect

LEMMA PatchCore ==
    ASSUME Sole, TypeOK, Core, NEW m \in Managers, PatchStatus(m)
    PROVE  Core'
<1>1. /\ UNCHANGED <<child, lastUid, cachedWorkload, todo>>
      /\ pc[m] \in Outcomes
      /\ pc' = [pc EXCEPT ![m] = "idle"]
      /\ base' = [base EXCEPT ![m] = NoObject]
    BY DEF PatchStatus, cache
<1>2. \A n \in Managers : n = m /\ base'[n] = NoObject /\ pc'[n] = "idle"
    BY <1>1 DEF Sole, TypeOK
<1>3. base[m] # NoObject
    BY <1>1 DEF TypeOK, Outcomes
<1>4. Progress'
    BY <1>2 DEF Progress
<1>5. CASE workload = NoObject
    <2>1. workload' = NoObject
        BY <1>5 DEF PatchStatus
    <2> QED BY <1>1, <1>2, <1>4, <1>5, <2>1
            DEF Core, Blank, Lineage, StatusKnown, ReadyMeansApplied, ReadyNow
<1>6. CASE workload # NoObject
    <2>1. Blank'
        BY <1>1, <1>6 DEF Core, Blank
    <2>2. Lineage'
        BY <1>1, <1>2, <1>6, PatchEffect DEF Core, Lineage, Descends
    <2>3. /\ base[m].gen <= workload.gen
          /\ cachedWorkload[m] # NoObject
          /\ base[m].gen <= cachedWorkload[m].gen
        BY <1>3, <1>6 DEF Core, Lineage, Descends
    <2>4. StatusKnown'
        <3> DEFINE KnownNext(g) ==
                /\ g <= workload'.gen
                /\ \A n \in Managers :
                      /\ g # 0 => cachedWorkload'[n] # NoObject /\ g <= cachedWorkload'[n].gen
                      /\ base'[n] # NoObject => g <= base'[n].gen
        <3>1. workload'.gen = workload.gen
            BY <1>6, PatchEffect
        <3>2. KnownNext(base[m].gen)
            BY <1>1, <1>2, <2>3, <3>1
        <3>3. KnownNext(workload.status.ready.gen) /\ KnownNext(workload.status.observed)
            BY <1>1, <1>2, <1>6, <3>1 DEF Core, StatusKnown, Known
        <3>4. \/ workload'.status.ready.gen = workload.status.ready.gen
              \/ workload'.status.ready.gen = base[m].gen
            BY <1>6, PatchedGen
        <3>5. \/ workload'.status.observed = workload.status.observed
              \/ workload'.status.observed = base[m].gen
            BY <1>6, PatchEffect
        <3>6. KnownNext(workload'.status.ready.gen) /\ KnownNext(workload'.status.observed)
            <4> HIDE DEF KnownNext
            <4> QED BY <3>2, <3>3, <3>4, <3>5
        <3> QED BY <3>6 DEF StatusKnown, Known
    <2>5. ReadyMeansApplied'
        <3> SUFFICES ASSUME ReadyNow', NEW k \in Rewritten \cap Rendered(workload'.spec)
                     PROVE  Applied(k)'
            BY DEF ReadyMeansApplied
        <3>1. workload' # NoObject
              /\ workload'.gen = workload.gen /\ workload'.spec = workload.spec
              /\ workload'.uid = workload.uid
            BY <1>6, PatchEffect
        <3>2. workload'.status.ready = [reason |-> "Reconciled", gen |-> workload.gen]
            BY <3>1 DEF ReadyNow
        <3>3. Applied(k)
            <4>1. CASE workload'.status.ready = workload.status.ready
                BY <1>6, <3>1, <3>2, <4>1 DEF Core, ReadyMeansApplied, ReadyNow
            <4>2. CASE workload'.status.ready = [reason |-> pc[m], gen |-> base[m].gen]
                <5>1. pc[m] = "Reconciled" /\ base[m].gen = workload.gen
                    <6>1. /\ workload'.status.ready.reason = "Reconciled"
                          /\ workload'.status.ready.gen = workload.gen
                        BY <3>2
                    <6> QED BY <4>2, <6>1
                <5> QED BY <1>6, <3>1, <5>1 DEF Core, Progress
            <4> QED BY <1>6, <4>1, <4>2, PatchEffect
        <3> QED BY <1>1, <1>6, <3>1, <3>3 DEF Applied
    <2> QED BY <1>4, <2>1, <2>2, <2>4, <2>5 DEF Core
<1> QED BY <1>5, <1>6

\* Every step keeps Core.
LEMMA CoreStep == Sole /\ TypeOK /\ Core /\ [Next]_vars => Core'
<1> SUFFICES ASSUME Sole, TypeOK, Core, [Next]_vars PROVE Core'
    OBVIOUS
<1>1. ASSUME User PROVE Core'
    BY <1>1, CreateCore, EditCore, DeleteCore DEF User
<1>2. ASSUME Cluster PROVE Core'
    <2>1. ASSUME NEW k \in Kinds PROVE ~Drift(k)
        BY DEF Sole, Drift, May
    <2> QED BY <1>2, <2>1, CollectCore, ScaleCore DEF Cluster
<1>3. ASSUME Settle PROVE Core'
    BY <1>3, Frame DEF Settle, live, cache, local, Core, Progress,
       ReadyMeansApplied, ReadyNow, Applied
<1>4. ASSUME NEW m \in Managers, Operator(m) PROVE Core'
    BY <1>4, ObserveCore, RequeueDueCore, RestartCore, BeginCore, ApplyCore,
       FailCore, PatchCore DEF Operator, Apply
<1>5. ASSUME UNCHANGED vars PROVE Core'
    BY <1>5, Frame DEF vars, live, cache, local, Core, Progress,
       ReadyMeansApplied, ReadyNow, Applied
<1> QED BY <1>1, <1>2, <1>3, <1>4, <1>5 DEF Next

\* With one manager, no re-created Workload and nobody else editing the children,
\* Ready=True at the current generation means that every child whose update the
\* API server checks is what the current spec renders, whatever the caches
\* missed, calls lost or restarts interrupted (workload_controller.go:35-98).
THEOREM ReadyIsTrue ==
    ASSUME Sole
    PROVE  Spec => []ReadyMeansApplied
<1>1. Core => ReadyMeansApplied
    BY DEF Core
<1>2. TypeOK /\ Core /\ [Next]_vars => Core'
    BY CoreStep
<1> QED BY <1>1, <1>2, CoreInit, TypeCorrect, PTL DEF Spec

\* In the same setting status.observedGeneration and the generation of the Ready
\* condition never run ahead of the Workload and never go back, although the
\* status patch carries no resourceVersion (workload_controller.go:87, 103).
THEOREM ObservedNeverRegresses ==
    ASSUME Sole
    PROVE  Spec => ObservedIsMonotone
<1> DEFINE Step == workload # NoObject /\ workload' # NoObject =>
         /\ workload'.status.observed <= workload'.gen
         /\ workload'.uid = workload.uid =>
               /\ workload'.status.observed >= workload.status.observed
               /\ workload'.status.ready.gen >= workload.status.ready.gen
<1>1. TypeOK /\ Core /\ [Next]_vars => [Step]_vars
    <2> SUFFICES ASSUME TypeOK, Core, [Next]_vars,
                        workload # NoObject, workload' # NoObject
                 PROVE  Step
        OBVIOUS
    <2>1. workload'.status.observed <= workload'.gen
        BY CoreStep DEF Core, StatusKnown, Known
    <2>2. /\ workload.status.observed \in Nat /\ workload.status.ready.gen \in Nat
          /\ workload.status \in Status
        BY DEF TypeOK, Workload, Status, ReadyCondition, Gens
    <2>3. CASE workload'.status = workload.status
        BY <2>1, <2>2, <2>3
    <2>4. CASE \E m \in Managers : PatchStatus(m)
        <3>1. PICK m \in Managers : PatchStatus(m)
            BY <2>4
        <3>2. base[m] # NoObject
            BY <3>1 DEF PatchStatus, TypeOK, Outcomes
        <3>3. /\ workload.status.observed <= base[m].gen
              /\ workload.status.ready.gen <= base[m].gen
            BY <3>2 DEF Core, StatusKnown, Known
        <3>4. \/ workload'.status.ready.gen = workload.status.ready.gen
              \/ workload'.status.ready.gen = base[m].gen
            BY <3>1, PatchedGen
        <3>5. \/ workload'.status.observed = workload.status.observed
              \/ workload'.status.observed = base[m].gen
            BY <3>1, PatchEffect
        <3>6. base[m].gen \in Nat
            BY <3>2, WorkingCopyType DEF Gens
        <3> QED BY <2>1, <2>2, <3>3, <3>4, <3>5, <3>6
    <2>5. workload'.status = workload.status \/ \E m \in Managers : PatchStatus(m)
        <3>1. ASSUME User PROVE workload'.status = workload.status
            <4>1. ASSUME NEW s \in Specs, EditSpec(s)
                  PROVE  workload'.status = workload.status
                BY <4>1 DEF EditSpec, TypeOK, Workload
            <4> QED BY <3>1, <4>1 DEF User, CreateWorkload, DeleteWorkload
        <3>2. ASSUME Cluster \/ Settle PROVE workload' = workload
            BY <3>2 DEF Cluster, Settle, CollectGarbage, Drift, Scale, ReportReady, live
        <3>3. ASSUME NEW m \in Managers, Operator(m)
              PROVE  workload' = workload \/ PatchStatus(m)
            BY <3>3 DEF Operator, Apply, Observe, RequeueDue, Restart, Begin,
                        ApplyChild, FailChild, live
        <3> QED BY <3>1, <3>2, <3>3 DEF Next, vars, live
    <2> QED BY <2>3, <2>4, <2>5
<1>2. TypeOK /\ Core /\ [Next]_vars => Core'
    BY CoreStep
<1>3. [][Step]_vars => ObservedIsMonotone
    BY PTL DEF ObservedIsMonotone
<1> QED BY <1>1, <1>2, <1>3, CoreInit, TypeCorrect, PTL DEF Spec

-----------------------------------------------------------------------------
(* Canary.  Here any number of managers may overlap and anybody may edit or  *)
(* delete the children; only a re-created Workload breaks the claim.         *)

\* Whatever a manager works from descends from the live Workload.
Descent ==
    workload # NoObject => \A m \in Managers : Descends(cachedWorkload[m]) /\ Descends(base[m])

NotAhead == workload # NoObject => workload.status.ready.gen <= workload.gen

Claim == Blank /\ Descent /\ NotAhead /\ CanaryIsVisible

LEMMA ClaimFrame ==
    ASSUME Claim, UNCHANGED <<workload, lastUid, cachedWorkload, base>>
    PROVE  Claim'
BY DEF Claim, Blank, Descent, Descends, NotAhead, CanaryIsVisible, ReadyNow

LEMMA ClaimInit == Init => Claim
BY DEF Init, Claim, Blank, Descent, NotAhead, CanaryIsVisible, ReadyNow

LEMMA CreateClaim ==
    ASSUME MaxUid = 1, TypeOK, Claim, NEW s \in Specs, CreateWorkload(s)
    PROVE  Claim'
<1>1. lastUid = 0
    BY DEF TypeOK, CreateWorkload
<1>2. \A m \in Managers : cachedWorkload[m] = NoObject /\ base[m] = NoObject
    BY <1>1 DEF Claim, Blank
<1>3. /\ workload' = [uid |-> 1, gen |-> 1, spec |-> s, status |-> EmptyStatus]
      /\ lastUid' = 1
      /\ UNCHANGED <<cachedWorkload, base>>
    BY <1>1 DEF CreateWorkload, cache, local
<1>4. Blank' /\ Descent'
    BY <1>2, <1>3 DEF Blank, Descent, Descends
<1>5. NotAhead' /\ CanaryIsVisible'
    BY <1>3 DEF NotAhead, CanaryIsVisible, ReadyNow, EmptyStatus
<1> QED BY <1>4, <1>5 DEF Claim

\* A new generation is one that no status speaks of yet.
LEMMA EditClaim ==
    ASSUME TypeOK, Claim, NEW s \in Specs, EditSpec(s)
    PROVE  Claim'
<1>1. /\ workload \in Workload /\ workload # NoObject
      /\ workload.gen \in Nat /\ workload.status.ready.gen \in Nat
    BY DEF EditSpec, TypeOK, Workload, Status, ReadyCondition, Gens
<1>2. /\ workload'.gen = workload.gen + 1
      /\ workload'.status = workload.status
      /\ UNCHANGED <<lastUid, cachedWorkload, base>>
    BY <1>1 DEF EditSpec, Workload, cache, local
<1>3. \A m \in Managers :
        /\ cachedWorkload[m] # NoObject => cachedWorkload[m].gen \in Nat
        /\ base[m] # NoObject => base[m].gen \in Nat
    <2> TAKE m \in Managers
    <2> QED BY WorkingCopyType DEF Gens
<1>4. Blank'
    BY <1>1, <1>2 DEF Claim, Blank
<1>5. Descent'
    BY <1>1, <1>2, <1>3 DEF Claim, Descent, Descends
<1>6. NotAhead' /\ CanaryIsVisible'
    BY <1>1, <1>2 DEF Claim, NotAhead, CanaryIsVisible, ReadyNow
<1> QED BY <1>4, <1>5, <1>6 DEF Claim

\* A manager comes to hold the live Workload, what it has cached, or nothing.
LEMMA CopyClaim ==
    ASSUME TypeOK, Claim, NEW m \in Managers, UNCHANGED <<workload, lastUid>>,
           \A n \in Managers : cachedWorkload'[n] \in {cachedWorkload[n], workload},
           \A n \in Managers : base'[n] \in {base[n], cachedWorkload[n], NoObject}
    PROVE  Claim'
<1>1. workload # NoObject => workload.gen \in Nat
    BY DEF TypeOK, Workload, Gens
<1>2. Blank'
    BY DEF Claim, Blank
<1>3. Descent'
    <2> SUFFICES ASSUME workload # NoObject, NEW n \in Managers
                 PROVE  Descends(cachedWorkload[n])' /\ Descends(base[n])'
        BY DEF Descent
    <2>1. Descends(workload)
        BY <1>1 DEF Descends
    <2>2. Descends(cachedWorkload[n]) /\ Descends(base[n]) /\ Descends(NoObject)
        BY DEF Claim, Descent, Descends
    <2> QED BY <2>1, <2>2 DEF Descends
<1>4. NotAhead' /\ CanaryIsVisible'
    BY DEF Claim, NotAhead, CanaryIsVisible, ReadyNow
<1> QED BY <1>2, <1>3, <1>4 DEF Claim

\* Ready and RolloutDegraded are patched as one list: both or none.
LEMMA PatchedConditions ==
    ASSUME TypeOK, NEW m \in Managers, PatchStatus(m), workload # NoObject
    PROVE  \/ /\ workload'.status.ready = workload.status.ready
              /\ workload'.status.degraded = workload.status.degraded
           \/ /\ workload'.status.ready = [reason |-> pc[m], gen |-> base[m].gen]
              /\ pc[m] = "Reconciled" =>
                    workload'.status.degraded =
                        [status |-> RolloutDegraded(base[m].spec), gen |-> base[m].gen]
<1>1. workload \in Workload /\ base[m] \in Workload /\ pc[m] \in Outcomes
    BY DEF TypeOK, PatchStatus, Outcomes
<1>2. CASE UNCHANGED workload
    BY <1>2
<1>3. CASE SendPatch(m)
    <2>1. PICK newMessage \in {FALSE, pc[m] # "Reconciled"} :
            workload' = [workload EXCEPT !.status =
                MergePatch(workload.status, base[m].status, NewStatus(m), newMessage)]
        BY <1>3 DEF SendPatch
    <2> DEFINE status == MergePatch(workload.status, base[m].status, NewStatus(m), newMessage)
    <2>2. workload'.status = status
        <3> HIDE DEF status
        <3> QED BY <1>1, <2>1 DEF Workload, status
    <2>3. \/ status.ready = workload.status.ready /\ status.degraded = workload.status.degraded
          \/ status.ready = NewStatus(m).ready /\ status.degraded = NewStatus(m).degraded
        BY DEF MergePatch
    <2>4. NewStatus(m).ready = [reason |-> pc[m], gen |-> base[m].gen]
        <3>1. CASE pc[m] = "Reconciled"
            BY <3>1 DEF NewStatus, ReconciledStatus, Generation
        <3>2. CASE pc[m] # "Reconciled"
            BY <1>1, <3>2 DEF NewStatus, FailedStatus, Generation, Workload, Status
        <3> QED BY <3>1, <3>2
    <2>5. pc[m] = "Reconciled" =>
              NewStatus(m).degraded =
                  [status |-> RolloutDegraded(base[m].spec), gen |-> base[m].gen]
        BY DEF NewStatus, ReconciledStatus, Generation
    <2> HIDE DEF status
    <2> QED BY <2>2, <2>3, <2>4, <2>5
<1> QED BY <1>2, <1>3 DEF PatchStatus

\* What a success of the current generation says of Canary is about its spec.
LEMMA PatchClaim ==
    ASSUME TypeOK, Claim, NEW m \in Managers, PatchStatus(m)
    PROVE  Claim'
<1>1. /\ UNCHANGED <<lastUid, cachedWorkload>>
      /\ pc[m] \in Outcomes
      /\ base' = [base EXCEPT ![m] = NoObject]
    BY DEF PatchStatus, cache
<1>2. \A n \in Managers : base'[n] \in {base[n], NoObject}
    BY <1>1 DEF TypeOK
<1>3. base[m] # NoObject
    BY <1>1 DEF TypeOK, Outcomes
<1>4. CASE workload = NoObject
    <2>1. workload' = NoObject
        BY <1>4 DEF PatchStatus
    <2> QED BY <1>1, <1>2, <1>4, <2>1
            DEF Claim, Blank, Descent, NotAhead, CanaryIsVisible, ReadyNow
<1>5. CASE workload # NoObject
    <2>1. /\ workload' # NoObject /\ workload'.gen = workload.gen
          /\ workload'.spec = workload.spec
        BY <1>5, PatchEffect
    <2>2. Blank'
        BY <1>1, <1>5 DEF Claim, Blank
    <2>3. Descent'
        BY <1>1, <1>2, <1>5, <2>1 DEF Claim, Descent, Descends
    <2>4. /\ base[m].gen <= workload.gen
          /\ base[m].gen = workload.gen => base[m].spec = workload.spec
        BY <1>3, <1>5 DEF Claim, Descent, Descends
    <2>5. NotAhead'
        BY <1>5, <2>1, <2>4, PatchedGen DEF Claim, NotAhead
    <2>6. CanaryIsVisible'
        <3> SUFFICES ASSUME workload'.status.ready = [reason |-> "Reconciled", gen |-> workload.gen]
                     PROVE  workload'.status.degraded =
                                [status |-> RolloutDegraded(workload.spec), gen |-> workload.gen]
            BY <2>1 DEF CanaryIsVisible, ReadyNow, RolloutDegraded
        <3>1. CASE /\ workload'.status.ready = workload.status.ready
                   /\ workload'.status.degraded = workload.status.degraded
            BY <1>5, <3>1 DEF Claim, CanaryIsVisible, ReadyNow, RolloutDegraded
        <3>2. CASE /\ workload'.status.ready = [reason |-> pc[m], gen |-> base[m].gen]
                   /\ pc[m] = "Reconciled" =>
                         workload'.status.degraded =
                             [status |-> RolloutDegraded(base[m].spec), gen |-> base[m].gen]
            <4>1. pc[m] = "Reconciled" /\ base[m].gen = workload.gen
                <5>1. /\ workload'.status.ready.reason = "Reconciled"
                      /\ workload'.status.ready.gen = workload.gen
                    OBVIOUS
                <5> QED BY <3>2, <5>1
            <4> QED BY <2>4, <3>2, <4>1
        <3> QED BY <1>5, <3>1, <3>2, PatchedConditions
    <2> QED BY <2>2, <2>3, <2>5, <2>6 DEF Claim
<1> QED BY <1>4, <1>5

LEMMA ClaimStep == MaxUid = 1 /\ TypeOK /\ Claim /\ [Next]_vars => Claim'
<1> SUFFICES ASSUME MaxUid = 1, TypeOK, Claim, [Next]_vars PROVE Claim'
    OBVIOUS
<1>1. ASSUME User PROVE Claim'
    <2>1. CASE DeleteWorkload
        BY <2>1 DEF DeleteWorkload, cache, local,
                    Claim, Blank, Descent, NotAhead, CanaryIsVisible, ReadyNow
    <2> QED BY <1>1, <2>1, CreateClaim, EditClaim DEF User
<1>2. ASSUME Cluster \/ Settle \/ UNCHANGED vars PROVE Claim'
    <2>1. UNCHANGED <<workload, lastUid, cachedWorkload, base>>
        BY <1>2 DEF Cluster, Settle, CollectGarbage, Drift, Scale, ReportReady,
                    vars, live, cache, local
    <2> QED BY <2>1, ClaimFrame
<1>3. ASSUME NEW m \in Managers, Operator(m) PROVE Claim'
    <2>1. CASE RequeueDue(m) \/ Apply(m)
        <3>1. UNCHANGED <<workload, lastUid, cachedWorkload, base>>
            BY <2>1 DEF RequeueDue, Apply, ApplyChild, FailChild, live, cache, local
        <3> QED BY <3>1, ClaimFrame
    <2>2. CASE (\E o \in Objects : Observe(m, o)) \/ Restart(m) \/ Begin(m)
        <3>1. /\ UNCHANGED <<workload, lastUid>>
              /\ \A n \in Managers : cachedWorkload'[n] \in {cachedWorkload[n], workload}
              /\ \A n \in Managers : base'[n] \in {base[n], cachedWorkload[n], NoObject}
            BY <2>2 DEF Observe, Restart, Begin, live, cache, local, TypeOK
        <3> QED BY <3>1, CopyClaim
    <2>3. CASE PatchStatus(m)
        BY <2>3, PatchClaim
    <2> QED BY <1>3, <2>1, <2>2, <2>3 DEF Operator
<1> QED BY <1>1, <1>2, <1>3 DEF Next

\* A Canary request is never silently ignored, with any number of overlapping
\* managers, whoever else edits or deletes the children, whatever calls are lost
\* and wherever a process is restarted, as long as the Workload is not re-created
\* under its name: Ready=True at the current generation comes with a
\* RolloutDegraded that is about the current spec, although the patch carries no
\* resourceVersion (workload_controller.go:70-93).
THEOREM CanaryIsNeverIgnored ==
    ASSUME MaxUid = 1
    PROVE  Spec => []CanaryIsVisible
<1>1. Claim => CanaryIsVisible
    BY DEF Claim
<1>2. TypeOK /\ Claim /\ [Next]_vars => Claim'
    BY ClaimStep
<1> QED BY <1>1, <1>2, ClaimInit, TypeCorrect, PTL DEF Spec

-----------------------------------------------------------------------------
(* CreateOrUpdate as one step.  The mapping shows no cached child, so a step *)
(* that writes one has to be justified by the live child alone.              *)

\* A process without a reconcile has no Workload to work from, and only one in
\* the middle of the loop has children to do.
AtRest ==
    \A m \in Managers : /\ pc[m] = "idle" => base[m] = NoObject
                        /\ pc[m] # "apply" => todo[m] = {}

LEMMA InitAtRest == Init => AtRest
BY DEF Init, AtRest

LEMMA StepAtRest == TypeOK /\ AtRest /\ [Next]_vars => AtRest'
<1> SUFFICES ASSUME TypeOK, AtRest, [Next]_vars PROVE AtRest'
  OBVIOUS
<1>1. CASE UNCHANGED <<pc, base, todo>>
  BY <1>1 DEF AtRest
<1>2. User \/ Cluster \/ Settle \/ UNCHANGED vars => UNCHANGED <<pc, base, todo>>
  BY DEF User, CreateWorkload, EditSpec, DeleteWorkload, Cluster, CollectGarbage, Drift, Scale,
         ReportReady, Settle, local, vars
<1>3. ASSUME NEW m \in Managers, Operator(m) PROVE AtRest'
  <2>1. ASSUME NEW o \in Objects, Observe(m, o) PROVE AtRest'
    BY <1>1, <2>1 DEF Observe, local
  <2>2. CASE RequeueDue(m)
    BY <1>1, <2>2 DEF RequeueDue, local
  <2>3. CASE Restart(m)
    BY <2>3 DEF Restart, AtRest, TypeOK
  <2>4. CASE Begin(m)
    BY <1>1, <2>4 DEF Begin, AtRest, TypeOK, local
  <2>5. ASSUME NEW k \in Kinds, ApplyChild(m, k) \/ FailChild(m, k) PROVE AtRest'
    BY <2>5 DEF ApplyChild, FailChild, AtRest, TypeOK
  <2>6. CASE PatchStatus(m)
    BY <2>6 DEF PatchStatus, AtRest, TypeOK, Outcomes
  <2> QED BY <1>3, <2>1, <2>2, <2>3, <2>4, <2>5, <2>6 DEF Operator, Apply
<1> QED BY <1>1, <1>2, <1>3 DEF Next

\* Of a request one sees the uid and the spec.
LEMMA AskedIs ==
    ASSUME NEW w \in Workload \cup {NoObject}
    PROVE  /\ w = NoObject => Asked(w) = {}
           /\ w # NoObject => Asked(w) = {[uid |-> w.uid, spec |-> w.spec]}
BY DEF Asked

\* The whole state the mapping shows, apart from children.
Seen == <<workload, lastUid, cachedWorkload, base, todo>>

LEMMA OthersMapped ==
    ASSUME TypeOK, TypeOK', UNCHANGED Seen, NEW k \in Kinds, NEW c, SetChild(k, c),
           \/ c = NoObject
           \/ child[k] # NoObject /\ c.owner = child[k].owner
           \/ c.owner \in {NoOwner, Foreign}
    PROVE  Atomic!Others(k)
<1>1. child' = [child EXCEPT ![k] = c] /\ c \in Child \cup {NoObject}
  BY DEF SetChild, TypeOK
<1>2. c \in Atomic!Child \cup {NoObject}
  BY <1>1 DEF Child, Owners, Atomic!Child, Atomic!Foreign
<1>3. UNCHANGED <<Asked(workload), lastUid, [m \in Managers |-> Asked(cachedWorkload[m])],
                  [m \in Managers |-> Asked(base[m])], todo>>
  BY DEF Seen
<1> QED BY <1>1, <1>2, <1>3
        DEF Atomic!Others, Atomic!orders, Atomic!NoOwner, Atomic!Foreign, NoOwner, Foreign

\* Users, and everybody else who writes children.
LEMMA EnvironmentMapped ==
    ASSUME TypeOK, TypeOK', User \/ Cluster \/ Settle
    PROVE  [Atomic!AtomicNext]_(Atomic!atomicVars)
<1>1. ASSUME NEW s \in Specs, CreateWorkload(s) PROVE Atomic!Ask(s)
  <2>1. workload' # NoObject
    <3>1. workload' = [uid |-> lastUid + 1, gen |-> 1, spec |-> s, status |-> EmptyStatus]
      BY <1>1 DEF CreateWorkload
    <3>2. workload' \in Workload
      <4>1. EmptyStatus \in Status
        BY ConstantsAssumption
           DEF EmptyStatus, Status, ReadyCondition, DegradedCondition, Gens
      <4> QED BY <1>1, <3>1, <4>1, ConstantsAssumption DEF CreateWorkload, Workload, TypeOK, Uids, Gens
    <3> QED BY <3>2, ConstantsAssumption
  <2>2. Asked(workload) = {} /\ Asked(workload)' = {[uid |-> lastUid + 1, spec |-> s]}
    BY <1>1, <2>1 DEF CreateWorkload, Asked
  <2> QED BY <1>1, <2>2 DEF CreateWorkload, Atomic!Ask, Atomic!orders, cache, local
<1>2. ASSUME NEW s \in Specs, EditSpec(s) PROVE Atomic!Reword(s)
  <2>1. workload \in Workload /\ workload # NoObject
    BY <1>2 DEF EditSpec, TypeOK
  <2>2. /\ workload' = [workload EXCEPT !.spec = s, !.gen = @ + 1]
        /\ workload'.uid = workload.uid /\ workload'.spec = s
    BY <1>2, <2>1 DEF EditSpec, Workload
  <2>3. workload' # NoObject
    <3>1. workload.gen + 1 \in Gens \ {0}
      BY <1>2, <2>1, ConstantsAssumption DEF EditSpec, Workload, Gens
    <3>2. workload' \in Workload
      BY <2>1, <2>2, <3>1 DEF Workload
    <3> QED BY <3>2, ConstantsAssumption
  <2>4. /\ Asked(workload) = {[uid |-> workload.uid, spec |-> workload.spec]}
        /\ Asked(workload)' = {[uid |-> workload.uid, spec |-> s]}
    BY <2>1, <2>2, <2>3 DEF Asked
  <2>5. \E r \in Asked(workload) : Asked(workload)' = {[uid |-> r.uid, spec |-> s]}
    BY <2>4
  <2> QED BY <1>2, <2>5 DEF EditSpec, Atomic!Reword, Atomic!orders, cache, local
<1>3. DeleteWorkload => Atomic!Withdraw
  BY DEF DeleteWorkload, Asked, Atomic!Withdraw, Atomic!orders, cache, local
<1>4. ASSUME NEW k \in Kinds, CollectGarbage(k) PROVE Atomic!Others(k)
  BY <1>4, OthersMapped DEF CollectGarbage, Seen, cache, local
<1>5. ASSUME NEW k \in Kinds, Drift(k) PROVE Atomic!Others(k)
  <2>1. UNCHANGED Seen
    BY <1>5 DEF Drift, Seen, cache, local
  <2>2. CASE SetChild(k, NoObject)
    BY <2>1, <2>2, OthersMapped
  <2>3. CASE child[k] # NoObject /\ SetChild(k, [child[k] EXCEPT !.content = Edited])
    <3>1. [child[k] EXCEPT !.content = Edited].owner = child[k].owner
      BY <2>3 DEF TypeOK, Child
    <3> QED BY <2>1, <2>3, <3>1, OthersMapped
  <2>4. ASSUME NEW o \in {NoOwner, Foreign}, NEW h \in Assigned[k],
               SetChild(k, [owner |-> o, content |-> Edited, held |-> h, ready |-> 0])
        PROVE  Atomic!Others(k)
    BY <2>1, <2>4, OthersMapped
  <2> QED BY <1>5, <2>2, <2>3, <2>4 DEF Drift
<1>6. ASSUME NEW n, Scale(n) \/ ReportReady(n) PROVE Atomic!Others(Deployment)
  <2>1. UNCHANGED Seen /\ Deployment \in Kinds /\ child[Deployment] \in Child
    BY <1>6, ConstantsAssumption DEF Scale, ReportReady, Seen, cache, local, TypeOK
  <2>2. /\ [child[Deployment] EXCEPT !.held = n].owner = child[Deployment].owner
        /\ [child[Deployment] EXCEPT !.ready = n].owner = child[Deployment].owner
    BY <2>1 DEF Child
  <2> QED BY <1>6, <2>1, <2>2, OthersMapped DEF Scale, ReportReady
<1>7. Settle => UNCHANGED Atomic!atomicVars
  BY DEF Settle, live, cache, local, Atomic!atomicVars, Atomic!orders
<1> QED BY <1>1, <1>2, <1>3, <1>4, <1>5, <1>6, <1>7, ConstantsAssumption
        DEF User, Cluster, Atomic!AtomicNext

\* The calls that go through write what the order asks for onto the live child.
LEMMA WriteMapped ==
    ASSUME TypeOK, Coherent, NEW m \in Managers, pc[m] = "apply", NEW k \in Kinds, k \in todo[m],
           CreateChild(m, k) \/ UpdateChild(m, k)
    PROVE  Atomic!Write(m, k)
<1> DEFINE r == [uid |-> base[m].uid, spec |-> base[m].spec]
<1>1. base[m] # NoObject
  BY DEF TypeOK
<1>2. r \in [n \in Managers |-> Asked(base[n])][m]
  BY <1>1 DEF Asked
<1>3. CASE CreateChild(m, k)
  <2>1. PICK h \in Assigned[k] :
          child' = [child EXCEPT ![k] = [owner |-> base[m].uid, content |-> Render[base[m].spec][k],
                                         held |-> h, ready |-> 0]]
    BY <1>3 DEF CreateChild, SetChild
  <2> QED BY <1>2, <1>3, <2>1 DEF CreateChild, Atomic!Write
<1>4. CASE UpdateChild(m, k)
  <2>1. cachedChild[m][k] = child[k]
    BY <1>4 DEF UpdateChild, VersionMatches, Coherent
  <2>2. child' = [child EXCEPT ![k] = Mutated(m, k)]
    BY <1>4 DEF UpdateChild, SetChild
  <2>3. Mutated(m, k) = [child[k] EXCEPT !.owner = base[m].uid,
                                         !.content = Render[base[m].spec][k]]
    BY <2>1, Zenon DEF Mutated
  <2>4. child[k] # NoObject /\ child[k].owner # Atomic!Foreign
    BY <1>4, <2>1 DEF UpdateChild, Adoptable, Foreign, Atomic!Foreign
  <2>5. child' = [child EXCEPT ![k] = [child[k] EXCEPT !.owner = r.uid,
                                                       !.content = Render[r.spec][k]]]
    BY <2>2, <2>3
  <2> QED BY <1>2, <2>4, <2>5 DEF Atomic!Write
<1> QED BY <1>3, <1>4

\* The steps of the loop over the children.
LEMMA ApplyMapped ==
    ASSUME TypeOK, Coherent, NEW m \in Managers, NEW k \in Kinds,
           ApplyChild(m, k) \/ FailChild(m, k)
    PROVE  Atomic!ApplyOne(m, k) \/ Atomic!GiveUp(m, k)
<1>1. pc[m] = "apply" /\ k \in todo[m]
  BY DEF ApplyChild, FailChild
<1>2. UNCHANGED <<Asked(workload), lastUid, [n \in Managers |-> Asked(cachedWorkload[n])],
                  [n \in Managers |-> Asked(base[n])]>>
  BY DEF ApplyChild, FailChild, cache
<1>3. CASE ApplyChild(m, k)
  <2>1. ASSUME LeaveChild(m, k) PROVE k \notin Rewritten /\ UNCHANGED child
    BY <2>1 DEF LeaveChild, NeedsUpdate
  <2>2. Atomic!Write(m, k) \/ (k \notin Rewritten /\ UNCHANGED child)
    BY <1>1, <1>3, <2>1, WriteMapped DEF ApplyChild
  <2>3. todo' = [todo EXCEPT ![m] = @ \ {k}]
    BY <1>3 DEF ApplyChild
  <2> QED BY <1>1, <1>2, <2>2, <2>3 DEF Atomic!ApplyOne
<1>4. CASE FailChild(m, k)
  <2>1. Atomic!Write(m, k) \/ UNCHANGED child
    BY <1>1, <1>4, WriteMapped DEF FailChild
  <2>2. todo' = [todo EXCEPT ![m] = {}]
    BY <1>4 DEF FailChild
  <2> QED BY <1>1, <1>2, <2>1, <2>2 DEF Atomic!GiveUp
<1> QED BY <1>3, <1>4

\* What one manager has read, seen through the mapping.
LEMMA AskedOfOne ==
    ASSUME NEW f, NEW w, NEW g, NEW m \in Managers, f \in [Managers -> Workload \cup {NoObject}],
           g = [f EXCEPT ![m] = w]
    PROVE  [n \in Managers |-> Asked(g[n])] = [[n \in Managers |-> Asked(f[n])] EXCEPT ![m] = Asked(w)]
OBVIOUS

\* Every step of a process is one of the atomic operator, or shows nothing.
LEMMA OperatorMapped ==
    ASSUME TypeOK, TypeOK', Coherent, AtRest, NEW m \in Managers, Operator(m)
    PROVE  [Atomic!AtomicNext]_(Atomic!atomicVars)
<1> DEFINE known == [n \in Managers |-> Asked(cachedWorkload[n])]
           order == [n \in Managers |-> Asked(base[n])]
<1>0. /\ cachedWorkload \in [Managers -> Workload \cup {NoObject}]
      /\ base \in [Managers -> Workload \cup {NoObject}]
  BY DEF TypeOK
<1>1. ASSUME NEW o \in Objects, Observe(m, o) PROVE Atomic!Learn(m) \/ UNCHANGED Atomic!atomicVars
  <2>1. CASE o = "Workload"
    <3>1. known' = [known EXCEPT ![m] = Asked(workload)]
      BY <1>0, <1>1, <2>1, AskedOfOne DEF Observe
    <3> QED BY <1>1, <3>1 DEF Observe, live, local, Atomic!Learn
  <2>2. CASE o # "Workload"
    BY <1>1, <2>2 DEF Observe, live, local, Atomic!atomicVars, Atomic!orders
  <2> QED BY <2>1, <2>2
<1>2. RequeueDue(m) => UNCHANGED Atomic!atomicVars
  BY DEF RequeueDue, live, cache, local, Atomic!atomicVars, Atomic!orders
<1>3. Restart(m) => Atomic!StartAnew(m)
  <2> SUFFICES ASSUME Restart(m) PROVE Atomic!StartAnew(m)
    OBVIOUS
  <2>1. known' = [known EXCEPT ![m] = Asked(workload)]
    BY <1>0, AskedOfOne DEF Restart
  <2>2. order' = [order EXCEPT ![m] = {}]
    <3>1. Asked(NoObject) = {}
      BY DEF Asked
    <3> QED BY <1>0, <3>1, AskedOfOne DEF Restart
  <2> QED BY <2>1, <2>2 DEF Restart, live, Atomic!StartAnew
<1>4. Begin(m) => Atomic!Take(m) \/ UNCHANGED Atomic!atomicVars
  <2> SUFFICES ASSUME Begin(m) PROVE Atomic!Take(m) \/ UNCHANGED Atomic!atomicVars
    OBVIOUS
  <2>1. CASE cachedWorkload[m] = NoObject
    BY <2>1 DEF Begin, live, cache, local, Atomic!atomicVars, Atomic!orders
  <2>2. CASE cachedWorkload[m] # NoObject
    <3> DEFINE w == cachedWorkload[m]
               r == [uid |-> w.uid, spec |-> w.spec]
    <3>1. order[m] = {} /\ r \in known[m] /\ Asked(w) = {r}
      BY <2>2 DEF Begin, AtRest, Asked
    <3>2. order' = [order EXCEPT ![m] = {r}]
      BY <1>0, <2>2, <3>1, AskedOfOne DEF Begin
    <3>3. todo' = [todo EXCEPT ![m] = IF r.spec \in Unrenderable THEN {}
                                      ELSE {k \in Kinds : Render[r.spec][k] # Nothing}]
      <4>1. CASE w.spec \in Unrenderable
        <5>1. todo' = todo /\ todo[m] = {} /\ todo \in [Managers -> SUBSET Kinds]
          BY <2>2, <4>1 DEF Begin, AtRest, TypeOK
        <5>2. todo = [todo EXCEPT ![m] = {}]
          BY <5>1
        <5> QED BY <4>1, <5>1, <5>2
      <4>2. CASE w.spec \notin Unrenderable
        BY <2>2, <4>2 DEF Begin, Rendered
      <4> QED BY <4>1, <4>2
    <3>4. UNCHANGED <<Asked(workload), lastUid, child, known>>
      BY DEF Begin, live, cache
    <3> QED BY <3>1, <3>2, <3>3, <3>4 DEF Atomic!Take
  <2> QED BY <2>1, <2>2
<1>5. ASSUME NEW k \in Kinds, ApplyChild(m, k) \/ FailChild(m, k)
      PROVE  Atomic!ApplyOne(m, k) \/ Atomic!GiveUp(m, k)
  BY <1>5, ApplyMapped
<1>6. PatchStatus(m) => Atomic!Finish(m)
  <2> SUFFICES ASSUME PatchStatus(m) PROVE Atomic!Finish(m)
    OBVIOUS
  <2>1. todo[m] = {}
    BY DEF PatchStatus, AtRest, Outcomes
  <2>2. order' = [order EXCEPT ![m] = {}]
    <3>1. Asked(NoObject) = {}
      BY DEF Asked
    <3> QED BY <1>0, <3>1, AskedOfOne DEF PatchStatus
  <2>3. Asked(workload)' = Asked(workload)
    <3>1. CASE workload = NoObject
      BY <3>1 DEF PatchStatus, Asked
    <3>2. CASE workload # NoObject
      BY <3>2, PatchEffect DEF Asked
    <3> QED BY <3>1, <3>2
  <2> QED BY <2>1, <2>2, <2>3 DEF PatchStatus, cache, Atomic!Finish
<1> QED BY <1>1, <1>2, <1>3, <1>4, <1>5, <1>6 DEF Operator, Apply, Atomic!AtomicNext

\* With any number of processes, caches of any age, and whatever fails, restarts,
\* is deleted, planted or re-created: CreateOrUpdate is one step (apply.go:29-72).
THEOREM OperatorIsAtomic == Spec => ImplementsAtomicApply
<1>1. Init => Atomic!AtomicInit
  BY DEF Init, Asked, Atomic!AtomicInit
<1>2. TypeOK /\ TypeOK' /\ Coherent /\ AtRest /\ [Next]_vars
        => [Atomic!AtomicNext]_(Atomic!atomicVars)
  <2>1. UNCHANGED vars => UNCHANGED Atomic!atomicVars
    BY DEF vars, live, cache, local, Atomic!atomicVars, Atomic!orders
  <2> QED BY <2>1, EnvironmentMapped, OperatorMapped DEF Next
<1> QED BY <1>1, <1>2, InitAtRest, StepAtRest, TypeCorrect, CacheCoherence, PTL
        DEF Spec, ImplementsAtomicApply, Atomic!AtomicSpec
===============================================================================
