--------------------------- MODULE WorkloadOperator ---------------------------
(***************************************************************************)
(* The Workload reconciler (operator/internal/controller), one Workload    *)
(* name and its child objects, with everything that runs beside it: the    *)
(* API server, the informer cache of each operator process, the work       *)
(* queue, the garbage collector, the HPA and Deployment controllers, users *)
(* and other clients.                                                      *)
(*                                                                         *)
(* A reconcile is not atomic: it reads the cached Workload, then applies   *)
(* one child after the other, each from a cached copy, then patches the    *)
(* status.  Any other step may happen between two of these.                *)
(*                                                                         *)
(* A resourceVersion is abstracted to what the code compares it for: an    *)
(* object is in stale[m] exactly when m's cached copy does not carry the   *)
(* resourceVersion of the object in the API server.                        *)
(*                                                                         *)
(* Definitions named Bug... are plausible mistakes in the definition that  *)
(* follows them; no specification uses them.                               *)
(***************************************************************************)
EXTENDS Naturals

CONSTANTS
    Managers,      \* operator processes; two of them overlap during an upgrade
    Kinds,         \* the child objects the chart can render
    Deployment,    \* the one child kind the controller watches with Owns()
    Rewritten,     \* kinds whose rendered spec the API server completes with
                   \* defaults: live and desired always differ, so
                   \* CreateOrUpdate always sends an Update
    Specs,         \* Workload specs
    Render,        \* Render[s][k]: the content the chart gives child k, or Nothing
    Unrenderable,  \* specs the CRD admits and the chart's schema rejects
    Canary,        \* specs that ask for the Canary strategy
    Contents,      \* what the operator's part of a child object can hold
    Nothing,       \* not rendered
    Edited,        \* content written by someone else
    Held,          \* values of the part of a child that others own: spec.replicas
                   \* of the Deployment (the HPA's), clusterIP of the Service
    Assigned,      \* Assigned[k]: what the API server may fill in there on create
    Counts,        \* ready replicas the Deployment controller reports
    NoObject,      \* an object that does not exist
    MaxUid,        \* bound: Workload objects ever created under this name
    MaxGen,        \* bound: generations of one Workload object
    Disturbances   \* which disturbances an instance has, a subset of Disturbance

VARIABLES
    workload,      \* the Workload in the API server
    child,         \* the child objects in the API server
    lastUid,       \* uids given to Workload objects so far
    cachedWorkload, cachedChild,   \* per manager: the informer cache
    stale,         \* per manager: objects whose cached copy is not the live one
    queued,        \* managers whose work queue holds the request
    delayed,       \* managers with a delayed add pending (RequeueAfter, backoff)
    pc,            \* per manager: where its reconcile is
    base,          \* per manager: the Workload this reconcile works from
    todo,          \* per manager: rendered children not applied yet
    calm           \* no disturbance happens any more (liveness needs such a time)

live   == <<workload, child, lastUid>>
cache  == <<cachedWorkload, cachedChild>>
queue  == <<queued, delayed>>
local  == <<pc, base, todo>>
vars   == <<live, cache, stale, queue, local, calm>>

-----------------------------------------------------------------------------
(* Types.                                                                   *)

Disturbance == {"delete", "edit", "plant", "scale", "ready", "lost", "crash", "remove", "end"}

Uids    == 1..MaxUid
NoOwner == 0               \* no controller reference
Foreign == MaxUid + 1      \* controlled by an object of another kind or name
Owners  == 0..(MaxUid + 1)
Gens    == 0..MaxGen
Objects == Kinds \cup {"Workload"}

\* Why a reconcile ends: the reason its Ready condition gets.
Outcomes == {"Reconciled", "ApplyFailed", "RenderFailed"}

ReadyCondition    == [reason : Outcomes \cup {"None"}, gen : Gens]
DegradedCondition == [status : {"None", "True", "False"}, gen : Gens]
Status   == [observed : Gens, ready : ReadyCondition,
             degraded : DegradedCondition, replicas : Counts]
Workload == [uid : Uids, gen : Gens \ {0}, spec : Specs, status : Status]
Child    == [owner : Owners, content : Contents, held : Held, ready : Counts]

EmptyStatus == [observed |-> 0, ready |-> [reason |-> "None", gen |-> 0],
                degraded |-> [status |-> "None", gen |-> 0], replicas |-> 0]

ASSUME ConstantsAssumption ==
    /\ Deployment \in Kinds
    /\ "Workload" \notin Kinds
    /\ Rewritten \subseteq Kinds
    /\ Unrenderable \subseteq Specs
    /\ Canary \subseteq Specs
    /\ Edited \in Contents
    /\ Nothing \notin Contents
    /\ Render \in [Specs -> [Kinds -> Contents \cup {Nothing}]]
    /\ \A s \in Specs : Render[s][Deployment] # Nothing
    /\ Assigned \in [Kinds -> SUBSET Held]
    /\ Counts \subseteq Nat /\ 0 \in Counts
    /\ MaxUid \in Nat /\ MaxGen \in Nat \ {0}
    /\ NoObject \notin Workload /\ NoObject \notin Child
    /\ Disturbances \subseteq Disturbance

\* The children the chart renders from a spec.
Rendered(s) == {k \in Kinds : Render[s][k] # Nothing}

TypeOK ==
    /\ workload \in Workload \cup {NoObject}
    /\ child \in [Kinds -> Child \cup {NoObject}]
    /\ lastUid \in 0..MaxUid
    /\ cachedWorkload \in [Managers -> Workload \cup {NoObject}]
    /\ cachedChild \in [Managers -> [Kinds -> Child \cup {NoObject}]]
    /\ stale \in [Managers -> SUBSET Objects]
    /\ queued \subseteq Managers
    /\ delayed \subseteq Managers
    /\ pc \in [Managers -> {"idle", "apply"} \cup Outcomes]
    /\ base \in [Managers -> Workload \cup {NoObject}]
    /\ todo \in [Managers -> SUBSET Kinds]
    /\ calm \in BOOLEAN
    /\ \A m \in Managers :
          /\ pc[m] # "idle" => base[m] # NoObject
          /\ pc[m] = "apply" => todo[m] \subseteq Rendered(base[m].spec)

Init ==
    /\ workload = NoObject
    /\ child = [k \in Kinds |-> NoObject]
    /\ lastUid = 0
    /\ cachedWorkload = [m \in Managers |-> NoObject]
    /\ cachedChild = [m \in Managers |-> [k \in Kinds |-> NoObject]]
    /\ stale = [m \in Managers |-> {}]
    /\ queued = {}
    /\ delayed = {}
    /\ pc = [m \in Managers |-> "idle"]
    /\ base = [m \in Managers |-> NoObject]
    /\ todo = [m \in Managers |-> {}]
    /\ calm = FALSE

-----------------------------------------------------------------------------
(* The API server's side of a write: a new resourceVersion makes every      *)
(* cached copy stale; a write that changes nothing keeps the version.       *)

Bump(o) == stale' = [m \in Managers |-> stale[m] \cup {o}]

SetChild(k, c) ==
    /\ child' = [child EXCEPT ![k] = c]
    /\ IF c = child[k] THEN UNCHANGED stale ELSE Bump(k)

\* Disturbances an instance allows may happen until they stop for good.
May(d) == d \in Disturbances /\ ~calm

Settle ==
    /\ May("end")
    /\ calm' = TRUE
    /\ UNCHANGED <<live, cache, stale, queue, local>>

(* Users.  The CRD has a status subresource: only a spec change increments  *)
(* metadata.generation.                                                     *)

CreateWorkload(s) ==
    /\ workload = NoObject
    /\ lastUid < MaxUid
    /\ workload' = [uid |-> lastUid + 1, gen |-> 1, spec |-> s, status |-> EmptyStatus]
    /\ lastUid' = lastUid + 1
    /\ Bump("Workload")
    /\ UNCHANGED <<child, cache, queue, local, calm>>

EditSpec(s) ==
    /\ workload # NoObject
    /\ s # workload.spec
    /\ workload.gen < MaxGen
    /\ workload' = [workload EXCEPT !.spec = s, !.gen = @ + 1]
    /\ Bump("Workload")
    /\ UNCHANGED <<child, lastUid, cache, queue, local, calm>>

DeleteWorkload ==
    /\ May("remove")
    /\ workload # NoObject
    /\ workload' = NoObject
    /\ Bump("Workload")
    /\ UNCHANGED <<child, lastUid, cache, queue, local, calm>>

\* The Workload with that uid is there.
Exists(uid) == IF workload = NoObject THEN FALSE ELSE workload.uid = uid

\* The garbage collector removes a child whose owning Workload is gone.
CollectGarbage(k) ==
    /\ child[k] # NoObject
    /\ child[k].owner \in Uids
    /\ ~Exists(child[k].owner)
    /\ SetChild(k, NoObject)
    /\ UNCHANGED <<workload, lastUid, cache, queue, local, calm>>

(* The other writers of child objects.                                      *)

\* The HPA owns spec.replicas of the Deployment.
Scale(n) ==
    /\ May("scale")
    /\ child[Deployment] # NoObject
    /\ SetChild(Deployment, [child[Deployment] EXCEPT !.held = n])
    /\ UNCHANGED <<workload, lastUid, cache, queue, local, calm>>

\* The Deployment controller reports status.readyReplicas.
ReportReady(n) ==
    /\ May("ready")
    /\ child[Deployment] # NoObject
    /\ SetChild(Deployment, [child[Deployment] EXCEPT !.ready = n])
    /\ UNCHANGED <<workload, lastUid, cache, queue, local, calm>>

\* Somebody deletes a child, edits what the chart rendered, or creates an
\* object of the child's name with no controller or with one of its own.
Drift(k) ==
    /\ \/ /\ May("delete")
          /\ child[k] # NoObject
          /\ SetChild(k, NoObject)
       \/ /\ May("edit")
          /\ child[k] # NoObject
          /\ SetChild(k, [child[k] EXCEPT !.content = Edited])
       \/ /\ May("plant")
          /\ child[k] = NoObject
          /\ \E o \in {NoOwner, Foreign}, h \in Assigned[k] :
                SetChild(k, [owner |-> o, content |-> Edited, held |-> h, ready |-> 0])
    /\ UNCHANGED <<workload, lastUid, cache, queue, local, calm>>

-----------------------------------------------------------------------------
(* Informers and work queue.                                                *)

\* An object the Owns() watch maps to the Workload: its controller is one.
OwnedByWorkload(c) == IF c = NoObject THEN FALSE ELSE c.owner \in Uids

OwnedBy(c, owner) == IF c = NoObject THEN FALSE ELSE c.owner = owner

\* For(&Workload{}) has no predicate, so every event of the Workload enqueues,
\* the ones its own status patch causes included; Owns() covers Deployments only.
Enqueues(m, o) ==
    IF o = "Workload" THEN TRUE
    ELSE /\ o = Deployment
         /\ OwnedByWorkload(child[o]) \/ OwnedByWorkload(cachedChild[m][o])

\* A watch event reaches the cache of m, which then holds the live object.
Observe(m, o) ==
    /\ o \in stale[m]
    /\ IF o = "Workload"
       THEN /\ cachedWorkload' = [cachedWorkload EXCEPT ![m] = workload]
            /\ UNCHANGED cachedChild
       ELSE /\ cachedChild' = [cachedChild EXCEPT ![m][o] = child[o]]
            /\ UNCHANGED cachedWorkload
    /\ stale' = [stale EXCEPT ![m] = @ \ {o}]
    /\ queued' = IF Enqueues(m, o) THEN queued \cup {m} ELSE queued
    /\ UNCHANGED <<live, delayed, local, calm>>

\* The 30 s RequeueAfter or the backoff of a failed reconcile runs out.
RequeueDue(m) ==
    /\ m \in delayed
    /\ delayed' = delayed \ {m}
    /\ queued' = queued \cup {m}
    /\ UNCHANGED <<live, cache, stale, local, calm>>

\* The process stops anywhere and a new one lists every object again; the
\* initial list enqueues the Workload.
Restart(m) ==
    /\ May("crash")
    /\ cachedWorkload' = [cachedWorkload EXCEPT ![m] = workload]
    /\ cachedChild' = [cachedChild EXCEPT ![m] = child]
    /\ stale' = [stale EXCEPT ![m] = {}]
    /\ queued' = IF workload # NoObject \/ OwnedByWorkload(child[Deployment])
                 THEN queued \cup {m} ELSE queued \ {m}
    /\ delayed' = delayed \ {m}
    /\ pc' = [pc EXCEPT ![m] = "idle"]
    /\ base' = [base EXCEPT ![m] = NoObject]
    /\ todo' = [todo EXCEPT ![m] = {}]
    /\ UNCHANGED <<live, calm>>

-----------------------------------------------------------------------------
(* The reconcile.                                                           *)

BugBeginIgnoresNotFound(m) ==
    /\ pc[m] = "idle"
    /\ m \in queued
    /\ queued' = queued \ {m}
    /\ base' = [base EXCEPT ![m] = cachedWorkload[m]]
    /\ pc' = [pc EXCEPT ![m] = "ApplyFailed"]
    /\ UNCHANGED <<live, cache, stale, delayed, todo, calm>>

\* Take the request, read the cached Workload and render the chart.
Begin(m) ==
    /\ pc[m] = "idle"
    /\ m \in queued
    /\ queued' = queued \ {m}
    /\ IF cachedWorkload[m] = NoObject
       THEN UNCHANGED local
       ELSE /\ base' = [base EXCEPT ![m] = cachedWorkload[m]]
            /\ IF cachedWorkload[m].spec \in Unrenderable
               THEN /\ pc' = [pc EXCEPT ![m] = "RenderFailed"]
                    /\ UNCHANGED todo
               ELSE /\ pc' = [pc EXCEPT ![m] = "apply"]
                    /\ todo' = [todo EXCEPT ![m] = Rendered(cachedWorkload[m].spec)]
    /\ UNCHANGED <<live, cache, stale, delayed, calm>>

(* setOwnerAndApply: CreateOrUpdate of child k from the cached copy.        *)

BugAdoptsAnything(c) == TRUE

\* SetControllerReference refuses an object another controller owns; an owner
\* reference to an earlier Workload of the same name is replaced.
Adoptable(c) == c.owner # Foreign

BugMutatedOverwrites(m, k) ==
    [owner |-> base[m].uid, content |-> Render[base[m].spec][k],
     held |-> CHOOSE h \in Assigned[k] : TRUE, ready |-> cachedChild[m][k].ready]

\* The mutate function on the cached copy: ownership and the rendered content,
\* keeping replicas (Deployment) and clusterIP (Service) as cached.
Mutated(m, k) ==
    [cachedChild[m][k] EXCEPT !.owner = base[m].uid,
                              !.content = Render[base[m].spec][k]]

\* CreateOrUpdate sends no Update when the mutated copy equals the cached one.
NeedsUpdate(m, k) == k \in Rewritten \/ Mutated(m, k) # cachedChild[m][k]

BugUnconditionalUpdate(m, k) == child[k] # NoObject

\* The Update carries the cached resourceVersion: the API server refuses it
\* (Conflict, or NotFound) unless that is the live one.
VersionMatches(m, k) == k \notin stale[m]

BugCreateUnowned(m, k) ==
    /\ cachedChild[m][k] = NoObject
    /\ child[k] = NoObject
    /\ \E h \in Assigned[k] :
          SetChild(k, [owner |-> NoOwner, content |-> Render[base[m].spec][k],
                       held |-> h, ready |-> 0])

\* The calls of CreateOrUpdate that go through.
CreateChild(m, k) ==
    /\ cachedChild[m][k] = NoObject
    /\ child[k] = NoObject
    /\ \E h \in Assigned[k] :
          SetChild(k, [owner |-> base[m].uid, content |-> Render[base[m].spec][k],
                       held |-> h, ready |-> 0])

UpdateChild(m, k) ==
    /\ cachedChild[m][k] # NoObject
    /\ Adoptable(cachedChild[m][k])
    /\ NeedsUpdate(m, k)
    /\ VersionMatches(m, k)
    /\ SetChild(k, Mutated(m, k))

LeaveChild(m, k) ==
    /\ cachedChild[m][k] # NoObject
    /\ Adoptable(cachedChild[m][k])
    /\ ~NeedsUpdate(m, k)
    /\ UNCHANGED <<child, stale>>

\* AlreadyExists, AlreadyOwned, Conflict or NotFound, or a transient error.
Refused(m, k) ==
    \/ cachedChild[m][k] = NoObject /\ child[k] # NoObject
    \/ /\ cachedChild[m][k] # NoObject
       /\ \/ ~Adoptable(cachedChild[m][k])
          \/ NeedsUpdate(m, k) /\ ~VersionMatches(m, k)
    \/ May("lost")

\* Child k is applied; after the last one the status says Reconciled.
ApplyChild(m, k) ==
    /\ pc[m] = "apply"
    /\ k \in todo[m]
    /\ CreateChild(m, k) \/ UpdateChild(m, k) \/ LeaveChild(m, k)
    /\ todo' = [todo EXCEPT ![m] = @ \ {k}]
    /\ pc' = [pc EXCEPT ![m] = IF todo[m] = {k} THEN "Reconciled" ELSE "apply"]
    /\ UNCHANGED <<workload, lastUid, cache, queue, base, calm>>

\* The first error ends the loop: the children left in todo are not applied.
\* When the reply is lost, the write has happened all the same.
FailChild(m, k) ==
    /\ pc[m] = "apply"
    /\ k \in todo[m]
    /\ \/ Refused(m, k) /\ UNCHANGED <<child, stale>>
       \/ May("lost") /\ (CreateChild(m, k) \/ UpdateChild(m, k))
    /\ todo' = [todo EXCEPT ![m] = {}]
    /\ pc' = [pc EXCEPT ![m] = "ApplyFailed"]
    /\ UNCHANGED <<workload, lastUid, cache, queue, base, calm>>

(* The status patch.                                                        *)

BugGenerationRefetched(m) ==
    IF cachedWorkload[m] = NoObject THEN base[m].gen ELSE cachedWorkload[m].gen

\* The generation a status speaks of is the one that was read at the start.
Generation(m) == base[m].gen

BugCanaryIgnored(s) == "False"

RolloutDegraded(s) == IF s \in Canary THEN "True" ELSE "False"

\* ReadyReplicas come from the cached Deployment; a failed read leaves them.
ReconciledStatus(m) ==
    LET dep == cachedChild[m][Deployment]
    IN [observed |-> Generation(m),
        ready    |-> [reason |-> "Reconciled", gen |-> Generation(m)],
        degraded |-> [status |-> RolloutDegraded(base[m].spec), gen |-> Generation(m)],
        replicas |-> IF dep = NoObject THEN base[m].status.replicas ELSE dep.ready]

BugFailedStatusFromScratch(m) ==
    [EmptyStatus EXCEPT !.ready = [reason |-> pc[m], gen |-> Generation(m)]]

\* Both failure paths set the Ready condition only.
FailedStatus(m) ==
    [base[m].status EXCEPT !.ready = [reason |-> pc[m], gen |-> Generation(m)]]

NewStatus(m) == IF pc[m] = "Reconciled" THEN ReconciledStatus(m) ELSE FailedStatus(m)

\* MergeFrom(base): only what differs from the base is sent, the condition list
\* as one value.  newMessage: the error text alone can make the list differ.
MergePatch(onto, old, new, newMessage) ==
    LET conditions == new.ready # old.ready \/ new.degraded # old.degraded \/ newMessage
    IN [observed |-> IF new.observed # old.observed THEN new.observed ELSE onto.observed,
        ready    |-> IF conditions THEN new.ready ELSE onto.ready,
        degraded |-> IF conditions THEN new.degraded ELSE onto.degraded,
        replicas |-> IF new.replicas # old.replicas THEN new.replicas ELSE onto.replicas]

BugPatchAlwaysDiffers(m) ==
    /\ workload' = [workload EXCEPT !.status =
                       MergePatch(@, base[m].status, NewStatus(m), TRUE)]
    /\ Bump("Workload")

\* The patch names the Workload and carries neither resourceVersion nor uid.
SendPatch(m) ==
    \E newMessage \in {FALSE, pc[m] # "Reconciled"} :
       LET status == MergePatch(workload.status, base[m].status, NewStatus(m), newMessage)
       IN /\ workload' = [workload EXCEPT !.status = status]
          /\ IF status = workload.status /\ ~newMessage
             THEN UNCHANGED stale ELSE Bump("Workload")

BugNoRequeueAfter(m) ==
    /\ pc[m] \in Outcomes
    /\ IF workload = NoObject THEN UNCHANGED <<workload, stale>> ELSE SendPatch(m)
    /\ delayed' = IF pc[m] = "Reconciled" THEN delayed ELSE delayed \cup {m}
    /\ pc' = [pc EXCEPT ![m] = "idle"]
    /\ base' = [base EXCEPT ![m] = NoObject]
    /\ UNCHANGED <<child, lastUid, cache, queued, todo, calm>>

\* Whatever the outcome, the request comes back later: RequeueAfter or backoff.
PatchStatus(m) ==
    /\ pc[m] \in Outcomes
    /\ \/ workload # NoObject /\ SendPatch(m)
       \/ (workload = NoObject \/ May("lost")) /\ UNCHANGED <<workload, stale>>
    /\ delayed' = delayed \cup {m}
    /\ pc' = [pc EXCEPT ![m] = "idle"]
    /\ base' = [base EXCEPT ![m] = NoObject]
    /\ UNCHANGED <<child, lastUid, cache, queued, todo, calm>>

-----------------------------------------------------------------------------

User == DeleteWorkload \/ \E s \in Specs : CreateWorkload(s) \/ EditSpec(s)

Cluster ==
    \/ \E k \in Kinds : CollectGarbage(k) \/ Drift(k)
    \/ \E n \in Held : Scale(n)
    \/ \E n \in Counts : ReportReady(n)

Apply(m) == \E k \in Kinds : ApplyChild(m, k) \/ FailChild(m, k)

Operator(m) ==
    \/ \E o \in Objects : Observe(m, o)
    \/ RequeueDue(m) \/ Restart(m)
    \/ Begin(m) \/ Apply(m) \/ PatchStatus(m)

Next == User \/ Cluster \/ Settle \/ \E m \in Managers : Operator(m)

\* Users and disturbances owe nothing.  Watches deliver, timers fire, a worker
\* goroutine keeps running, the garbage collector gets to every orphan.
Fairness ==
    /\ \A k \in Kinds : WF_vars(CollectGarbage(k))
    /\ \A m \in Managers :
          /\ \A o \in Objects : WF_vars(Observe(m, o))
          /\ WF_vars(RequeueDue(m))
          /\ WF_vars(Begin(m) \/ Apply(m) \/ PatchStatus(m))

Spec == Init /\ [][Next]_vars /\ Fairness

-----------------------------------------------------------------------------
(* Properties.                                                              *)

\* The Workload says: Ready=True for the generation it has now.
ReadyNow ==
    IF workload = NoObject THEN FALSE
    ELSE workload.status.ready = [reason |-> "Reconciled", gen |-> workload.gen]

\* Child k is what the present spec renders, under the present Workload.
Applied(k) ==
    IF workload = NoObject \/ child[k] = NoObject THEN FALSE
    ELSE child[k].content = Render[workload.spec][k] /\ child[k].owner = workload.uid

\* Ready=True at the current generation means that the children the API server
\* checks on every reconcile are the ones the current spec renders, however
\* stale the caches were, whichever calls failed and whenever the operator was
\* restarted (workload_controller.go:59-93, apply.go:29).  For one manager, no
\* third-party edits and no re-created Workload.
ReadyMeansApplied ==
    ReadyNow => \A k \in Rewritten \cap Rendered(workload.spec) : Applied(k)

\* A reconcile step never deletes a child nor changes the part of it that others
\* own: replicas set by the HPA and the Service's clusterIP survive every update
\* (apply.go:42-59), also one prepared from an outdated copy.
KeepsHeldFields ==
    [][\A m \in Managers : Apply(m) =>
          \A k \in Kinds : child[k] # NoObject =>
             /\ child'[k] # NoObject
             /\ child'[k].held = child[k].held]_vars

\* A reconcile step never writes a child that another controller owns, even when
\* the cache does not show that owner yet (apply.go:31, SetControllerReference).
RespectsForeignOwner ==
    [][\A m \in Managers : Apply(m) =>
          \A k \in Kinds : OwnedBy(child[k], Foreign) => child'[k] = child[k]]_vars

\* Status never runs ahead of the object and, for one object, never goes back:
\* what is recorded as observed stays observed (workload_controller.go:87).
ObservedIsMonotone ==
    [][workload # NoObject /\ workload' # NoObject =>
         /\ workload'.status.observed <= workload'.gen
         /\ workload'.uid = workload.uid =>
               /\ workload'.status.observed >= workload.status.observed
               /\ workload'.status.ready.gen >= workload.status.ready.gen]_vars

\* A Canary request is never silently ignored: while Ready=True stands for the
\* current generation, RolloutDegraded tells whether its spec asks for Canary
\* (workload_controller.go:70-78), whatever other patches hit the condition list.
CanaryIsVisible ==
    ReadyNow => workload.status.degraded =
                  [status |-> IF workload.spec \in Canary THEN "True" ELSE "False",
                   gen |-> workload.gen]

\* Everything is as the spec asks and the status says so.
StatusSettled ==
    LET s == workload.status IN
    IF workload.spec \in Unrenderable
    THEN s.ready = [reason |-> "RenderFailed", gen |-> workload.gen]
    ELSE /\ ReadyNow
         /\ s.observed = workload.gen
         /\ CanaryIsVisible
         /\ child[Deployment] # NoObject
         /\ s.replicas = child[Deployment].ready

\* Written by somebody else and owned by no Workload.
NotOurs(c) == IF c = NoObject THEN TRUE ELSE c.owner \notin Uids /\ c.content = Edited

Converged ==
    IF workload = NoObject
    THEN \A k \in Kinds : NotOurs(child[k])
    ELSE /\ StatusSettled
         /\ \A k \in Kinds : OwnedByWorkload(child[k]) => child[k].owner = workload.uid
         /\ workload.spec \notin Unrenderable =>
               \A k \in Rendered(workload.spec) : Applied(k)

\* Once disturbances stop, the children and the status reach what the spec asks
\* and stay there: outdated caches, edits of watched and unwatched children,
\* writes that were refused or whose reply was lost, and restarts between any two
\* of them leave nothing behind that is not repaired; of a deleted Workload no
\* child is left, not even one a late reconcile created or its successor does not
\* render (workload_controller.go:35-98, 117-122).
Converges == calm ~> []Converged

\* Overlapping managers converge too, and then rest: although each status patch
\* triggers every manager again (no predicate on For, workload_controller.go:119),
\* there is a time after which nothing is written, since every write makes the
\* cached copies stale.
Quiesces == calm ~> [](Converged /\ \A m \in Managers : stale[m] = {})

\* A Workload as a request: what it is and what it asks for.
Asked(w) == IF w = NoObject THEN {} ELSE {[uid |-> w.uid, spec |-> w.spec]}

Atomic == INSTANCE AtomicApply WITH
    asked <- Asked(workload),
    known <- [m \in Managers |-> Asked(cachedWorkload[m])],
    order <- [m \in Managers |-> Asked(base[m])],
    left  <- todo

\* The cached copies of children, of any age and in any number of processes, are
\* invisible: CreateOrUpdate, which reads one and writes later, has the effect of
\* one step on the live child, for an order the user has given (apply.go:29-72).
\* No update is lost, no deleted child comes back with an old one's fields.
ImplementsAtomicApply == Atomic!AtomicSpec

-----------------------------------------------------------------------------
(* What the repository says and the code does not do.                       *)

\* "all child objects applied" (workload_controller.go:88), as written: of every
\* kind.
ReadyMeansAllApplied ==
    ReadyNow => \A k \in Rendered(workload.spec) : Applied(k)
===============================================================================
