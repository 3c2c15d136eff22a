------------------------------ MODULE AtomicApply ------------------------------
(***************************************************************************)
(* The operator as it reads when CreateOrUpdate is taken at its word       *)
(* (operator/internal/controller/apply.go): a process that has an order, a *)
(* Workload as it was at some time, creates a child that is not there, or  *)
(* sets the owner and the rendered content of the one that is, in one      *)
(* step.  There are no caches of children here, no resourceVersions and no *)
(* work queue.  WorkloadOperator implements this with copies of any age.   *)
(*                                                                         *)
(* What is asked for, known or ordered is a set of at most one request.    *)
(***************************************************************************)
EXTENDS Naturals

CONSTANTS Managers, Kinds, Specs, Render, Unrenderable, Rewritten, Contents, Nothing,
          Held, Assigned, Counts, NoObject, MaxUid

VARIABLES
    asked,     \* the request: uid and spec of the Workload there is
    lastUid,   \* uids given to requests so far
    child,     \* the children
    known,     \* per manager: the request as it last heard of it
    order,     \* per manager: the request it is carrying out
    left       \* per manager: the children of that request still to apply

orders     == <<known, order, left>>
atomicVars == <<asked, lastUid, child, orders>>

NoOwner == 0
Foreign == MaxUid + 1

\* What a child can be.
Child == [owner : 0..Foreign, content : Contents, held : Held, ready : Counts]

AtomicInit ==
    /\ asked = {}
    /\ lastUid = 0
    /\ child = [k \in Kinds |-> NoObject]
    /\ known = [m \in Managers |-> {}]
    /\ order = [m \in Managers |-> {}]
    /\ left = [m \in Managers |-> {}]

-----------------------------------------------------------------------------
(* Users ask for one thing at a time.                                       *)

Ask(s) ==
    /\ asked = {}
    /\ lastUid < MaxUid
    /\ lastUid' = lastUid + 1
    /\ asked' = {[uid |-> lastUid + 1, spec |-> s]}
    /\ UNCHANGED <<child, orders>>

Reword(s) ==
    /\ \E r \in asked : asked' = {[uid |-> r.uid, spec |-> s]}
    /\ UNCHANGED <<lastUid, child, orders>>

Withdraw ==
    /\ asked' = {}
    /\ UNCHANGED <<lastUid, child, orders>>

\* Whoever else writes child k, the garbage collector included, may do anything
\* but put it under a Workload.
Others(k) ==
    /\ \E c \in Child \cup {NoObject} :
          /\ \/ c = NoObject
             \/ c.owner \in {NoOwner, Foreign}
             \/ (child[k] # NoObject /\ c.owner = child[k].owner)
          /\ child' = [child EXCEPT ![k] = c]
    /\ UNCHANGED <<asked, lastUid, orders>>

-----------------------------------------------------------------------------
(* The operator.                                                            *)

Learn(m) ==
    /\ known' = [known EXCEPT ![m] = asked]
    /\ UNCHANGED <<asked, lastUid, child, order, left>>

\* The process ends, whatever it was doing; the next one knows what is asked for.
StartAnew(m) ==
    /\ known' = [known EXCEPT ![m] = asked]
    /\ order' = [order EXCEPT ![m] = {}]
    /\ left' = [left EXCEPT ![m] = {}]
    /\ UNCHANGED <<asked, lastUid, child>>

\* An order that does not render has no children to apply.
Take(m) ==
    /\ order[m] = {}
    /\ \E r \in known[m] :
          /\ order' = [order EXCEPT ![m] = {r}]
          /\ left' = [left EXCEPT ![m] = IF r.spec \in Unrenderable THEN {}
                                         ELSE {k \in Kinds : Render[r.spec][k] # Nothing}]
    /\ UNCHANGED <<asked, lastUid, child, known>>

\* The child becomes what the order asks for; what others own of it stays, and so
\* does a child that another controller owns.
Write(m, k) ==
    \E r \in order[m] :
       \/ /\ child[k] = NoObject
          /\ \E h \in Assigned[k] :
                child' = [child EXCEPT ![k] = [owner |-> r.uid, content |-> Render[r.spec][k],
                                               held |-> h, ready |-> 0]]
       \/ /\ child[k] # NoObject
          /\ child[k].owner # Foreign
          /\ child' = [child EXCEPT ![k] = [@ EXCEPT !.owner = r.uid,
                                                     !.content = Render[r.spec][k]]]

\* A child is applied: written, or, when the API server adds nothing to what is
\* rendered, passed over because it was right when last seen.
ApplyOne(m, k) ==
    /\ k \in left[m]
    /\ Write(m, k) \/ (k \notin Rewritten /\ UNCHANGED child)
    /\ left' = [left EXCEPT ![m] = @ \ {k}]
    /\ UNCHANGED <<asked, lastUid, known, order>>

\* The rest of the order is dropped at an error, which may come after a write.
GiveUp(m, k) ==
    /\ k \in left[m]
    /\ Write(m, k) \/ UNCHANGED child
    /\ left' = [left EXCEPT ![m] = {}]
    /\ UNCHANGED <<asked, lastUid, known, order>>

\* Only an order with nothing left is over.
Finish(m) ==
    /\ left[m] = {}
    /\ order' = [order EXCEPT ![m] = {}]
    /\ UNCHANGED <<asked, lastUid, child, known, left>>

-----------------------------------------------------------------------------

AtomicNext ==
    \/ \E s \in Specs : Ask(s) \/ Reword(s)
    \/ Withdraw
    \/ \E k \in Kinds : Others(k)
    \/ \E m \in Managers :
          \/ Learn(m) \/ StartAnew(m) \/ Take(m) \/ Finish(m)
          \/ \E k \in Kinds : ApplyOne(m, k) \/ GiveUp(m, k)

AtomicSpec == AtomicInit /\ [][AtomicNext]_atomicVars
===============================================================================
