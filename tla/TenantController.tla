-------------------------- MODULE TenantController --------------------------
(***************************************************************************)
(* The tenant controller (internal/controllers/tenant): an informer that   *)
(* lags behind the API server, the work queue that keeps one reconcile per *)
(* Tenant at a time, and Reconcile itself, composed with Porch, the API    *)
(* server, their users, and crashes of the manager process.                *)
(***************************************************************************)
EXTENDS PackageRevision

CONSTANT
    Concurrency    \* MaxConcurrentReconciles

ASSUME ConcurrencyAssumption == Concurrency \in Nat \ {0}

VARIABLES
    cached,  \* index of the version of each Tenant that the informer has
    queue,   \* the Tenants that are in the work queue
    timer    \* the Tenants with a delayed requeue pending

ctlVars == <<cached, queue, timer>>
vars == <<revs, catalog, log, pc, w, budget, cached, queue, timer>>

TypeOK ==
    /\ PorchTypeOK
    /\ LogTypeOK
    /\ WorkerTypeOK
    /\ cached \in [Tenants -> Nat]
    /\ queue \in SUBSET Tenants
    /\ timer \in SUBSET Tenants

Init ==
    /\ PorchInit
    /\ LogInit
    /\ WorkerInit
    /\ cached = [t \in Tenants |-> 1]
    /\ queue = {}
    /\ timer = {}

Cached(t) == log[t][cached[t]]

-----------------------------------------------------------------------------
(***************************************************************************)
(* The informer delivers the next version.  The event filter drops updates *)
(* that leave metadata.generation alone: only a change of the spec or the  *)
(* deletion timestamp moves it, neither the status nor a finalizer does.   *)
(***************************************************************************)
Triggers(old, new) ==
    \/ old.live # new.live
    \/ old.spec # new.spec
    \/ old.policy # new.policy
    \/ old.del # new.del

Observe(t) ==
    /\ cached[t] < Len(log[t])
    /\ cached' = [cached EXCEPT ![t] = cached[t] + 1]
    /\ queue' = IF Triggers(log[t][cached[t]], log[t][cached[t] + 1])
                THEN queue \cup {t} ELSE queue
    /\ UNCHANGED <<revs, catalog, log, pc, w, budget, timer>>

\* A delayed requeue (back-off after an error, or the poll interval) is due.
Fire(t) ==
    /\ t \in timer
    /\ timer' = timer \ {t}
    /\ queue' = queue \cup {t}
    /\ UNCHANGED <<revs, catalog, log, pc, w, budget, cached>>

-----------------------------------------------------------------------------
(***************************************************************************)
(* Reconcile.  It reads the Tenant from the informer, so the copy it works *)
(* on may be old.                                                          *)
(***************************************************************************)
AfterFinalizer(v) == IF v.del THEN "delList" ELSE "srcList"

Dequeue(t) ==
    /\ t \in queue
    /\ pc[t] = "idle"
    /\ Cardinality({x \in Tenants : pc[x] # "idle"}) < Concurrency

Begin(t) ==
    /\ Dequeue(t)
    /\ queue' = queue \ {t}
    /\ \/ ~Cached(t).live /\ UNCHANGED <<pc, w>>
       \/ /\ Cached(t).live
          /\ Cached(t).spec # NoProps
          /\ Goto(t, IF Cached(t).fin THEN AfterFinalizer(Cached(t)) ELSE "addFinalizer",
                  NewLocal(Cached(t), cached[t]))
    /\ UNCHANGED <<revs, catalog, log, budget, cached, timer>>

\* Mutant: the finalizer is set on the copy only.
AddFinalizerLocal(t) ==
    /\ pc[t] = "addFinalizer"
    /\ Goto(t, AfterFinalizer(w[t].cr), w[t])
    /\ UNCHANGED <<revs, catalog, log, budget, cached, queue, timer>>

\* AddFinalizer updates the Tenant; the server refuses an old resourceVersion.
AddFinalizer(t) ==
    /\ pc[t] = "addFinalizer"
    /\ \/ LET v == [Current(t) EXCEPT !.fin = TRUE] IN
          /\ w[t].rv = Len(log[t])
          /\ Store(t, v)
          /\ Reply(t, AfterFinalizer(v), NewLocal(v, Len(log[t]) + 1))
       \/ w[t].rv # Len(log[t]) /\ Abort(t) /\ UNCHANGED <<log, budget>>
    /\ UNCHANGED <<revs, catalog, cached, queue, timer>>

\* Without finalizers the deleted Tenant is gone, and Reconcile ends without a
\* requeue.  A Tenant that is gone already makes the update answer NotFound,
\* which may be ignored.
Finish(t) == Goto(t, "idle", NewLocal(Gone, 0))

RemoveFinalizer(t) ==
    /\ pc[t] = "removeFinalizer"
    /\ \/ /\ w[t].rv = Len(log[t])
          /\ Store(t, Gone)
          /\ \/ Finish(t) /\ UNCHANGED budget
             \/ Spend("fault") /\ Abort(t)
       \/ /\ w[t].rv # Len(log[t])
          /\ \/ Abort(t)
             \/ ~Current(t).live /\ Finish(t)
          /\ UNCHANGED <<log, budget>>
    /\ UNCHANGED <<revs, catalog, cached, queue, timer>>

(***************************************************************************)
(* createSourcePackage finds the referenced revision in the list and reads *)
(* its resources in a second call; createNewPackage and MergePackages then *)
(* compute the wanted package without further calls.                       *)
(***************************************************************************)
SourceList(t) ==
    /\ pc[t] = "srcList"
    /\ \/ catalog[w[t].cr.spec.src] # Absent /\ Goto(t, "srcGet", w[t])
       \/ catalog[w[t].cr.spec.src] = Absent /\ Abort(t)
    /\ UNCHANGED <<revs, catalog, log, budget, cached, queue, timer>>

\* Mutant: the error of the second call is dropped, and an empty package wanted.
SourceGetUnchecked(t) ==
    /\ pc[t] = "srcGet"
    /\ Goto(t, "list", [w[t] EXCEPT !.want = catalog[w[t].cr.spec.src]])
    /\ UNCHANGED <<revs, catalog, log, budget, cached, queue, timer>>

SourceGet(t) ==
    /\ pc[t] = "srcGet"
    /\ LET b == catalog[w[t].cr.spec.src] IN
       \/ b # Absent /\ Goto(t, "list", [w[t] EXCEPT !.want = b])
       \/ b = Absent /\ Abort(t)
    /\ UNCHANGED <<revs, catalog, log, budget, cached, queue, timer>>

\* Any call up to the status update fails without being carried out.
CallFails(t) ==
    /\ pc[t] \notin {"idle", "setReady", "setError"}
    /\ Spend("fault")
    /\ Abort(t)
    /\ UNCHANGED <<revs, catalog, log, cached, queue, timer>>

(***************************************************************************)
(* The status update that ends Reconcile.  It is refused if the Tenant has *)
(* changed since it was read; either way the Tenant is requeued, after the *)
(* poll interval or with back-off.                                         *)
(***************************************************************************)
EndStatus(t) ==
    IF pc[t] = "setReady" THEN "Ready" ELSE IF w[t].cr.del THEN "Unavailable" ELSE "Unknown"

\* Mutants: an error, or a success, is not requeued.
RequeueReady(t) == IF pc[t] = "setReady" THEN timer \cup {t} ELSE timer
RequeueError(t) == IF pc[t] = "setError" THEN timer \cup {t} ELSE timer

Requeue(t) == timer \cup {t}

SetStatus(t) ==
    /\ pc[t] \in {"setReady", "setError"}
    /\ \/ /\ w[t].rv = Len(log[t])
          /\ Store(t, [Current(t) EXCEPT !.status = EndStatus(t)])
          /\ UNCHANGED budget
       \/ w[t].rv # Len(log[t]) /\ UNCHANGED <<log, budget>>
       \/ Spend("fault") /\ UNCHANGED log
    /\ Finish(t)
    /\ timer' = Requeue(t)
    /\ UNCHANGED <<revs, catalog, cached, queue>>

-----------------------------------------------------------------------------
(***************************************************************************)
(* The manager process dies and is restarted, here or on another replica   *)
(* that wins the leader election: the workers, the queue and the timers    *)
(* are lost, and the new informer lists and enqueues every Tenant.  main   *)
(* connects to the API server and to Porch, registers the controller and   *)
(* starts; it exits where one of these fails, to be restarted again, so    *)
(* nothing is reconciled before all of them have succeeded.                *)
(***************************************************************************)
Restart ==
    /\ pc' = [t \in Tenants |-> "idle"]
    /\ w' = [t \in Tenants |-> NewLocal(Gone, 0)]
    /\ cached' = [t \in Tenants |-> Len(log[t])]
    /\ queue' = {t \in Tenants : Current(t).live}
    /\ timer' = {}
    /\ UNCHANGED <<revs, catalog, log>>

Crash == Spend("fault") /\ Restart

\* Reconcile dereferences spec.properties before it does anything else.
Panic(t) ==
    /\ Dequeue(t)
    /\ Cached(t).live
    /\ Cached(t).spec = NoProps
    /\ Restart
    /\ UNCHANGED budget

UserStep(t) ==
    /\ Spend("edit")
    /\ UserCreate(t) \/ UserUpdate(t) \/ UserDelete(t)
    /\ UNCHANGED <<revs, catalog, pc, w, cached, queue, timer>>

Drift ==
    /\ Spend("drift")
    /\ \E k \in Keys : DriftRev(k)
    /\ UNCHANGED <<log, pc, w, cached, queue, timer>>

SourceStep ==
    /\ Spend("source")
    /\ \E s \in Sources : ChangeSource(s)
    /\ UNCHANGED <<log, pc, w, cached, queue, timer>>

-----------------------------------------------------------------------------
Call(t) ==
    \/ AddFinalizer(t) \/ RemoveFinalizer(t)
    \/ SourceList(t) \/ SourceGet(t)
    \/ PkgRevStep(t) /\ UNCHANGED ctlVars
    \/ SetStatus(t)

Next ==
    \/ \E t \in Tenants :
         \/ Observe(t) \/ Fire(t) \/ Begin(t) \/ Panic(t) \/ Call(t) \/ CallFails(t)
         \/ UserStep(t)
    \/ Crash
    \/ Drift
    \/ SourceStep

Spec == Init /\ [][Next]_vars

(***************************************************************************)
(* Fairness: watches deliver, timers fire, a call is answered, and the     *)
(* first-in-first-out work queue hands every queued Tenant to a worker.    *)
(***************************************************************************)
Fairness ==
    \A t \in Tenants :
        /\ WF_vars(Observe(t))
        /\ WF_vars(Fire(t))
        /\ WF_vars(Call(t))
        /\ SF_vars(Begin(t) \/ Panic(t))

FairSpec == Spec /\ Fairness
-----------------------------------------------------------------------------
(***************************************************************************)
(* Safety.                                                                 *)
(***************************************************************************)

\* A Tenant with deletionPolicy "delete" leaves the API server only after every
\* package revision that was created for it is gone: Delete runs to its end
\* before RemoveFinalizer, and nothing is created before AddFinalizer, however
\* old the copy of the Tenant is and wherever the manager dies.
NoOrphan ==
    \A t \in Tenants :
        ~Current(t).live /\ GetDeletionPolicy(t) = "delete" => Owned(t) = {}

\* An interrupted Create or Update leaves a revision with the content of the
\* init task; no retry proposes or approves it before it has been filled in.
NeverPublishInit ==
    \A k \in Keys : revs[k].lc \in {"Proposed", "Published"} => revs[k].body # InitBody

\* A retry of GetOrCreate or Create, after a lost answer or a crash and in
\* whichever repository, never makes a second revision with the same number.
OwnedUnique ==
    \A t \in Tenants : \A j, k \in Owned(t) : j.num = k.num => j = k

\* Retries do not pile up drafts: a draft of the controller is always the
\* newest revision of its package, where the next GetOrCreate takes it up.
DraftIsLatest ==
    \A t \in Tenants : \A k \in Owned(t) : revs[k].lc = "Draft" => k \in Latest(t)

(***************************************************************************)
(* Action properties.                                                      *)
(***************************************************************************)

\* The status update of a reconcile says Ready and is accepted, also when the
\* Tenant has been Ready before and nothing changes.
SaysReady(t) ==
    /\ Current(t)'.status = "Ready"
    /\ \/ Current(t).status # "Ready"
       \/ pc[t] = "setReady" /\ pc'[t] = "idle" /\ w[t].rv = Len(log[t])

\* A Tenant is said to be Ready only for the spec it has at that moment, when
\* the newest revision of its package is published with the content that this
\* reconcile computed for that spec.
ReadyMeansPublished ==
    [][\A t \in Tenants : SaysReady(t) =>
         /\ w[t].cr.spec = Current(t).spec
         /\ \E k \in Latest(t) : revs[k].lc = "Published" /\ revs[k].body = w[t].want]_vars

\* The package of a Tenant that ends up Ready is in the repository that its
\* repositoryRef names.
ReadyInRepository ==
    [][\A t \in Tenants : SaysReady(t) =>
         \E k \in Latest(t) : k.repo = Current(t).spec.repo]_vars

\* The controller deletes a package revision only while its Tenant is being
\* deleted: neither an old copy of a deleted namesake nor another Tenant's
\* deletion takes revisions of a living Tenant away.
NoLossWhileLive ==
    [][\A k \in Keys : Exists(k) /\ ~Exists(k)' =>
         Current(k.pkg).del \/ budget'.drift # budget.drift]_vars

\* A Tenant with deletionPolicy "orphan" leaves its package revisions behind:
\* Delete takes none of them away.
OrphanPolicyKeeps ==
    [][\A k \in Keys : Exists(k) /\ ~Exists(k)' =>
         GetDeletionPolicy(k.pkg) # "orphan" \/ budget'.drift # budget.drift]_vars

(***************************************************************************)
(* Liveness, once users, other clients and faults have come to rest.       *)
(***************************************************************************)

\* A Tenant that is being deleted eventually is gone.
DeletionCompletes ==
    \A t \in Tenants : (Current(t).live /\ Current(t).del) ~> ~Current(t).live

\* The newest revision of the package is published with the content of the
\* source, and the Tenant says so.
InSync(t) ==
    LET src == Current(t).spec.src IN
    /\ Current(t).status = "Ready"
    /\ \E k \in Latest(t) : revs[k].lc = "Published" /\ revs[k].body = catalog[src]

Reconcilable(t) ==
    /\ Current(t).live
    /\ ~Current(t).del
    /\ Current(t).spec # NoProps
    /\ catalog[Current(t).spec.src] # Absent

\* Polling and retries bring every Tenant in sync with its source, after any
\* interruption, edit or drift.
Converges == \A t \in Tenants : <>[](Reconcilable(t) => InSync(t))
=============================================================================
