# TLA+ models of the tenant admin controller

This directory models the controller in `internal/controllers/tenant` and the
packages it is built from (`pkg/pkgrev`, `pkg/porch`, `pkg/pkgutil`,
`pkg/appresource`, `pkg/kptfile`, `pkg/namespace`), checks the models with TLC
and proves theorems about them with TLAPS. Paths are relative to the repository.

## 1. The system

A `Tenant` names a Porch repository (`repositoryRef`) and a package revision to
install (`applications.packageRef`). For each Tenant the controller keeps one
package in that repository: the referenced package, moved into the tenant's
namespace, merged with a generated package that holds the Namespace. The
package is versioned by Porch: a package revision is a draft, is proposed, and
is approved (published).

| Component | State it keeps | Operations | Hard behaviour |
|---|---|---|---|
| Tenant controller (`internal/controllers/tenant/reconciler.go`) | none between reconciles; the copy of the Tenant during one | `Reconcile`, `createSourcePackage`, `createNewPackage` | runs on a cached, possibly old copy; any call can fail; the process can die between any two calls; several Tenants at a time |
| Package-revision client (`pkg/pkgrev`) | the selected revision and its resources, for one reconcile | `GetOrCreate`, `Create`, `Delete`, `GetResources`, `Update`, `Approve` | many calls per operation, none atomic with the next; retries of what was already done |
| Porch client (`pkg/porch/porch.go`) | none | `GetPackageRevision`, `GetPackageRevisionResources` | the source can change between the two |
| Package content (`pkg/pkgutil`, `pkg/appresource`, `pkg/kptfile`, `pkg/namespace`) | none | `ResourcesToPackageBuffer`, `MergePackages`, `CreateUpdatedResource`, `IsEqual`, `BuildKptFile`, `BuildNamespace` | map iteration order; a slice that is changed while it is ranged over; write and read back must agree |
| Field replacement (`internal/controllers/tenant/utils.go`) | none | `CopyValueToTarget` | - |
| Tenant API (`api/v1alpha1`) | Tenant resources in the API server | user writes, finalizer and status updates | optimistic concurrency; optional properties |
| Package reference selector (`api/v1alpha1/tenant_interfaces.go`) | none | `IsFound` | empty fields match anything; the list is not ordered |
| Manager (`cmd/main.go`) | work queue, informer cache, leader election | start, crash, restart | everything in memory is lost, except requests that are already on their way |
| Porch and the Kubernetes API server | package revisions; Tenants | - | external; other clients use them too |

Interaction. The informer delivers versions of Tenants; the event filter lets
spec changes, creations and deletions through to the work queue, which keeps at
most one reconcile per Tenant. `Reconcile` writes the finalizer and the status to
the API server and everything else to Porch. Nothing watches Porch: the poll
interval is the only way to notice drift or a changed source.

What makes each part correct:

- a Tenant with deletion policy `delete` is gone only after its revisions are gone
  (`NoOrphan`), one with policy `orphan` leaves them (`OrphanPolicyKeeps`, which the code
  violates), its deletion completes (`DeletionCompletes`), and deletion touches nobody
  else (`NoLossWhileLive`);
- interrupted work is taken up and not repeated beside itself (`OwnedUnique`,
  `DraftIsLatest`) and is never published half done (`NeverPublishInit`);
- Ready means what it says (`ReadyMeansPublished`, `ReadyInRepository`), and every
  Tenant gets there (`Converges`);
- all of this together, step by step: the controller implements a service that can be
  stated without its workers, caches and retries (`ImplementsService`);
- what a dead manager left on the wire does no lasting harm (`OnlyStraysOutlive`);
- comparing and rewriting packages is exact and reaches a fixed point
  (`EqualMeansSame`, `RoundTrip`, `VerdictWithoutTwins`, `NeverPanics`, `SourceInstalled`);
- names other people choose do not keep the controller from coming to rest
  (`PollingSettles`).

The hazards behind these properties, each at its line, are listed in
`PROJECT.json`.

## 2. Modules

| Module | Models | Notes |
|---|---|---|
| `TenantTypes` | the fields of a Tenant that the controller reads, and its deletion policy | `NoProps` is a spec without properties |
| `Porch` | Porch, from the calls `pkg/pkgrev` and `pkg/porch` make; other Porch clients | external but for the list filters and `buildPackageRevision` |
| `TenantAPI` | Tenants in the API server as a log of versions; the users | index in the log = resourceVersion |
| `PackageRevision` | `pkg/pkgrev`: one action per call | `pc[t]` is the next call of the worker of t, `w[t]` its locals |
| `TenantController` | informer, event filter, work queue, `Reconcile`, crashes; composition of all of the above; the properties | |
| `TenantService` | the abstract specification: the life of a Tenant and of the revisions made for it | no workers, caches or retries |
| `TenantRefinement` | the refinement mapping from `TenantController` to `TenantService` | |
| `MCTenantController` | symmetry for TLC | |
| `LateRequests` | `TenantController` with requests to Porch that outlive the manager that sent them | |
| `MCLateRequests` | root module of its run | |
| `TenantControllerProofs` | proofs of `TypeOK` and `NoOrphan` | |
| `PublishProofs`, `NumberProofs` | proofs of `NeverPublishInit` and of `OwnedUnique` | build on the type invariant |
| `RefinementProofs` | proof of `ImplementsService` | builds on the three above and `TenantRefinement` |
| `QuietProofs` | proofs of `DraftIsLatest`, `ReadyMeansPublished` and `NoLossWhileLive` | without other Porch clients |
| `LateProofs` | proof of `OnlyStraysOutlive` | builds on `LateRequests` and `TenantControllerProofs` |
| `PackageContent` | the data behind `body` and `want`: merge, compare, rewrite, poll | independent of the others |
| `MCPackageContent` | the documents TLC tries | |
| `ContentProofs` | proofs of the five properties of `PackageContent` | |
| `PackageSelection` | names: `IsFound`, `getRevisionNumber`, `getNewRevision`, and the reconciles that depend on them | independent of the others |
| `MCPackageSelection` | the revision strings and references TLC tries | |
| `SelectionProofs` | what `getNewRevision` computes; proof of `SelectionTypeOK` | |

### From code to actions

Every remote call is one action, and anything may happen between two of them.

| Code | Action (`pc` before it) |
|---|---|
| `client.Get`, `pkgrev.New` | `Begin` (idle); `Panic` if there are no properties |
| `AddFinalizer` | `AddFinalizer` (addFinalizer); skipped when the copy has it |
| `pr.Delete` | `DeleteList` (delList), `DeleteOne` (delOne) per revision |
| `RemoveFinalizer` | `RemoveFinalizer` (removeFinalizer) |
| `createSourcePackage` | `SourceList` (srcList), `SourceGet` (srcGet) |
| `pr.GetOrCreate` | `List` (list), `CreateFirst` (createFirst), `GetResources` (getResources) |
| `IsEqual`, lifecycle test | `Compare`, inside `GetResources` |
| `pr.Create` | `CreateNext` (createNext), `GetNewResources` (getNewResources) |
| `pr.Update` | `UpdateResources` (updateResources) |
| `pr.Approve` | `ApproveGet`, `Propose`, `ApprovalGet`, `ApprovalPut` |
| `Status().Update` and the return | `SetStatus` (setReady, setError), which sets the requeue timer |

A call has three ways to go wrong: the server refuses it (`Refuse`), it fails
without being carried out (`CallFails`), or it is carried out and its answer is
lost (the second disjunct of `Reply`). In all three `Reconcile` writes an error
status and requeues (`Abort`). A status update with an old resourceVersion is
refused; the requeue happens anyway, as the code returns an error.

The deletion policy (`spec.lifecycle.deletionPolicy`, `delete` by default) is inlined into the
Tenant by `tenant_types.go:83`. Users choose it from `Policies` and may change it at any time. No
action of the controller depends on it, as `Reconcile` does not read it; the properties
about deletion do: `GetDeletionPolicy(t)` is the policy of a Tenant, and of one that is gone
the policy it had last. Its sibling `deploymentPolicy` (`active` or `planned`) is not read either;
the CRD does not say what becomes of the package of a planned Tenant, so nothing is
stated about it, and the properties speak of active Tenants.

`Approve` has a default branch for a lifecycle it does not know. It is in the model, and no
state reaches it: the Porch API that `go.mod` names has three lifecycles.

Data. The contents of a package are model values (`Bodies`): two are equal when
`IsEqual` says so, which is what `PackageContent` justifies (`EqualMeansSame`,
`RoundTrip`) for sources whose resources stay distinct. `InitBody` is the content
after Porch's init task. A revision string is its number, 0 for strings without
one such as `main`. Contents depend on the source only, since everything else in
the merged package is a function of the Tenant's name.

`PackageContent` keeps the directory and name of every file, in their sort order,
and of each document its kind, namespace and the one field the controller
rewrites. `IsEqual` is modelled step by step, with the slice's array and length
kept apart, because Go's `range` evaluates the slice once while the body removes
elements from the same array. Sources hold no document twice, but two of them may
become equal in the tenant's namespace ("twins"), since `createSourcePackage` overwrites
the field in which they differ. `NoTwins` excludes that where a property needs it;
`VerdictWithoutTwins` only excludes them in the stored revision, since `IsEqual` cuts out of
that one. `InOrder` is what `sort.Strings` does to a set of keys: the k-th element is the
one with k - 1 others before it. `ResourcesToPackageBuffer` reads the documents of the KRM
files (`Slots`) in that order, which is that of the files and of the places in them.

`PackageSelection` keeps of a revision string what the code can tell: whether it starts
with `v`, what `Atoi` makes of it without its `v`s, and whether it is spelled the way
`Itoa` would. `getRevisionNumber` wraps negative numbers to the upper half of `uint64`, and
`getNewRevision` wraps at the largest `int`; `MaxInt` is 2^63 - 1 in the code and 3 in the run.
The calls of one reconcile that change a revision are one step there (`Complete`); what
may happen between them is the subject of `PackageRevision`. Publishing also sets the `main`
revision of the package (`Publish`), that of the Tenant's own package too, as `ApproveRev` does
in `Porch`.

### Late requests

`LateRequests` adds to `TenantController` what a crash or a change of leader can leave on
the wire: `Leave` is a crash in which one request that changes Porch (Create, Update,
propose, approve or Delete) has been sent but not carried out, and `Arrive` carries it out
at any later time, or never. Create and Delete carry no precondition. The objects that
`pkgrev.go:184` and `pkgrev.go:205` send (Update and the proposal) carry the resourceVersion they
were read with, by which Porch may refuse them once the revision has changed; the model
leaves that check out and lets more requests through than Porch would. A request that Porch refuses at that moment stays pending and may still
arrive later, which covers retries of the transport. Writes of Tenants carry a
resourceVersion, so that a late one is refused once anything else was written, and before
that it is the lost answer of `Reply`.

What holds with late requests is weaker: `OnlyStraysOutlive` replaces `NoOrphan`, and only the
liveness properties carry over in full. A late Create can violate `NoOrphan`, `OwnedUnique`
and `DraftIsLatest`, a late proposal can violate `NeverPublishInit`, and a late
Delete can remove a revision between its approval and the Ready status. `Converges` says
that the next polls repair all of these while the Tenant lives.

### The abstract service

`TenantService` states the promise: a Tenant is absent, offered, managed (the finalizer is
set) or removing; revisions are started only while it is managed or removing and each with
a number above all the others; they are proposed only when filled, published only when
proposed, and not written after that; they are dropped only while it is removing; and, if
its deletion policy is `delete`, it is absent again only when none is left, so that a Tenant
starts without a trace of such a namesake (`CleanedUp`). Under policy `orphan` the service may
leave revisions behind, and does not promise to: that is `OrphanPolicyKeeps`, which
`MCOrphanPolicy` shows to be violated. Other clients of Porch have `Interfere`, which the mapping ties to the model's
drift budget: a step of the controller cannot be explained as interference.

`TenantRefinement` maps the stored Tenants to phases and the revisions with the Tenant as owner
to `rev`, and `GetDeletionPolicy` to `policy`. A step of a worker that is not visible there (a read, a refused or failed call,
a status update) is a stuttering step.

## 3. Runs

All runs end within about two minutes on two workers.

| Run | Shows | Bounds |
|---|---|---|
| `MCCrash` | `TypeOK`, `DraftIsLatest`, `ReadyMeansPublished` | 1 Tenant, 2 repositories, 2 contents, 2 faults, 3 edits (properties optional), 1 source change, 3 revision numbers |
| `MCTenants` | `NoLossWhileLive` | 2 Tenants and 2 workers, 1 fault, 4 edits: delete one, recreate it, while the other lives |
| `MCDrift` | `NoOrphan`, `NeverPublishInit`, `OwnedUnique`, `ImplementsService` | 1 Tenant, 2 repositories, 1 fault, 3 edits, 1 step of another Porch client |
| `MCLive` | `DeletionCompletes`, `Converges` | fairness; 1 Tenant, 1 fault, 3 edits, 1 foreign step, 1 change of the source, lists that answer NotFound, 4 revision numbers |
| `MCLate` | `OnlyStraysOutlive`, `DeletionCompletes`, `Converges` | fairness; 1 Tenant, 1 crash with a request left behind, 3 edits, 2 changes of the source, 4 revision numbers |
| `MCContent` | `ContentTypeOK`, `SourceInstalled`, `EqualMeansSame`, `RoundTrip`, `VerdictWithoutTwins` | all sources of up to 2 documents in each of 2 files, twins included, 1 change of the source at any moment; source directory sorting before or after `namespace`, or empty |
| `MCSelection` | `SelectionTypeOK`, `PollingSettles` | fairness; integers of 3 bits, 2 repositories, 7 revision strings (`main`, `1`, `v1`, `v01`, `v3`, `v-2`, `v-1`), 3 references (complete, without revision, revision only), Porch empty or with a package at the start, 2 steps of other people |

The bounds are the `Max...` constants. A fault is a failed call, a lost answer or
a crash; two of them reach a failure of the recovery from a failure. Three edits
allow create, delete, recreate; four allow that beside a second Tenant. Three
revision numbers allow v1, a successor and one more. `MaxRev` stops a worker that
would create a revision beyond it (`CreateNext` is not enabled); `MCLive` has enough
numbers, as a worker that stopped there would violate its properties. It has one
repository; moves between repositories are in `MCCrash` and `MCDrift`. `MCLate` has one repository
as well: two of them also hold but take about five minutes. Its two changes of the source
let a late Update carry a content that is outdated twice over. Three bits are enough for
`MCSelection` to have both ends: `v3` is the largest int, its successor `v-4` the smallest,
and `v-1` the largest number of all. With a source in Porch from the start (`Initial`), two
steps of other people place a revision in the Tenant's package and change the source, or
remove either. The runs other than `MCOrphanPolicy` have policy `delete` only, which makes no
difference to what the controller does. With users who choose between both policies and
change them, `NoOrphan` and `ImplementsService` also hold (`MCDrift` with `Policies` = {"delete",
"orphan"} and one repository: 0.9 million states); the theorems of section 5 are for any `Policies`.

`PollingSettles` has two preconditions. `Unambiguous`: the reference matches one package
revision, of another package than the Tenant's. If it matches several, the first of an
unordered list is taken, and polls may alternate between two sources and publish a revision
each time. A reference with nothing but the revision `main` becomes ambiguous when the Tenant's
own package is published, and may then select that package as its source; what installing a
package into itself does to its content is not modelled. `Room`: nobody has used
the last number. After `v-1`, the largest of all, `getNewRevision` starts over with `v0`,
which has no number and is never selected, so that the package stays as it is.

Deadlock is not checked in the runs of `TenantController`: the system is at rest
when no Tenant exists and the bounds are used up.

Each property of a passing run is also shown to depend on the code: `PROJECT.json`
names for each a mutated definition under which TLC finds it violated.

### Disagreements between code and documentation

| Run | What TLC shows |
|---|---|
| `MCRepoMove` violates `ReadyInRepository` | `GetOrCreate` selects by package name in any repository (`pkgrev.go:107`). After `repositoryRef` changes, the Tenant is Ready with its package in the old repository only. |
| `MCNoProps` violates `DeletionCompletes` | `Reconcile` dereferences the optional properties first (`reconciler.go:127`); a Tenant that loses them crashes the manager at each reconcile and cannot be deleted. |
| `MCVanishOrphan` violates `NoOrphan` | A NotFound answer to the list counts as an empty list (`pkgrev.go:76`): the finalizer is removed and the revisions stay. |
| `MCOrphanPolicy` violates `OrphanPolicyKeeps` | The CRD says that `deletionPolicy: orphan` keeps the external resource (`config/crd/bases/admin.yndd.io_tenants.yaml:77-79`). `Reconcile` does not read it (`reconciler.go:146-165`) and deletes the revisions of every Tenant that is deleted. |
| `MCNestedPanic` violates `NeverPanics` | Two resources that are equal but for annotations make `IsEqual` slice out of bounds (`resource.go:71`). The package contexts of nested packages become equal when `createSourcePackage` overwrites `data.name`. In other positions the same pair makes an unchanged package look different (`RoundTrip` fails too), so that each poll publishes one more revision. A revision that was written with such a pair keeps it, so the panic can outlast the repair of the source. |

## 4. Fairness

`FairSpec` assumes, for each Tenant: weak fairness of `Observe` (watches deliver),
of `Fire` (a delayed item of the work queue becomes ready), and of `Call` (a
running reconcile goes on), and strong fairness of `Begin` or `Panic`. Strong
fairness is needed because `Begin` is disabled while other Tenants hold all workers
and enabled again in between; the work queue is first in, first out, so a queued
Tenant does get a worker. Users, other clients, faults and crashes are not fair:
they are bounded and may stop at any time. Nothing is assumed of the answers:
a call may be refused as often as the state makes the server refuse it.

`LateFairSpec` assumes the same, and nothing of `Leave` and `Arrive`: a late request may be
lost. `PackageSelection` assumes weak fairness of the steps of a reconcile together, which is
what the requeue after every reconcile (`reconciler.go:259`) gives.

## 5. Proofs

The proof modules prove, for every set of Tenants, repositories, sources and
contents and all bounds (from the `ASSUME`s of the modules only):

- `TypeCorrect`: `Spec => []TypeOK`. `TypeOK` is not inductive: that a worker's next
  call has the right type needs that the selected revision was chosen before it is
  used. `TypeInv` adds `LogInv` (the informer's version exists; a version that is not
  live is `Gone`; a deletion timestamp implies the finalizer), `ReadInv` (the copy of
  a worker is a version of the log and fits what the worker does) and `SelInv`
  (wanted content and selected revision are set where they are used).
- `NoOrphanCorrect`: if lists do not answer NotFound, `Spec => []NoOrphan`. As the code
  treats both policies alike, the proof does too: lemma `NothingLeft` has no condition on
  the policy, the property, which states what is promised, has. The
  invariant `OrphanInv` says why stale copies do no harm. `Holding`: while revisions of
  a Tenant exist, or its worker is about to create or fill one, the stored Tenant has
  the finalizer. `DeleteInv`: what `Delete` has not deleted yet is still on its list,
  and the list is empty when the finalizer is removed. `Kept`: as long as a version
  with the finalizer and without deletion timestamp is in the informer or on its way,
  the stored Tenant has the finalizer; so a worker that starts from an old copy works
  under the finalizer. `Kept` is the heart: it holds because only a worker that read
  a deleted version removes the finalizer, and the informer is then past every
  version without the timestamp.
- `NeverPublishInitCorrect` (`PublishProofs`): `Spec => []NeverPublishInit`, also when lists
  answer NotFound. `FillInv` adds that the revision selected by a worker in `ApprovePCs` is
  filled or gone: the comparison found it equal or `Update` has just written it, and
  until the approval only other clients can touch it, who never empty it.
- `OwnedUniqueCorrect` (`NumberProofs`): if lists do not answer NotFound,
  `Spec => []OwnedUnique`. `NumInv` adds what the list told the worker (`Known`): it owns
  nothing when it creates v1, and nothing above the selected revision when it creates
  the next. This outlives interference, as other clients never create owned revisions.

- `RefinementCorrect` (`RefinementProofs`): if lists do not answer NotFound,
  `Spec => ImplementsService`: `TenantController` implements `TenantService`, with other
  clients, faults and crashes. Every action is shown to be a step of the service or a
  stutter, from the invariants above and three more. `Doomed`: while the finalizer is set,
  a version with a deletion timestamp that the informer has or still has to deliver belongs
  to the current Tenant. `Entitled`: a worker that deletes revisions does so for a Tenant
  that is being deleted, and the finalizer is added from a copy that came from the
  informer; so `Drop` happens in phase removing only, and the finalizer of one Tenant is not
  added by a copy of its namesake. `CleanInv` and `NoOwnMain`: what has an owner exists, and a
  branch (number 0) has none. The policy of the service changes with the writes of users only
  (`Chooses`, `PolicyStays`). `OrphanInv` gives `Offer` and `Release` that no revision is left,
  `Known` gives `Start` a number above all others, and `FillInv` gives `Propose` its guard.
- `DraftIsLatestCorrect`, `ReadyMeansPublishedCorrect` and `NoLossWhileLiveCorrect`
  (`QuietProofs`): if lists do not answer NotFound and no other client changes packages
  (`MaxDrift = 0`), `Spec` implies the three properties. `Tidy`: the numbered revisions of a
  package are the controller's, and a draft is the latest. `Aim`: the revision that a
  worker has selected is still the latest, with the lifecycle it read, and from `Approve` on
  with the content it wants, until Ready is written, on a Tenant that was Ready before as
  well (`SaysReady`). For `NoLossWhileLive`, `Covered`: while
  any revision of the package exists, `main` included, the stored Tenant has the finalizer,
  and what `Delete` has not deleted yet is on its list; with `Entitled` a deletion then
  belongs to the Tenant that is there. The condition on other clients is needed. Their drafts
  and changes disturb `DraftIsLatest` and `ReadyMeansPublished` directly. As to
  `NoLossWhileLive`: after a deletion completes, a second reconcile from the deleted copy may
  delete a revision that another client has put in the package meanwhile. For the revisions
  that the controller made, `RefinementCorrect` has no such condition: they are dropped in
  phase removing or by interference only.
- `OnlyStraysOutliveCorrect` (`LateProofs`): if lists do not answer NotFound,
  `LateSpec => []OnlyStraysOutlive`, for any bound on late requests. The argument of
  `NoOrphanCorrect` is made for an arbitrary part of a Tenant's owned revisions to which only
  its worker adds (`Safe`, `Joins`, lemma `SafeNext`); `NoOrphan` takes all of them, and here
  the part is `Mine`, the owned revisions that no late Create made. A late request never adds
  to `Mine`, and removing from it does no harm.
- `ContentTypeCorrect`, `EqualMeansSameCorrect`, `RoundTripCorrect` and
  `VerdictWithoutTwinsCorrect` (`ContentProofs`): `Spec` implies each of them, for any
  set of names in the documents (`Names`), any number of documents in each of the two files of
  a source, and any number of changes. A source holds no document twice, so `Names` bounds how
  many there can be. The lemmas about the operators
  come first: `InOrder` lists a finite set, each element once; merging yields the documents of
  both sub-packages, whichever comes first; and what `CreateUpdatedResource` writes is what
  `ResourcesToPackageBuffer` reads back, each document as often. The invariant `ContentInv`
  follows the loops of `IsEqual`. `Accounted`: what was matched was in the revision, and what
  was in the revision was matched or is still in the slice. `CutOnce`: without twins in
  the revision a resource is cut out once, and nothing that the inner loop still looks at,
  the stale place beyond the new end included, equals it. `Pending`: if both sides have the
  same documents, each once, everything that is still to be found is still there. The
  proof needs no induction over data, as `IsEqual` is a state machine here and sorting is
  defined by counting.
- `SourceInstalledCorrect` (`ContentProofs`): `Spec => []SourceInstalled`, if no source package is
  called `namespace`. Of one that is, it is false: the map of sub-packages has that key for the
  generated package (`reconciler.go:186-189`), the source is dropped, and the Tenant turns Ready
  without it. TLC shows it when directory 2 is added to `SrcDirs` in `MCContent.cfg`.
- `SuccessorCorrect` (`SelectionProofs`): for integers of every width,
  `getRevisionNumber(getNewRevision(r))` is the number after that of `r`, also where `int`
  turns negative, and 0 after the last one (see `Room`). `SelectionTypeCorrect`:
  `Spec => []SelectionTypeOK`, whatever other people name their revisions.

One lemma per action or group of actions shows preservation; `StoreLog`, `GotoEffect`,
`PkgRevOutcome` and `OwnedShrinks` say once what writes, worker steps and Porch calls change.

Every invariant and action property of a passing run is thus proved under the conditions
stated. The condition that lists do not answer NotFound (`~PorchMayVanish`) is the subject of
`MCVanishOrphan`; the runs `MCCrash`, `MCTenants`, `MCDrift` and `MCLate` make it as well.

Only model-checked: the liveness properties `DeletionCompletes`, `Converges` and
`PollingSettles`, since fairness is outside this prover, and the properties that the last five
runs show to be violated.

## 6. Not modelled, and assumptions

- Porch: resources can be changed in drafts only; approval is accepted for proposed
  revisions only; a revision name is unique; contents are stored as written (if Porch
  added files on saving, `RoundTrip` would not carry over); publishing also shows the
  package as revision `main`, which has no number.
- Other Porch clients do not propose a revision that was never filled, and start
  revisions with numbers up to `MaxForeign`.
- One manager is active at a time, as `--leader-elect` in the shipped manifests
  provides (`cmd/main.go:67` has it off by default; two managers that reconcile the same
  Tenant at the same time are not modelled). A call takes effect before its worker's next
  step or not at all, except for the requests of `LateRequests`, of which a crash leaves at
  most one: with one worker no more are on their way.
- A panic of `IsEqual` ends the manager like any crash; in `TenantController` it is one of the
  faults of `Crash`, which may happen at the comparison too, and does not recur.
- A restarted informer lists the latest versions. No other finalizers are set on
  Tenants.
- `AddFinalizer` does nothing when the copy has the finalizer; `RemoveFinalizer` on a
  Tenant that is gone may or may not report the NotFound answer.
- In `PackageContent`, names of directories sort after `Kptfile`, so the root Kptfile is
  read first; every document has a path annotation, so `getPath`'s fallback is not
  reached. An update of a new revision is modelled on the files of the old one: both
  hold the same non-KRM files, those of the init task.
- Revisions carry an owner reference to their Tenant; the Kubernetes garbage collector is
  not modelled, neither where it would remove what `Delete` left nor where it would remove
  what policy `orphan` keeps.
- Not modelled, and why: `pkg/porch/client.go` (builds clients, a scheme and a REST mapper;
  it keeps no state, and its errors make `main` exit, which is `Restart`); flags, log set-up,
  probes and the profiler in `cmd/main.go` (no effect on Tenants or packages); generated deep
  copies and scheme registration; the manifests; events and logs; `SetFieldValue` with a
  delimiter and `ShouldCreateField` with options (`createSourcePackage`, the only caller,
  passes none, so that code is not reached); the accessors of `tenant_interfaces.go` and the
  fields of a Tenant that no code reads.

## 7. Plan

Done: the core (`TenantTypes`, `Porch`, `TenantAPI`, `PackageRevision`,
`TenantController`), `PackageContent`, `PackageSelection`, `LateRequests`, the abstract
`TenantService` with its refinement, and the theorems of section 5.

Next, proving more:

1. What of `ReadyMeansPublished` and `NoLossWhileLive` holds with other clients: for the
   revisions that the controller made, from `DoomInv` and `FillInv`.
2. Which safety properties besides `OnlyStraysOutlive` survive late requests once revisions
   made or changed by them are set apart, along the lines of `Mine`.
3. In `PackageSelection`, that a new revision outranks all that are listed while there is
   `Room`, the safety part of `PollingSettles`.
