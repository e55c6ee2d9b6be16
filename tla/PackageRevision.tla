--------------------------- MODULE PackageRevision ---------------------------
(***************************************************************************)
(* The package-revision client of pkg/pkgrev, as one reconcile worker per  *)
(* Tenant runs it.  Every call to Porch is one action; between two calls   *)
(* anything else may happen.  pc[t] names the call that the worker of t    *)
(* makes next and w[t] holds the local state of that reconcile.            *)
(*                                                                         *)
(* A call that Porch refuses, that fails, or whose answer is lost after it *)
(* was carried out makes the operation return an error; Reconcile then     *)
(* writes an error status and requeues (pc "setError").                    *)
(***************************************************************************)
EXTENDS Porch, TenantAPI

CONSTANTS
    PorchMayVanish,  \* List may answer NotFound although revisions exist
    MaxFaults,       \* bound on failed calls, lost answers and crashes
    MaxEdits,        \* bound on user writes to Tenants
    MaxDrift,        \* bound on steps of other Porch clients
    MaxSourceChanges \* bound on changes of the source packages

ASSUME BoundsAssumption ==
    /\ PorchMayVanish \in BOOLEAN
    /\ MaxFaults \in Nat /\ MaxEdits \in Nat
    /\ MaxDrift \in Nat /\ MaxSourceChanges \in Nat

VARIABLES
    pc,      \* the next call of the worker of each Tenant, or "idle"
    w,       \* the local variables of that worker
    budget   \* what is left of each bound

NoKey == [repo |-> "none", pkg |-> "none", num |-> 0]

(***************************************************************************)
(* The locals of one Reconcile: the Tenant as read (cr) with its           *)
(* resourceVersion (rv), the merged package that should be there (want),   *)
(* the selected revision (sel) with the lifecycle it had when it was read  *)
(* (slc), and the revisions that Delete still has to remove (todo).        *)
(***************************************************************************)
Locals == [cr : Versions, rv : Nat, want : Bodies \cup {Absent},
           sel : Keys \cup {NoKey}, slc : Lifecycles \cup {"None"}, todo : SUBSET Keys]

NewLocal(v, n) == [cr |-> v, rv |-> n, want |-> Absent, sel |-> NoKey, slc |-> "None",
                   todo |-> {}]

DeletePCs == {"delList", "delOne", "removeFinalizer"}
ApprovePCs == {"approveGet", "propose", "approvalGet", "approvalPut"}
SyncPCs == {"srcList", "srcGet", "list", "createFirst", "getResources", "createNext",
            "getNewResources", "updateResources", "setReady"} \cup ApprovePCs
PCs == {"idle", "addFinalizer", "setError"} \cup DeletePCs \cup SyncPCs

Budgets == [fault : Nat, edit : Nat, drift : Nat, source : Nat]

WorkerTypeOK ==
    /\ pc \in [Tenants -> PCs]
    /\ w \in [Tenants -> Locals]
    /\ budget \in Budgets

WorkerInit ==
    /\ pc = [t \in Tenants |-> "idle"]
    /\ w = [t \in Tenants |-> NewLocal(Gone, 0)]
    /\ budget = [fault |-> MaxFaults, edit |-> MaxEdits, drift |-> MaxDrift,
                 source |-> MaxSourceChanges]

-----------------------------------------------------------------------------
Spend(b) ==
    /\ budget[b] > 0
    /\ budget' = [budget EXCEPT ![b] = budget[b] - 1]

Goto(t, p, loc) ==
    /\ pc' = [pc EXCEPT ![t] = p]
    /\ w' = [w EXCEPT ![t] = loc]

\* The operation returns an error to Reconcile.
Abort(t) == Goto(t, "setError", NewLocal(w[t].cr, w[t].rv))

\* The call was carried out; its answer arrives, or is lost.
Reply(t, p, loc) ==
    \/ Goto(t, p, loc) /\ UNCHANGED budget
    \/ Spend("fault") /\ Abort(t)

\* The server refuses the call.
Refuse(t) == Abort(t) /\ UNCHANGED <<revs, budget>>

-----------------------------------------------------------------------------
(***************************************************************************)
(* Delete: list all revisions of the package, then delete them one by one. *)
(* A NotFound answer to the list counts as an empty list; a NotFound       *)
(* answer to a delete is an error.                                         *)
(***************************************************************************)
\* Mutant: the loop stops one revision too early.
DeleteNextEarly(S) == IF Cardinality(S) <= 1 THEN "removeFinalizer" ELSE "delOne"

DeleteNext(S) == IF S = {} THEN "removeFinalizer" ELSE "delOne"

DeleteList(t) ==
    /\ pc[t] = "delList"
    /\ \/ /\ Goto(t, DeleteNext(Listed(t)), [w[t] EXCEPT !.todo = Listed(t)])
          /\ UNCHANGED budget
       \/ /\ PorchMayVanish
          /\ Spend("fault")
          /\ Goto(t, DeleteNext({}), [w[t] EXCEPT !.todo = {}])
    /\ UNCHANGED revs

DeleteOne(t) ==
    /\ pc[t] = "delOne"
    /\ \E k \in w[t].todo :
         LET rest == w[t].todo \ {k} IN
         \/ DeleteRev(k) /\ Reply(t, DeleteNext(rest), [w[t] EXCEPT !.todo = rest])
         \/ ~Exists(k) /\ Refuse(t)

-----------------------------------------------------------------------------
(***************************************************************************)
(* GetOrCreate: take the revision with the highest number, or create v1 if *)
(* no revision has a number; then load its resources.                      *)
(***************************************************************************)
First(t) == [repo |-> w[t].cr.spec.repo, pkg |-> t, num |-> 1]

Select(t, k) == Goto(t, "getResources", [w[t] EXCEPT !.sel = k, !.slc = revs[k].lc])

List(t) ==
    /\ pc[t] = "list"
    /\ \/ /\ \E k \in Latest(t) : Select(t, k)
          /\ UNCHANGED budget
       \/ /\ Numbered(t) = {}
          /\ Goto(t, "createFirst", w[t])
          /\ UNCHANGED budget
       \/ /\ PorchMayVanish
          /\ Spend("fault")
          /\ Goto(t, "createFirst", w[t])
    /\ UNCHANGED revs

CreateAs(t, k, p) ==
    \/ CreateRev(k) /\ Reply(t, p, [w[t] EXCEPT !.sel = k, !.slc = "Draft"])
    \/ Exists(k) /\ Refuse(t)

CreateFirst(t) ==
    /\ pc[t] = "createFirst"
    /\ CreateAs(t, First(t), "getResources")

(***************************************************************************)
(* With the resources loaded, Reconcile compares them with the wanted      *)
(* package.  A revision that differs and is not a draft is left alone and  *)
(* a new one is created; a draft is updated in place.                      *)
(***************************************************************************)
\* The last case, an error, is not met with the lifecycles that Porch has.
Approve(lc) ==
    CASE lc = "Draft"     -> "approveGet"
      [] lc = "Proposed"  -> "approvalGet"
      [] lc = "Published" -> "setReady"
      [] OTHER            -> "setError"

\* Mutant: a revision that differs is never updated in place.
CompareNew(loc, body) == IF body = loc.want THEN Approve(loc.slc) ELSE "createNext"

\* Mutant: a revision that is up to date is taken to be approved.
CompareReady(loc, body) ==
    IF body = loc.want THEN "setReady"
    ELSE IF loc.slc # "Draft" THEN "createNext"
    ELSE "updateResources"

\* Mutant: only a revision that was just created is updated.
CompareNoUpdate(loc, body) ==
    IF body # loc.want /\ loc.slc # "Draft" THEN "createNext" ELSE Approve(loc.slc)

Compare(loc, body) ==
    IF body = loc.want THEN Approve(loc.slc)
    ELSE IF loc.slc # "Draft" THEN "createNext"
    ELSE "updateResources"

GetResources(t) ==
    /\ pc[t] = "getResources"
    /\ \/ /\ Exists(w[t].sel)
          /\ Goto(t, Compare(w[t], revs[w[t].sel].body), w[t])
          /\ UNCHANGED <<revs, budget>>
       \/ ~Exists(w[t].sel) /\ Refuse(t)

-----------------------------------------------------------------------------
(***************************************************************************)
(* Create: a new draft in the Tenant's repository, numbered one above the  *)
(* selected revision (getNewRevision), whose resources are then loaded.    *)
(***************************************************************************)
\* Mutant: the revision number is not increased.
SuccessorSame(t) == [repo |-> w[t].cr.spec.repo, pkg |-> t, num |-> w[t].sel.num]

Successor(t) == [repo |-> w[t].cr.spec.repo, pkg |-> t, num |-> w[t].sel.num + 1]

CreateNext(t) ==
    /\ pc[t] = "createNext"
    /\ w[t].sel.num < MaxRev
    /\ CreateAs(t, Successor(t), "getNewResources")

GetNewResources(t) ==
    /\ pc[t] = "getNewResources"
    /\ \/ /\ Exists(w[t].sel)
          /\ Goto(t, "updateResources", w[t])
          /\ UNCHANGED <<revs, budget>>
       \/ ~Exists(w[t].sel) /\ Refuse(t)

\* Update: replace the resources of the selected revision.
UpdateResources(t) ==
    /\ pc[t] = "updateResources"
    /\ \/ PutResources(w[t].sel, w[t].want) /\ Reply(t, Approve(w[t].slc), w[t])
       \/ revs[w[t].sel].lc # "Draft" /\ Refuse(t)

-----------------------------------------------------------------------------
(***************************************************************************)
(* Approve: a draft is read again and proposed, a proposal is approved     *)
(* through the approval subresource, a published revision is left alone.   *)
(***************************************************************************)
ApproveGet(t) ==
    /\ pc[t] = "approveGet"
    /\ \/ /\ Exists(w[t].sel)
          /\ Goto(t, "propose", w[t])
          /\ UNCHANGED <<revs, budget>>
       \/ ~Exists(w[t].sel) /\ Refuse(t)

Propose(t) ==
    /\ pc[t] = "propose"
    /\ \/ ProposeRev(w[t].sel) /\ Reply(t, "approvalGet", w[t])
       \/ revs[w[t].sel].lc \notin {"Draft", "Proposed"} /\ Refuse(t)

\* updatePackageRevisionApproval: read, and approve what is still proposed.
ApprovalGet(t) ==
    /\ pc[t] = "approvalGet"
    /\ \/ /\ revs[w[t].sel].lc = "Proposed"
          /\ Goto(t, "approvalPut", w[t])
          /\ UNCHANGED <<revs, budget>>
       \/ /\ revs[w[t].sel].lc = "Published"
          /\ Goto(t, "setReady", w[t])
          /\ UNCHANGED <<revs, budget>>
       \/ revs[w[t].sel].lc \in {"Draft", "None"} /\ Refuse(t)

ApprovalPut(t) ==
    /\ pc[t] = "approvalPut"
    /\ \/ ApproveRev(w[t].sel) /\ Reply(t, "setReady", w[t])
       \/ revs[w[t].sel].lc # "Proposed" /\ Refuse(t)

PkgRevStep(t) ==
    /\ \/ DeleteList(t) \/ DeleteOne(t)
       \/ List(t) \/ CreateFirst(t) \/ GetResources(t)
       \/ CreateNext(t) \/ GetNewResources(t) \/ UpdateResources(t)
       \/ ApproveGet(t) \/ Propose(t) \/ ApprovalGet(t) \/ ApprovalPut(t)
    /\ UNCHANGED <<catalog, log>>
=============================================================================
