-------------------------------- MODULE Porch --------------------------------
(***************************************************************************)
(* Porch, the package server that the tenant controller drives.  Porch is  *)
(* not part of the repository: its operations are modelled from the calls  *)
(* that pkg/pkgrev and pkg/porch make and from the answers they handle.    *)
(*                                                                         *)
(* A package revision is identified by its repository, its package (one    *)
(* package per tenant, see packageName in Reconcile) and the number that   *)
(* getRevisionNumber reads from its revision string.  Number 0 stands for  *)
(* a revision without a number, such as "main".                            *)
(***************************************************************************)
EXTENDS TenantTypes

CONSTANTS
    Bodies,     \* contents of a merged package, up to what IsEqual tells apart
    InitBody,   \* content of a revision created with an init task
    Absent,     \* a source that Porch does not have
    MaxRev,     \* bound on revision numbers
    MaxForeign  \* bound on the numbers of revisions that other clients start

ASSUME PorchAssumption ==
    /\ MaxRev \in Nat \ {0}
    /\ MaxForeign \in Nat
    /\ InitBody \notin Bodies
    /\ Absent \notin Bodies
    /\ Absent # InitBody

VARIABLES
    revs,       \* what Porch stores for every revision key
    catalog     \* content of every source package, or Absent

porchVars == <<revs, catalog>>

Keys == [repo : Repos, pkg : Tenants, num : 0..MaxRev]

Lifecycles == {"Draft", "Proposed", "Published"}

\* own: the revision carries the Tenant as its controller owner reference.
Revs == [lc : Lifecycles \cup {"None"}, body : Bodies \cup {InitBody}, own : BOOLEAN]

NoRev == [lc |-> "None", body |-> InitBody, own |-> FALSE]

PorchTypeOK ==
    /\ revs \in [Keys -> Revs]
    /\ catalog \in [Sources -> Bodies \cup {Absent}]

PorchInit ==
    /\ revs = [k \in Keys |-> NoRev]
    /\ catalog \in [Sources -> Bodies]

Exists(k) == revs[k].lc # "None"

Owned(t) == {k \in Keys : k.pkg = t /\ Exists(k) /\ revs[k].own}

(***************************************************************************)
(* The list of package revisions, filtered on the package name by the      *)
(* callers that look for the revisions of one tenant's package.            *)
(***************************************************************************)
\* Mutant: the filter on the package name is forgotten.
ListedAll(t) == {k \in Keys : Exists(k)}

Listed(t) == {k \in Keys : k.pkg = t /\ Exists(k)}

Numbered(t) == {k \in Listed(t) : k.num > 0}

\* Mutant: the comparison of the revision numbers is turned round.
Oldest(t) == {k \in Numbered(t) : \A j \in Numbered(t) : k.num <= j.num}

\* The candidates of the "latest revision" loop; the list has no fixed order,
\* so any of several revisions with the same highest number may be taken.
Latest(t) == {k \in Numbered(t) : \A j \in Numbered(t) : j.num <= k.num}

-----------------------------------------------------------------------------
(***************************************************************************)
(* Calls that change Porch's state.  Each is enabled when Porch accepts    *)
(* the call.  A revision is created as a draft, its resources can be       *)
(* changed while it is a draft, and it is approved from proposed only.     *)
(***************************************************************************)
Main(k) == [k EXCEPT !.num = 0]

CreateRev(k) ==
    /\ ~Exists(k)
    /\ revs' = [revs EXCEPT ![k] = [lc |-> "Draft", body |-> InitBody, own |-> TRUE]]

DeleteRev(k) ==
    /\ Exists(k)
    /\ revs' = [revs EXCEPT ![k] = NoRev]

PutResources(k, b) ==
    /\ revs[k].lc = "Draft"
    /\ revs' = [revs EXCEPT ![k].body = b]

ProposeRev(k) ==
    /\ revs[k].lc \in {"Draft", "Proposed"}
    /\ revs' = [revs EXCEPT ![k].lc = "Proposed"]

\* Publishing also moves the package on the repository's main branch, which
\* Porch lists as one more revision of the package.
ApproveRev(k) ==
    /\ revs[k].lc = "Proposed"
    /\ revs' = [revs EXCEPT ![k].lc = "Published",
                            ![Main(k)] = [lc |-> "Published", body |-> revs[k].body,
                                          own |-> FALSE]]

-----------------------------------------------------------------------------
(***************************************************************************)
(* People and other clients of Porch.  They may change a draft, propose    *)
(* it, reject or approve a proposal, start a revision of their own, and    *)
(* delete one: the drift the controller polls for.  They do not propose a  *)
(* revision that has never been filled.                                    *)
(***************************************************************************)
DriftRev(k) ==
    /\ k.num > 0
    /\ \/ \E b \in Bodies : PutResources(k, b)
       \/ revs[k].lc = "Draft" /\ revs[k].body # InitBody /\ ProposeRev(k)
       \/ revs[k].lc = "Proposed" /\ revs' = [revs EXCEPT ![k].lc = "Draft"]
       \/ ApproveRev(k)
       \/ DeleteRev(k)
       \/ \E b \in Bodies :
            /\ ~Exists(k)
            /\ k.num <= MaxForeign
            /\ revs' = [revs EXCEPT ![k] = [lc |-> "Draft", body |-> b, own |-> FALSE]]
    /\ UNCHANGED catalog

\* The owner of a source package changes it, removes it or brings it back.
ChangeSource(s) ==
    /\ \E b \in Bodies \cup {Absent} :
         /\ b # catalog[s]
         /\ catalog' = [catalog EXCEPT ![s] = b]
    /\ UNCHANGED revs
=============================================================================
