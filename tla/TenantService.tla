---------------------------- MODULE TenantService ----------------------------
(***************************************************************************)
(* What the tenant controller promises, without its workers, caches and    *)
(* retries: the life of a Tenant, and the package revisions that exist on  *)
(* its behalf.  Revisions come and go only under a Tenant that is held by  *)
(* the finalizer, one number after the other; they are published from a    *)
(* filled draft and are not touched again; they all are gone before the    *)
(* Tenant is, unless its deletion policy lets them stay.  Other clients of *)
(* Porch may interfere, within the life cycle of a revision.               *)
(***************************************************************************)
EXTENDS Integers

CONSTANTS
    Tenants,
    Keys,           \* revision keys: records with fields pkg and num
    Bodies,
    InitBody,       \* the content of a revision that was never filled
    Interference    \* how many steps other clients may take

VARIABLES
    phase,    \* absent, offered by its user, managed, or removing
    policy,   \* deletion policy of the Tenant, or of the last one of its name
    rev,      \* lifecycle and content of the revisions made for the Tenants
    others    \* steps that are left to the other clients

svcVars == <<phase, policy, rev, others>>

Nothing == [lc |-> "None", body |-> InitBody]

SvcInit ==
    /\ phase = [t \in Tenants |-> "absent"]
    /\ policy = [t \in Tenants |-> "delete"]
    /\ rev = [k \in Keys |-> Nothing]
    /\ others = Interference

Made(t) == {k \in Keys : k.pkg = t /\ rev[k] # Nothing}

\* Nothing is left of a Tenant that was to be deleted with its revisions.
CleanedUp(t) == policy[t] = "delete" => Made(t) = {}

-----------------------------------------------------------------------------
\* The life of a Tenant.
Move(t, from, to) ==
    /\ phase[t] = from
    /\ phase' = [phase EXCEPT ![t] = to]
    /\ UNCHANGED <<rev, others>>

ChoosePolicy(t) == \E p \in {"delete", "orphan"} : policy' = [policy EXCEPT ![t] = p]

\* A Tenant starts without a trace of an earlier one of the same name.
Offer(t) == Move(t, "absent", "offered") /\ CleanedUp(t) /\ ChoosePolicy(t)

Withdraw(t) == Move(t, "offered", "absent") /\ UNCHANGED policy

Manage(t) == Move(t, "offered", "managed") /\ UNCHANGED policy

Retire(t) == Move(t, "managed", "removing") /\ UNCHANGED policy

Release(t) == Move(t, "removing", "absent") /\ CleanedUp(t) /\ UNCHANGED policy

Revise(t) ==
    /\ phase[t] # "absent"
    /\ ChoosePolicy(t)
    /\ UNCHANGED <<phase, rev, others>>

-----------------------------------------------------------------------------
\* The life of a package revision.
Start(k) ==
    /\ phase[k.pkg] \in {"managed", "removing"}
    /\ rev[k] = Nothing
    /\ \A j \in Made(k.pkg) : j.num < k.num
    /\ rev' = [rev EXCEPT ![k] = [lc |-> "Draft", body |-> InitBody]]

Fill(k) ==
    /\ rev[k].lc = "Draft"
    /\ \E b \in Bodies : rev' = [rev EXCEPT ![k].body = b]

Advance(k, from, to) ==
    /\ rev[k].lc = from
    /\ rev' = [rev EXCEPT ![k].lc = to]

Propose(k) == rev[k].body # InitBody /\ Advance(k, "Draft", "Proposed")

Publish(k) == Advance(k, "Proposed", "Published")

Drop(k) == rev[k] # Nothing /\ rev' = [rev EXCEPT ![k] = Nothing]

RevisionStep ==
    /\ UNCHANGED <<phase, policy, others>>
    /\ \E k \in Keys :
         \/ Start(k) \/ Fill(k) \/ Propose(k) \/ Publish(k)
         \/ phase[k.pkg] = "removing" /\ Drop(k)

\* Other clients may also reject a proposal, and delete a revision at any time.
Reject(k) == Advance(k, "Proposed", "Draft")

Interfere ==
    /\ others > 0
    /\ others' = others - 1
    /\ \/ \E k \in Keys : Fill(k) \/ Propose(k) \/ Reject(k) \/ Publish(k) \/ Drop(k)
       \/ UNCHANGED rev
    /\ UNCHANGED <<phase, policy>>

-----------------------------------------------------------------------------
SvcNext ==
    \/ \E t \in Tenants :
         Offer(t) \/ Withdraw(t) \/ Manage(t) \/ Retire(t) \/ Release(t) \/ Revise(t)
    \/ RevisionStep
    \/ Interfere

SvcSpec == SvcInit /\ [][SvcNext]_svcVars
=============================================================================
