-------------------------- MODULE TenantRefinement --------------------------
(***************************************************************************)
(* The tenant controller implements TenantService: the Tenants in the API  *)
(* server give the phases, the revisions in Porch that carry a Tenant as   *)
(* their owner give the revisions.                                         *)
(***************************************************************************)
EXTENDS TenantController

PhaseOf(v) ==
    CASE ~v.live         -> "absent"
      [] v.live /\ v.del -> "removing"
      [] v.live /\ ~v.del /\ v.fin  -> "managed"
      [] v.live /\ ~v.del /\ ~v.fin -> "offered"

OwnRev(r) ==
    IF r.own THEN [lc |-> r.lc, body |-> r.body] ELSE [lc |-> "None", body |-> InitBody]

phaseBar == [t \in Tenants |-> PhaseOf(Current(t))]
policyBar == [t \in Tenants |-> GetDeletionPolicy(t)]
revBar == [k \in Keys |-> OwnRev(revs[k])]
othersBar == budget.drift

Service == INSTANCE TenantService WITH
    Interference <- MaxDrift, phase <- phaseBar, policy <- policyBar, rev <- revBar,
    others <- othersBar

\* Every step of Reconcile and of its environment, from whatever old copy of
\* the Tenant it is taken and after any fault or crash, is a step of the
\* service or changes nothing that the service shows.
ImplementsService == Service!SvcSpec
=============================================================================
