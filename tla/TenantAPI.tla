------------------------------ MODULE TenantAPI ------------------------------
(***************************************************************************)
(* Tenant resources as the Kubernetes API server keeps them.  Every        *)
(* accepted write appends a version; the index of a version is its         *)
(* resourceVersion, and a write that carries another one than the latest   *)
(* is refused by the server.                                               *)
(***************************************************************************)
EXTENDS TenantTypes, Sequences

VARIABLE
    log          \* log[t]: the versions of Tenant t, oldest first

LogTypeOK ==
    /\ log \in [Tenants -> Seq(Versions)]
    /\ \A t \in Tenants : Len(log[t]) > 0

LogInit == log = [t \in Tenants |-> <<Gone>>]

Current(t) == log[t][Len(log[t])]

\* The deletion policy of Tenant t; of one that is gone, the policy it had last.
GetDeletionPolicy(t) ==
    IF Current(t).live \/ Len(log[t]) = 1 THEN Current(t).policy
    ELSE log[t][Len(log[t]) - 1].policy

\* The API server stores v as the next version; a write that changes nothing
\* leaves the resourceVersion alone.
Store(t, v) ==
    log' = IF v = Current(t) THEN log ELSE [log EXCEPT ![t] = Append(log[t], v)]

-----------------------------------------------------------------------------
(***************************************************************************)
(* Writes of the users.  Deleting a Tenant removes it at once unless it    *)
(* has a finalizer; then it only gets its deletion timestamp.              *)
(***************************************************************************)
UserCreate(t) ==
    /\ ~Current(t).live
    /\ \E s \in UserSpecs, p \in Policies :
         Store(t, [live |-> TRUE, spec |-> s, policy |-> p, del |-> FALSE, fin |-> FALSE,
                   status |-> "None"])

UserUpdate(t) ==
    /\ Current(t).live
    /\ \E s \in UserSpecs, p \in Policies :
         /\ s # Current(t).spec \/ p # Current(t).policy
         /\ Store(t, [Current(t) EXCEPT !.spec = s, !.policy = p])

UserDelete(t) ==
    /\ Current(t).live
    /\ ~Current(t).del
    /\ Store(t, IF Current(t).fin THEN [Current(t) EXCEPT !.del = TRUE] ELSE Gone)
=============================================================================
