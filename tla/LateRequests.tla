---------------------------- MODULE LateRequests ----------------------------
(***************************************************************************)
(* Requests to Porch that outlive their sender.  When the manager dies, or *)
(* loses its lease and exits, a request that it has just sent is still on  *)
(* its way; it may be carried out at any later time, beside the work of    *)
(* the next leader, or be lost.  Porch may take any request as it comes:   *)
(* Create and Delete name a revision and nothing else.  The objects of the *)
(* updates carry the resourceVersion they were read with; a Porch that     *)
(* refuses an old one leaves behaviours out.  Writes of Tenants carry a    *)
(* resourceVersion, as everywhere.                                         *)
(***************************************************************************)
EXTENDS TenantController

VARIABLES
    late,    \* requests on their way whose sender is gone
    strays   \* the revisions that exist because a late Create was carried out

lateVars == <<late, strays>>

\* The request that the worker of t has on the wire, if its call changes Porch.
Requests(t) ==
    LET req(op, k) == [op |-> op, key |-> k, body |-> w[t].want] IN
    CASE pc[t] = "createFirst"     -> {req("create", First(t))}
      [] pc[t] = "createNext"      -> {req("create", k) : k \in {Successor(t)} \cap Keys}
      [] pc[t] = "updateResources" -> {req("put", w[t].sel)}
      [] pc[t] = "propose"         -> {req("propose", w[t].sel)}
      [] pc[t] = "approvalPut"     -> {req("approve", w[t].sel)}
      [] pc[t] = "delOne"          -> {req("delete", k) : k \in w[t].todo}
      [] OTHER                     -> {}

Carry(r) ==
    \/ r.op = "create"  /\ CreateRev(r.key)
    \/ r.op = "put"     /\ PutResources(r.key, r.body)
    \/ r.op = "propose" /\ ProposeRev(r.key)
    \/ r.op = "approve" /\ ApproveRev(r.key)
    \/ r.op = "delete"  /\ DeleteRev(r.key)

LateInit == Init /\ late = {} /\ strays = {}

\* The manager goes down and leaves a request behind.
Leave ==
    /\ \E t \in Tenants : \E r \in Requests(t) : late' = late \cup {r}
    /\ Crash \/ \E t \in Tenants : Panic(t)
    /\ UNCHANGED strays

\* Porch carries out a late request.
Arrive ==
    /\ \E r \in late :
         /\ Carry(r)
         /\ late' = late \ {r}
         /\ strays' = IF r.op = "create" THEN strays \cup {r.key}
                      ELSE {k \in strays : revs'[k].lc # "None"}
    /\ UNCHANGED <<catalog, log, pc, w, budget, cached, queue, timer>>

\* Any step of TenantController.
Ordinary ==
    /\ Next
    /\ strays' = {k \in strays : revs'[k].lc # "None"}
    /\ UNCHANGED late

LateNext == Ordinary \/ Leave \/ Arrive

LateSpec == LateInit /\ [][LateNext]_<<vars, lateVars>>

LateFairSpec == LateSpec /\ Fairness

-----------------------------------------------------------------------------
\* Whatever outlives a Tenant with deletionPolicy "delete" was made by a late
\* Create: no late request, of any kind and at any moment, makes Delete or the
\* finalizer let go of another revision.
OnlyStraysOutlive ==
    \A t \in Tenants :
        ~Current(t).live /\ GetDeletionPolicy(t) = "delete" => Owned(t) \subseteq strays
=============================================================================
