----------------------------- MODULE LateProofs -----------------------------
(***************************************************************************)
(* Proofs about LateRequests, for every set of Tenants and every number of *)
(* requests that outlive their sender.                                     *)
(***************************************************************************)
EXTENDS LateRequests, TenantControllerProofs

\* What a Tenant owns through its own workers.
Mine(x) == Owned(x) \ strays

\* A late request is one that a worker could make.
LateInv == \A r \in late : r.key \in Keys /\ (r.op = "put" => r.body \in Bodies)

\* The argument for NoOrphan, without the strays.
MineInv == \A x \in Tenants : Kept(x) /\ Safe(pc[x], Current(x).fin, w[x].todo, Mine(x))

LateAllInv == TypeInv /\ LateInv /\ MineInv

-----------------------------------------------------------------------------
LEMMA RequestType ==
    ASSUME TypeInv, NEW t \in Tenants, NEW r \in Requests(t)
    PROVE  r.key \in Keys /\ (r.op = "put" => r.body \in Bodies)
<1> DEFINE Good(q) == q.key \in Keys /\ (q.op = "put" => q.body \in Bodies)
           req(op, k) == [op |-> op, key |-> k, body |-> w[t].want]
<1>1. SelInv(t)
  BY DEF TypeInv
<1>2. CASE pc[t] = "createFirst"
  <2>1. Requests(t) = {req("create", First(t))}
    BY <1>2 DEF Requests
  <2>2. First(t) \in Keys
    BY <1>2, SyncKeys DEF SyncPCs
  <2>3. QED
    BY <2>1, <2>2
<1>3. CASE pc[t] = "createNext"
  <2>1. Requests(t) = {req("create", k) : k \in {Successor(t)} \cap Keys}
    BY <1>3 DEF Requests
  <2>2. QED
    BY <2>1
<1>4. CASE pc[t] \in {"updateResources", "propose", "approvalPut"}
  <2>1. \E op \in {"put", "propose", "approve"} : Requests(t) = {req(op, w[t].sel)}
    BY <1>4 DEF Requests
  <2>2. w[t].sel \in Keys /\ w[t].want \in Bodies
    BY <1>1, <1>4 DEF SelInv, LocInv, SelPCs, SyncPCs, ApprovePCs
  <2>3. QED
    BY <2>1, <2>2
<1>5. CASE pc[t] = "delOne"
  <2>1. Requests(t) = {req("delete", k) : k \in w[t].todo}
    BY <1>5 DEF Requests
  <2>2. w[t].todo \subseteq Keys
    BY <1>1 DEF SelInv, LocInv
  <2>3. QED
    BY <2>1, <2>2
<1>6. CASE pc[t] \notin {"createFirst", "createNext", "updateResources", "propose",
                         "approvalPut", "delOne"}
  BY <1>6 DEF Requests
<1>7. QED
  BY <1>2, <1>3, <1>4, <1>5, <1>6

\* Only a Create adds to what a Tenant owns, and only what it creates.
LEMMA CarryOwned ==
    ASSUME revs \in [Keys -> Revs], NEW r, r.key \in Keys, r.op = "put" => r.body \in Bodies,
           Carry(r), NEW x
    PROVE  /\ revs' \in [Keys -> Revs]
           /\ Owned(x)' \subseteq Owned(x) \cup (IF r.op = "create" THEN {r.key} ELSE {})
<1>1. CASE r.op = "create" /\ CreateRev(r.key)
  <2>1. PorchCall(r.key)
    BY <1>1 DEF PorchCall
  <2>2. Owned(x)' \subseteq Owned(x) \cup {r.key}
    BY <1>1 DEF CreateRev, Owned, Exists
  <2>3. QED
    BY <1>1, <2>1, <2>2, PorchCallType
<1>2. CASE \/ r.op = "put" /\ PutResources(r.key, r.body)
           \/ r.op = "propose" /\ ProposeRev(r.key)
           \/ r.op = "approve" /\ ApproveRev(r.key)
           \/ r.op = "delete" /\ DeleteRev(r.key)
  <2>1. \/ DeleteRev(r.key) \/ ProposeRev(r.key) \/ ApproveRev(r.key)
        \/ \E b \in Bodies : PutResources(r.key, b)
    BY <1>2
  <2>2. PorchCall(r.key)
    BY <2>1 DEF PorchCall
  <2>3. QED
    BY <2>1, <2>2, PorchCallType, OwnedShrinks
<1>3. QED
  BY <1>1, <1>2 DEF Carry

-----------------------------------------------------------------------------
LEMMA LateInitial == LateInit => LateAllInv
<1> SUFFICES ASSUME LateInit PROVE LateAllInv
  OBVIOUS
<1>1. TypeInv /\ OrphanInv /\ LateInv
  BY TypeInit, OrphanInit DEF LateInit, LateInv
<1>2. MineInv
  BY <1>1 DEF MineInv, Mine, OrphanInv, Holding, DeleteInv, Safe
<1>3. QED
  BY <1>1, <1>2 DEF LateAllInv

\* A step of the controller and its surroundings.  A stray that is deleted and
\* created again by a worker is no stray any more.
LEMMA MineNext ==
    ASSUME TypeInv, MineInv, ~PorchMayVanish, [Next]_vars,
           \A k \in Keys : k \in strays /\ revs'[k].lc # "None" => k \in strays'
    PROVE  MineInv'
<1> DEFINE m  == [x \in Tenants |-> Mine(x)]
           m1 == [x \in Tenants |-> Mine(x)']
<1>1. AllSafe(m)
  BY DEF AllSafe, SafeAt, MineInv
<1>2. ASSUME NEW x \in Tenants
      PROVE  Joins(x, Mine(x), Mine(x)')
  BY DEF Joins, Mine, Owned, Exists
<1>3. AllJoin(m, m1) /\ \A x \in Tenants : m1[x] = Mine(x)'
  BY <1>2 DEF AllJoin
<1> HIDE DEF m, m1
<1>4. \A x \in Tenants : Kept(x)' /\ Safe(pc'[x], Current(x)'.fin, w'[x].todo, m1[x])
  BY <1>1, <1>3, SafeNext
<1>5. QED
  BY <1>3, <1>4 DEF MineInv, Safe

LEMMA LateArrive ==
    ASSUME LateAllInv, Arrive
    PROVE  LateAllInv'
<1>1. PICK r \in late :
        /\ Carry(r)
        /\ late' = late \ {r}
        /\ strays' = IF r.op = "create" THEN strays \cup {r.key}
                     ELSE {k \in strays : revs'[k].lc # "None"}
  BY DEF Arrive
<1>2. UNCHANGED <<catalog, log, pc, w, budget, cached, queue, timer>>
  BY DEF Arrive
<1>3. /\ PorchTypeOK /\ budget \in Budgets /\ queue \in SUBSET Tenants /\ timer \in SUBSET Tenants
      /\ r.key \in Keys /\ (r.op = "put" => r.body \in Bodies)
  BY DEF LateAllInv, LateInv, TypeInv, TypeOK, WorkerTypeOK
<1>4. ASSUME NEW x
      PROVE  /\ revs' \in [Keys -> Revs]
             /\ Owned(x)' \subseteq Owned(x) \cup (IF r.op = "create" THEN {r.key} ELSE {})
  BY <1>1, <1>3, CarryOwned DEF PorchTypeOK
<1>5. TypeInv'
  BY <1>2, <1>3, <1>4, TypeStutter DEF LateAllInv, PorchTypeOK
<1>6. LateInv'
  BY <1>1 DEF LateAllInv, LateInv
<1>7. ASSUME NEW x \in Tenants
      PROVE  Mine(x)' \subseteq Mine(x)
  <2>1. \A k \in Owned(x)' : revs'[k].lc # "None"
    BY DEF Owned, Exists
  <2>2. QED
    BY <1>1, <1>4, <2>1 DEF Mine
<1>8. ASSUME NEW x \in Tenants
      PROVE  Kept(x)' = Kept(x) /\ Current(x)' = Current(x)
  BY <1>2 DEF Kept, Current
<1>9. MineInv'
  BY <1>2, <1>7, <1>8 DEF LateAllInv, MineInv, Safe
<1>10. QED
  BY <1>5, <1>6, <1>9 DEF LateAllInv

LEMMA LateStep ==
    ASSUME ~PorchMayVanish, LateAllInv, [LateNext]_<<vars, lateVars>>
    PROVE  LateAllInv'
<1>1. CASE Ordinary
  <2>1. [Next]_vars /\ late' = late /\ strays' = {k \in strays : revs'[k].lc # "None"}
    BY <1>1 DEF Ordinary
  <2>2. QED
    BY <2>1, TypeNext, MineNext DEF LateAllInv, LateInv
<1>2. CASE Leave
  <2>1. PICK t \in Tenants : \E r \in Requests(t) : late' = late \cup {r}
    BY <1>2 DEF Leave
  <2>2. Next /\ strays' = strays
    BY <1>2 DEF Leave, Next
  <2>3. LateInv'
    BY <2>1, RequestType DEF LateAllInv, LateInv
  <2>4. QED
    BY <2>2, <2>3, TypeNext, MineNext DEF LateAllInv
<1>3. CASE UNCHANGED <<vars, lateVars>>
  <2>1. [Next]_vars /\ late' = late /\ strays' = strays
    BY <1>3 DEF lateVars
  <2>2. QED
    BY <2>1, TypeNext, MineNext DEF LateAllInv, LateInv
<1>4. QED
  BY <1>1, <1>2, <1>3, LateArrive DEF LateNext

LEMMA MineImplies == LateAllInv => OnlyStraysOutlive
<1> SUFFICES ASSUME LateAllInv, NEW t \in Tenants, ~Current(t).live
             PROVE  Owned(t) \subseteq strays
  BY DEF OnlyStraysOutlive
<1>1. Current(t) = Gone
  BY CurrentType DEF LateAllInv, TypeInv, TypeOK, LogInv, Current
<1>2. ~Current(t).fin
  BY <1>1 DEF Gone
<1>3. Mine(t) = {}
  BY <1>2 DEF LateAllInv, MineInv, Safe
<1>4. QED
  BY <1>3 DEF Mine

(***************************************************************************)
(* However many requests are left behind when the manager goes down, and   *)
(* whenever Porch carries them out: a revision that outlives a Tenant with *)
(* deletion policy "delete" was made by a late Create.  No late request of *)
(* another kind makes Delete and the finalizer let go of one, if Porch     *)
(* does not answer a list with NotFound.                                   *)
(***************************************************************************)
THEOREM OnlyStraysOutliveCorrect ==
    ASSUME ~PorchMayVanish
    PROVE  LateSpec => []OnlyStraysOutlive
<1>1. LateAllInv /\ [LateNext]_<<vars, lateVars>> => LateAllInv'
  BY LateStep
<1>2. LateSpec => []LateAllInv
  BY <1>1, LateInitial, PTL DEF LateSpec
<1>3. QED
  BY <1>2, MineImplies, PTL
=============================================================================
