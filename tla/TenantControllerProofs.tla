----------------------- MODULE TenantControllerProofs -----------------------
(***************************************************************************)
(* Proofs about TenantController, for every set of Tenants, repositories,  *)
(* sources and contents, and every value of the bounds.                    *)
(***************************************************************************)
EXTENDS TenantController, TLAPS

(***************************************************************************)
(* The inductive invariants, one Tenant at a time.                         *)
(***************************************************************************)

\* The informer has a version that exists; what is not live is Gone; a Tenant
\* that lingers with a deletion timestamp does so because of the finalizer.
LogInv(x) ==
    /\ cached[x] \in 1..Len(log[x])
    /\ \A i \in 1..Len(log[x]) :
         /\ ~log[x][i].live => log[x][i] = Gone
         /\ log[x][i].del => log[x][i].fin

\* The copy that a worker has is a version of the log, and what it does fits
\* that version.
ReadInv(x) ==
    pc[x] # "idle" =>
        /\ w[x].rv \in 1..Len(log[x])
        /\ w[x].cr = log[x][w[x].rv]
        /\ w[x].cr.live
        /\ w[x].cr.spec \in Specs
        /\ pc[x] = "addFinalizer" => ~w[x].cr.fin
        /\ pc[x] \in DeletePCs => w[x].cr.del /\ w[x].rv <= cached[x]

SelPCs == {"getResources", "createNext", "getNewResources", "updateResources"} \cup ApprovePCs

\* The wanted package has been computed and the selected revision is one of
\* the Tenant's own package before they are used.
LocInv(x, p, loc) ==
    /\ p \in SyncPCs \ {"srcList", "srcGet"} => loc.want \in Bodies
    /\ p \in SelPCs => /\ loc.sel \in Keys
                       /\ loc.sel.pkg = x
                       /\ loc.sel.num > 0
                       /\ loc.slc \in Lifecycles
    /\ loc.todo \subseteq {k \in Keys : k.pkg = x}

SelInv(x) == LocInv(x, pc[x], w[x])

TypeInv == TypeOK /\ \A x \in Tenants : LogInv(x) /\ ReadInv(x) /\ SelInv(x)

\* While the informer has, or still has to deliver, a version with the
\* finalizer that is not being deleted, the finalizer is set: the only worker
\* that could remove it has not seen the deletion yet.
Kept(x) ==
    \A i \in cached[x]..Len(log[x]) :
        log[x][i].fin /\ ~log[x][i].del => Current(x).fin

\* A worker that creates or fills revisions works under the finalizer, and so
\* do the revisions that it has made.
Holding(x) ==
    /\ pc[x] \in SyncPCs => Current(x).fin
    /\ Owned(x) # {} => Current(x).fin

\* Delete has listed every revision that its worker has not deleted yet.
DeleteInv(x) ==
    /\ pc[x] \in {"delOne", "removeFinalizer"} => Owned(x) \subseteq w[x].todo
    /\ pc[x] = "removeFinalizer" => w[x].todo = {}

OrphanInv == \A x \in Tenants : Kept(x) /\ Holding(x) /\ DeleteInv(x)

-----------------------------------------------------------------------------
(***************************************************************************)
(* What a write to the API server does to the log.                         *)
(***************************************************************************)
LEMMA StoreLog ==
    ASSUME LogTypeOK, NEW t \in Tenants, NEW v \in Versions, Store(t, v)
    PROVE  /\ LogTypeOK'
           /\ \A x \in Tenants \ {t} : log'[x] = log[x]
           /\ Len(log'[t]) \in {Len(log[t]), Len(log[t]) + 1}
           /\ \A i \in 1..Len(log[t]) : log'[t][i] = log[t][i]
           /\ Current(t)' = v
           /\ v # Current(t) => Len(log'[t]) = Len(log[t]) + 1
           /\ \A i \in 1..Len(log'[t]) : i \in 1..Len(log[t]) \/ log'[t][i] = v
<1>1. log[t] \in Seq(Versions) /\ Len(log[t]) \in Nat /\ Len(log[t]) > 0
  BY DEF LogTypeOK
<1>2. CASE v = Current(t)
  <2>1. log' = log
    BY <1>2 DEF Store
  <2>2. QED
    BY <1>1, <1>2, <2>1 DEF LogTypeOK, Current
<1>3. CASE v # Current(t)
  <2>1. log' = [log EXCEPT ![t] = Append(log[t], v)]
    BY <1>3 DEF Store
  <2>2. log'[t] = Append(log[t], v) /\ \A x \in Tenants \ {t} : log'[x] = log[x]
    BY <2>1 DEF LogTypeOK
  <2>3. /\ Append(log[t], v) \in Seq(Versions)
        /\ Len(Append(log[t], v)) = Len(log[t]) + 1
        /\ \A i \in 1..Len(log[t]) : Append(log[t], v)[i] = log[t][i]
        /\ Append(log[t], v)[Len(log[t]) + 1] = v
    BY <1>1
  <2>4. LogTypeOK'
    BY <1>1, <2>1, <2>2, <2>3 DEF LogTypeOK
  <2>5. Current(t)' = v
    BY <1>1, <2>2, <2>3 DEF Current
  <2>6. QED
    BY <1>1, <1>3, <2>2, <2>3, <2>4, <2>5
<1>4. QED
  BY <1>2, <1>3

LEMMA CurrentType ==
    ASSUME LogTypeOK, NEW t \in Tenants
    PROVE  /\ Len(log[t]) \in Nat
           /\ Len(log[t]) > 0
           /\ log[t] \in Seq(Versions)
           /\ Current(t) \in Versions
BY DEF LogTypeOK, Current

-----------------------------------------------------------------------------
(***************************************************************************)
(* A worker step that leaves the log and the informer alone: where it goes *)
(* (p) and with which locals (loc).                                        *)
(***************************************************************************)
Outcome(t, p, loc) ==
    /\ Goto(t, p, loc)
    /\ p \in PCs \ {"idle", "addFinalizer"}
    /\ p \in DeletePCs => pc[t] \in DeletePCs
    /\ p \in SyncPCs => pc[t] \in SyncPCs
    /\ loc \in Locals
    /\ loc.cr = w[t].cr
    /\ loc.rv = w[t].rv
    /\ LocInv(t, p, loc)

LEMMA GotoEffect ==
    ASSUME WorkerTypeOK, NEW t \in Tenants, NEW p \in PCs, NEW loc \in Locals,
           Goto(t, p, loc)
    PROVE  /\ pc' \in [Tenants -> PCs] /\ w' \in [Tenants -> Locals]
           /\ pc'[t] = p /\ w'[t] = loc
           /\ \A x \in Tenants \ {t} : pc'[x] = pc[x] /\ w'[x] = w[x]
BY DEF WorkerTypeOK, Goto

LEMMA Frame ==
    ASSUME NEW x \in Tenants, log'[x] = log[x], cached'[x] = cached[x],
           pc'[x] = pc[x], w'[x] = w[x], LogInv(x), ReadInv(x), SelInv(x)
    PROVE  LogInv(x)' /\ ReadInv(x)' /\ SelInv(x)'
BY DEF LogInv, ReadInv, SelInv, LocInv

LEMMA OutcomeType ==
    ASSUME TypeInv, NEW t \in Tenants, NEW p, NEW loc, Outcome(t, p, loc), pc[t] # "idle",
           revs' \in [Keys -> Revs], budget' \in Budgets,
           UNCHANGED <<catalog, log, cached, queue, timer>>
    PROVE  TypeInv'
<1>1. /\ pc' \in [Tenants -> PCs] /\ w' \in [Tenants -> Locals]
      /\ pc'[t] = p /\ w'[t] = loc
      /\ \A x \in Tenants \ {t} : pc'[x] = pc[x] /\ w'[x] = w[x]
  BY GotoEffect DEF Outcome, TypeInv, TypeOK
<1>2. TypeOK'
  BY <1>1 DEF TypeInv, TypeOK, PorchTypeOK, LogTypeOK, WorkerTypeOK
<1>3. ASSUME NEW x \in Tenants, x # t
      PROVE  LogInv(x)' /\ ReadInv(x)' /\ SelInv(x)'
  BY <1>1, <1>3, Frame DEF TypeInv
<1>4. LogInv(t)'
  BY DEF TypeInv, LogInv
<1>5. ReadInv(t)'
  BY <1>1 DEF TypeInv, ReadInv, Outcome, PCs, DeletePCs, SyncPCs, ApprovePCs
<1>6. SelInv(t)'
  BY <1>1 DEF SelInv, LocInv, Outcome
<1>7. QED
  BY <1>2, <1>3, <1>4, <1>5, <1>6 DEF TypeInv

LEMMA AbortOutcome ==
    ASSUME TypeInv, NEW t \in Tenants, Abort(t)
    PROVE  \E p, loc : Outcome(t, p, loc)
<1>1. w[t] \in Locals
  BY DEF TypeInv, TypeOK, WorkerTypeOK
<1>2. /\ NewLocal(w[t].cr, w[t].rv) \in Locals
      /\ NewLocal(w[t].cr, w[t].rv).cr = w[t].cr
      /\ NewLocal(w[t].cr, w[t].rv).rv = w[t].rv
      /\ NewLocal(w[t].cr, w[t].rv).todo = {}
  BY <1>1 DEF NewLocal, Locals
<1>3. Outcome(t, "setError", NewLocal(w[t].cr, w[t].rv))
  BY <1>2 DEF Outcome, Abort, LocInv, PCs, DeletePCs, SyncPCs, SelPCs, ApprovePCs
<1>4. QED
  BY <1>3

LEMMA SpendType ==
    ASSUME budget \in Budgets, NEW b \in {"fault", "edit", "drift", "source"}, Spend(b)
    PROVE  budget' \in Budgets
BY DEF Budgets, Spend

-----------------------------------------------------------------------------
(***************************************************************************)
(* Every accepted call leaves Porch with well-formed revisions and touches *)
(* the revisions of one package only.                                      *)
(***************************************************************************)
PorchCall(k) ==
    \/ CreateRev(k)
    \/ DeleteRev(k)
    \/ \E b \in Bodies : PutResources(k, b)
    \/ ProposeRev(k)
    \/ ApproveRev(k)

LEMMA MainKey ==
    ASSUME NEW k \in Keys
    PROVE  Main(k) \in Keys /\ Main(k).pkg = k.pkg /\ Main(k).num = 0
BY PorchAssumption DEF Main, Keys

LEMMA PorchCallType ==
    ASSUME revs \in [Keys -> Revs], NEW k \in Keys, PorchCall(k)
    PROVE  /\ revs' \in [Keys -> Revs]
           /\ \A j \in Keys : j.pkg # k.pkg => revs'[j] = revs[j]
<1>1. revs[k] \in Revs
  OBVIOUS
<1>2. CASE CreateRev(k)
  BY <1>2 DEF CreateRev, Revs, Lifecycles
<1>3. CASE DeleteRev(k)
  BY <1>3 DEF DeleteRev, NoRev, Revs, Lifecycles
<1>4. CASE \E b \in Bodies : PutResources(k, b)
  BY <1>1, <1>4 DEF PutResources, Revs
<1>5. CASE ProposeRev(k)
  BY <1>1, <1>5 DEF ProposeRev, Revs, Lifecycles
<1>6. CASE ApproveRev(k)
  <2>1. [lc |-> "Published", body |-> revs[k].body, own |-> FALSE] \in Revs
    BY <1>1 DEF Revs, Lifecycles
  <2>2. [revs[k] EXCEPT !.lc = "Published"] \in Revs
    BY <1>1 DEF Revs, Lifecycles
  <2>3. QED
    BY <1>6, <2>1, <2>2, MainKey DEF ApproveRev
<1>7. QED
  BY <1>2, <1>3, <1>4, <1>5, <1>6 DEF PorchCall

LEMMA SyncKeys ==
    ASSUME TypeInv, NEW t \in Tenants
    PROVE  /\ pc[t] \in SyncPCs => First(t) \in Keys
           /\ pc[t] = "createNext" /\ w[t].sel.num < MaxRev => Successor(t) \in Keys
           /\ First(t).pkg = t /\ First(t).num = 1
           /\ Successor(t).pkg = t /\ Successor(t).num = w[t].sel.num + 1
<1>1. First(t).pkg = t /\ First(t).num = 1 /\ Successor(t).pkg = t
      /\ Successor(t).num = w[t].sel.num + 1
  BY DEF First, Successor
<1>2. ASSUME pc[t] \in SyncPCs
      PROVE  w[t].cr.spec.repo \in Repos
  BY <1>2 DEF TypeInv, ReadInv, Specs, SyncPCs, ApprovePCs
<1>3. pc[t] \in SyncPCs => First(t) \in Keys
  BY <1>2, PorchAssumption DEF First, Keys
<1>4. ASSUME pc[t] = "createNext", w[t].sel.num < MaxRev
      PROVE  Successor(t) \in Keys
  <2>1. w[t].sel.num \in Nat
    BY <1>4 DEF TypeInv, SelInv, LocInv, SelPCs, Keys
  <2>2. QED
    BY <1>2, <1>4, <2>1, PorchAssumption DEF Successor, Keys, SyncPCs
<1>5. QED
  BY <1>1, <1>3, <1>4

\* The pieces every worker step is made of.
StepTo(t, p, loc) == Outcome(t, p, loc) /\ budget' \in Budgets

LEMMA ReplyOutcome ==
    ASSUME TypeInv, NEW t \in Tenants, NEW p, NEW loc, Reply(t, p, loc),
           Goto(t, p, loc) => Outcome(t, p, loc)
    PROVE  \E q, l : StepTo(t, q, l)
<1>1. budget \in Budgets
  BY DEF TypeInv, TypeOK, WorkerTypeOK
<1>2. CASE Goto(t, p, loc) /\ UNCHANGED budget
  BY <1>1, <1>2 DEF StepTo
<1>3. CASE Spend("fault") /\ Abort(t)
  BY <1>1, <1>3, SpendType, AbortOutcome DEF StepTo
<1>4. QED
  BY <1>2, <1>3 DEF Reply

(***************************************************************************)
(* What every step of the package-revision client keeps: it is a worker    *)
(* step in the sense above, and it calls Porch for the Tenant's package.   *)
(***************************************************************************)
OwnCall(t) == UNCHANGED revs \/ \E k \in Keys : k.pkg = t /\ PorchCall(k)

LEMMA PkgRevOutcome ==
    ASSUME TypeInv, NEW t \in Tenants, PkgRevStep(t)
    PROVE  /\ \E p, loc : StepTo(t, p, loc)
           /\ OwnCall(t)
           /\ pc[t] # "idle"
<1> DEFINE Steps == \E p, loc : StepTo(t, p, loc)
<1>1. w[t] \in Locals /\ budget \in Budgets
  BY DEF TypeInv, TypeOK, WorkerTypeOK
<1>2. ASSUME Refuse(t)
      PROVE  Steps /\ UNCHANGED revs
  BY <1>1, <1>2, AbortOutcome DEF Refuse, StepTo
<1>3. ASSUME NEW p, UNCHANGED budget, Goto(t, p, w[t]), p \in SyncPCs, pc[t] \in SelPCs,
             p \in SelPCs \cup {"setReady"}
      PROVE  Steps
  <2>1. Outcome(t, p, w[t])
    BY <1>1, <1>3 DEF Outcome, TypeInv, SelInv, LocInv, SelPCs, SyncPCs, ApprovePCs, PCs,
                      DeletePCs
  <2>2. QED
    BY <1>1, <1>3, <2>1 DEF StepTo
<1>4. ASSUME NEW p, Reply(t, p, w[t]), pc[t] \in SelPCs, p \in SelPCs \cup {"setReady"}
      PROVE  Steps
  <2>1. Goto(t, p, w[t]) => Outcome(t, p, w[t])
    BY <1>1, <1>4 DEF Outcome, TypeInv, SelInv, LocInv, SelPCs, SyncPCs, ApprovePCs, PCs,
                      DeletePCs
  <2>2. QED
    BY <1>4, <2>1, ReplyOutcome
<1>5. ASSUME NEW S \in SUBSET {k \in Keys : k.pkg = t}, pc[t] \in DeletePCs,
             Goto(t, DeleteNext(S), [w[t] EXCEPT !.todo = S])
      PROVE  Outcome(t, DeleteNext(S), [w[t] EXCEPT !.todo = S])
  <2>1. /\ [w[t] EXCEPT !.todo = S] \in Locals
        /\ [w[t] EXCEPT !.todo = S].cr = w[t].cr
        /\ [w[t] EXCEPT !.todo = S].rv = w[t].rv
        /\ [w[t] EXCEPT !.todo = S].todo = S
    BY <1>1 DEF Locals
  <2>2. QED
    BY <1>5, <2>1 DEF Outcome, DeleteNext, LocInv, PCs, DeletePCs, SyncPCs, SelPCs, ApprovePCs
<1>6. CASE DeleteList(t)
  <2>1. Listed(t) \in SUBSET {k \in Keys : k.pkg = t} /\ {} \in SUBSET {k \in Keys : k.pkg = t}
    BY DEF Listed
  <2>2. pc[t] \in DeletePCs /\ pc[t] # "idle" /\ UNCHANGED revs
    BY <1>6 DEF DeleteList, DeletePCs
  <2>3. Steps
    BY <1>1, <1>5, <1>6, <2>1, <2>2, SpendType DEF DeleteList, StepTo
  <2>4. QED
    BY <2>2, <2>3 DEF OwnCall
<1>7. CASE DeleteOne(t)
  <2>1. PICK k \in w[t].todo :
          LET rest == w[t].todo \ {k} IN
          \/ DeleteRev(k) /\ Reply(t, DeleteNext(rest), [w[t] EXCEPT !.todo = rest])
          \/ ~Exists(k) /\ Refuse(t)
    BY <1>7 DEF DeleteOne
  <2>2. pc[t] \in DeletePCs /\ pc[t] # "idle"
    BY <1>7 DEF DeleteOne, DeletePCs
  <2>3. w[t].todo \in SUBSET {j \in Keys : j.pkg = t}
    BY DEF TypeInv, SelInv, LocInv
  <2>4. CASE DeleteRev(k) /\ Reply(t, DeleteNext(w[t].todo \ {k}),
                                   [w[t] EXCEPT !.todo = w[t].todo \ {k}])
    <3>1. w[t].todo \ {k} \in SUBSET {j \in Keys : j.pkg = t}
      BY <2>3
    <3>2. Steps
      BY <1>5, <2>2, <2>4, <3>1, ReplyOutcome
    <3>3. QED
      BY <2>2, <2>3, <2>4, <3>2 DEF OwnCall, PorchCall
  <2>5. CASE ~Exists(k) /\ Refuse(t)
    BY <1>2, <2>2, <2>5 DEF OwnCall
  <2>6. QED
    BY <2>1, <2>4, <2>5
<1>8. CASE List(t)
  <2>1. pc[t] = "list" /\ UNCHANGED revs
    BY <1>8 DEF List
  <2>2. w[t].want \in Bodies /\ w[t].todo \subseteq {j \in Keys : j.pkg = t}
    BY <2>1 DEF TypeInv, SelInv, LocInv, SyncPCs
  <2>3. ASSUME Goto(t, "createFirst", w[t])
        PROVE  Outcome(t, "createFirst", w[t])
    BY <1>1, <2>1, <2>2, <2>3 DEF Outcome, LocInv, PCs, DeletePCs, SyncPCs, SelPCs, ApprovePCs
  <2>4. ASSUME NEW k \in Latest(t), Select(t, k)
        PROVE  \E p, loc : Outcome(t, p, loc)
    <3> DEFINE loc == [w[t] EXCEPT !.sel = k, !.slc = revs[k].lc]
    <3>1. k \in Keys /\ k.pkg = t /\ k.num > 0 /\ revs[k].lc # "None"
      BY DEF Latest, Numbered, Listed, Exists
    <3>2. revs[k].lc \in Lifecycles
      BY <3>1 DEF TypeInv, TypeOK, PorchTypeOK, Revs
    <3>3. /\ loc \in Locals /\ loc.cr = w[t].cr /\ loc.rv = w[t].rv
          /\ loc.sel = k /\ loc.slc = revs[k].lc /\ loc.want = w[t].want
          /\ loc.todo = w[t].todo
      BY <1>1, <3>1, <3>2 DEF Locals
    <3>4. Goto(t, "getResources", loc)
      BY <2>4 DEF Select
    <3>5. Outcome(t, "getResources", loc)
      BY <2>1, <2>2, <3>1, <3>2, <3>3, <3>4
      DEF Outcome, LocInv, PCs, DeletePCs, SyncPCs, SelPCs, ApprovePCs
    <3>6. QED
      BY <3>5
  <2>5. Steps
    BY <1>1, <1>8, <2>3, <2>4, SpendType DEF List, StepTo
  <2>6. QED
    BY <2>1, <2>5 DEF OwnCall
<1>9. ASSUME NEW k \in Keys, k.pkg = t, k.num > 0, NEW p \in {"getResources", "getNewResources"},
             pc[t] \in {"createFirst", "createNext"}, CreateAs(t, k, p)
      PROVE  Steps /\ OwnCall(t)
  <2> DEFINE loc == [w[t] EXCEPT !.sel = k, !.slc = "Draft"]
  <2>1. w[t].want \in Bodies /\ w[t].todo \subseteq {j \in Keys : j.pkg = t}
    BY <1>9 DEF TypeInv, SelInv, LocInv, SyncPCs
  <2>2. /\ loc \in Locals /\ loc.cr = w[t].cr /\ loc.rv = w[t].rv
        /\ loc.sel = k /\ loc.slc = "Draft" /\ loc.want = w[t].want
        /\ loc.todo = w[t].todo
    BY <1>1 DEF Locals, Lifecycles
  <2>3. Goto(t, p, loc) => Outcome(t, p, loc)
    BY <1>9, <2>1, <2>2
    DEF Outcome, LocInv, PCs, DeletePCs, SyncPCs, SelPCs, ApprovePCs, Lifecycles
  <2>4. CASE CreateRev(k) /\ Reply(t, p, loc)
    BY <1>9, <2>3, <2>4, ReplyOutcome DEF OwnCall, PorchCall
  <2>5. CASE Exists(k) /\ Refuse(t)
    BY <1>2, <2>5 DEF OwnCall
  <2>6. QED
    BY <1>9, <2>4, <2>5 DEF CreateAs
<1>10. CASE CreateFirst(t)
  <2>1. First(t) \in Keys /\ First(t).pkg = t /\ First(t).num > 0
    BY <1>10, SyncKeys DEF CreateFirst, SyncPCs
  <2>2. QED
    BY <1>9, <1>10, <2>1 DEF CreateFirst
<1>11. CASE CreateNext(t)
  <2>1. Successor(t) \in Keys /\ Successor(t).pkg = t /\ Successor(t).num = w[t].sel.num + 1
    BY <1>11, SyncKeys DEF CreateNext
  <2>2. w[t].sel.num \in Nat
    BY <1>11 DEF CreateNext, TypeInv, SelInv, LocInv, SelPCs, Keys
  <2>3. Successor(t).num > 0
    BY <2>1, <2>2
  <2>4. QED
    BY <1>9, <1>11, <2>1, <2>3 DEF CreateNext
<1>12. CASE GetResources(t)
  <2>1. pc[t] \in SelPCs /\ w[t].slc \in Lifecycles
    BY <1>12 DEF GetResources, TypeInv, SelInv, LocInv, SelPCs
  <2>2. Compare(w[t], revs[w[t].sel].body) \in SyncPCs \cap (SelPCs \cup {"setReady"})
    BY <2>1 DEF Compare, Approve, Lifecycles, SyncPCs, SelPCs, ApprovePCs
  <2>3. QED
    BY <1>2, <1>3, <1>12, <2>1, <2>2 DEF GetResources, OwnCall
<1>13. CASE GetNewResources(t) \/ ApproveGet(t) \/ ApprovalGet(t)
  <2>1. pc[t] \in SelPCs /\ pc[t] # "idle"
    BY <1>13 DEF GetNewResources, ApproveGet, ApprovalGet, SelPCs, ApprovePCs
  <2>2. {"updateResources", "propose", "approvalPut", "setReady"}
           \subseteq SyncPCs \cap (SelPCs \cup {"setReady"})
    BY DEF SyncPCs, SelPCs, ApprovePCs
  <2>3. QED
    BY <1>2, <1>3, <1>13, <2>1, <2>2 DEF GetNewResources, ApproveGet, ApprovalGet, OwnCall
<1>14. CASE UpdateResources(t) \/ Propose(t) \/ ApprovalPut(t)
  <2>1. pc[t] \in SelPCs /\ pc[t] # "idle" /\ pc[t] \in SyncPCs \ {"srcList", "srcGet"}
    BY <1>14 DEF UpdateResources, Propose, ApprovalPut, SelPCs, ApprovePCs, SyncPCs
  <2>2. w[t].sel \in Keys /\ w[t].sel.pkg = t /\ w[t].slc \in Lifecycles /\ w[t].want \in Bodies
    BY <2>1 DEF TypeInv, SelInv, LocInv
  <2>3. {Approve(w[t].slc), "approvalGet", "setReady"} \subseteq SelPCs \cup {"setReady"}
    BY <2>2 DEF Approve, Lifecycles, SelPCs, ApprovePCs
  <2>4. QED
    BY <1>2, <1>4, <1>14, <2>1, <2>2, <2>3
    DEF UpdateResources, Propose, ApprovalPut, OwnCall, PorchCall
<1>15. QED
  BY <1>6, <1>7, <1>8, <1>10, <1>11, <1>12, <1>13, <1>14
  DEF PkgRevStep, CreateFirst, CreateNext, GetResources

-----------------------------------------------------------------------------
(***************************************************************************)
(* Writes to a Tenant keep the log well formed, and workers that do not    *)
(* move keep a copy that is a version of the log.                          *)
(***************************************************************************)
LEMMA GoneType == Gone \in Versions /\ NewLocal(Gone, 0) \in Locals
BY DEF Gone, Versions, SpecValues, DeletionPolicies, Statuses, NewLocal, Locals, NoKey

LEMMA NewLocalType ==
    ASSUME NEW v \in Versions, NEW n \in Nat
    PROVE  /\ NewLocal(v, n) \in Locals
           /\ NewLocal(v, n).cr = v /\ NewLocal(v, n).rv = n
           /\ NewLocal(v, n).todo = {}
BY DEF NewLocal, Locals, NoKey

LEMMA StoreInv ==
    ASSUME TypeInv, NEW t \in Tenants, NEW v \in Versions, Store(t, v),
           ~v.live => v = Gone, v.del => v.fin, cached' = cached
    PROVE  /\ LogTypeOK'
           /\ \A x \in Tenants : LogInv(x)'
           /\ \A x \in Tenants :
                pc'[x] = pc[x] /\ w'[x] = w[x] => ReadInv(x)' /\ SelInv(x)'
<1>1. /\ LogTypeOK
      /\ \A x \in Tenants : Len(log[x]) \in Nat /\ Len(log[x]) > 0 /\ cached[x] \in Nat
  BY CurrentType DEF TypeInv, TypeOK
<1>2. /\ LogTypeOK'
      /\ \A x \in Tenants \ {t} : log'[x] = log[x]
      /\ Len(log'[t]) \in {Len(log[t]), Len(log[t]) + 1}
      /\ \A i \in 1..Len(log[t]) : log'[t][i] = log[t][i]
      /\ \A i \in 1..Len(log'[t]) : i \in 1..Len(log[t]) \/ log'[t][i] = v
  BY <1>1, StoreLog
<1>3. ASSUME NEW x \in Tenants
      PROVE  LogInv(x)'
  <2>1. LogInv(x)
    BY DEF TypeInv
  <2>2. CASE x = t
    BY <1>1, <1>2, <2>1, <2>2 DEF LogInv
  <2>3. CASE x # t
    BY <1>2, <2>1, <2>3 DEF LogInv
  <2>4. QED
    BY <2>2, <2>3
<1>4. ASSUME NEW x \in Tenants, pc'[x] = pc[x], w'[x] = w[x]
      PROVE  ReadInv(x)' /\ SelInv(x)'
  <2>1. ReadInv(x) /\ SelInv(x)
    BY DEF TypeInv
  <2>2. SelInv(x)'
    BY <1>4, <2>1 DEF SelInv, LocInv
  <2>3. ASSUME NEW i \in 1..Len(log[x])
        PROVE  i \in 1..Len(log'[x]) /\ log'[x][i] = log[x][i]
    BY <1>1, <1>2
  <2>4. ReadInv(x)'
    BY <1>4, <2>1, <2>3 DEF ReadInv
  <2>5. QED
    BY <2>2, <2>4
<1>5. QED
  BY <1>2, <1>3, <1>4

LEMMA FinishInv ==
    ASSUME TypeInv, NEW t \in Tenants, Finish(t)
    PROVE  /\ pc' \in [Tenants -> PCs] /\ w' \in [Tenants -> Locals]
           /\ pc'[t] = "idle" /\ ReadInv(t)' /\ SelInv(t)'
           /\ \A x \in Tenants \ {t} : pc'[x] = pc[x] /\ w'[x] = w[x]
<1>1. /\ pc' \in [Tenants -> PCs] /\ w' \in [Tenants -> Locals]
      /\ pc'[t] = "idle" /\ w'[t] = NewLocal(Gone, 0)
      /\ \A x \in Tenants \ {t} : pc'[x] = pc[x] /\ w'[x] = w[x]
  BY GoneType, GotoEffect DEF Finish, TypeInv, TypeOK, PCs
<1>2. ReadInv(t)' /\ SelInv(t)'
  BY <1>1 DEF ReadInv, SelInv, LocInv, NewLocal, SyncPCs, SelPCs, ApprovePCs
<1>3. QED
  BY <1>1, <1>2

\* The version that every worker's last write or status update stores.
LEMMA SetStatusVersion ==
    ASSUME TypeInv, NEW t \in Tenants, pc[t] # "idle", w[t].rv = Len(log[t])
    PROVE  LET v == [Current(t) EXCEPT !.status = EndStatus(t)] IN
           /\ v \in Versions
           /\ v.live /\ v.del = Current(t).del /\ v.fin = Current(t).fin
           /\ v.spec = Current(t).spec
           /\ v.del => v.fin
<1>1. Current(t) \in Versions /\ Len(log[t]) \in Nat /\ Len(log[t]) > 0
  BY CurrentType DEF TypeInv, TypeOK
<1>2. Current(t).live /\ (Current(t).del => Current(t).fin)
  BY <1>1 DEF TypeInv, ReadInv, LogInv, Current
<1>3. EndStatus(t) \in Statuses
  BY DEF EndStatus, Statuses
<1>4. QED
  BY <1>1, <1>2, <1>3 DEF Versions

-----------------------------------------------------------------------------
(***************************************************************************)
(* Type correctness, one lemma per action.                                 *)
(***************************************************************************)
LEMMA TypeInit == Init => TypeInv
<1> SUFFICES ASSUME Init
             PROVE  TypeInv
  OBVIOUS
<1> USE DEF Init
<1>1. NoRev \in Revs
  BY DEF NoRev, Revs, Lifecycles
<1>2. PorchTypeOK
  BY <1>1 DEF PorchInit, PorchTypeOK
<1>3. \A x \in Tenants : log[x] = <<Gone>> /\ Len(log[x]) = 1 /\ log[x][1] = Gone
  BY DEF LogInit
<1>4. LogTypeOK
  <2>1. <<Gone>> \in Seq(Versions)
    BY GoneType
  <2>2. QED
    BY <1>3, <2>1 DEF LogInit, LogTypeOK
<1>5. WorkerTypeOK
  BY GoneType, BoundsAssumption DEF WorkerInit, WorkerTypeOK, PCs, Budgets
<1>6. TypeOK
  BY <1>2, <1>4, <1>5 DEF TypeOK
<1>7. ASSUME NEW x \in Tenants
      PROVE  LogInv(x) /\ ReadInv(x) /\ SelInv(x)
  <2>1. LogInv(x)
    <3>1. cached[x] = 1 /\ ~Gone.del
      BY DEF Gone
    <3>2. QED
      BY <1>3, <3>1 DEF LogInv
  <2>2. ReadInv(x) /\ SelInv(x)
    BY DEF WorkerInit, ReadInv, SelInv, LocInv, NewLocal, SyncPCs, SelPCs, ApprovePCs
  <2>3. QED
    BY <2>1, <2>2
<1>8. QED
  BY <1>6, <1>7 DEF TypeInv

LEMMA TypeObserve ==
    ASSUME TypeInv, NEW t \in Tenants, Observe(t)
    PROVE  TypeInv'
<1>1. cached \in [Tenants -> Nat] /\ queue \in SUBSET Tenants /\ Len(log[t]) \in Nat
  BY CurrentType DEF TypeInv, TypeOK
<1>2. /\ cached' \in [Tenants -> Nat]
      /\ cached'[t] = cached[t] + 1
      /\ \A x \in Tenants \ {t} : cached'[x] = cached[x]
      /\ queue' \in SUBSET Tenants
  BY <1>1 DEF Observe
<1>3. TypeOK'
  BY <1>2 DEF Observe, TypeInv, TypeOK, PorchTypeOK, LogTypeOK, WorkerTypeOK
<1>4. ASSUME NEW x \in Tenants, x # t
      PROVE  LogInv(x)' /\ ReadInv(x)' /\ SelInv(x)'
  BY <1>2, <1>4, Frame DEF Observe, TypeInv
<1>5. LogInv(t)' /\ ReadInv(t)' /\ SelInv(t)'
  <2>1. LogInv(t) /\ ReadInv(t) /\ SelInv(t) /\ w[t].rv \in Nat /\ cached[t] \in Nat
    BY <1>1 DEF TypeInv, TypeOK, WorkerTypeOK, Locals
  <2>2. UNCHANGED <<log, pc, w>> /\ cached[t] < Len(log[t])
    BY DEF Observe
  <2>3. LogInv(t)'
    BY <1>1, <1>2, <2>1, <2>2 DEF LogInv
  <2>4. ReadInv(t)'
    BY <1>2, <2>1, <2>2 DEF ReadInv
  <2>5. SelInv(t)'
    BY <2>1, <2>2 DEF SelInv, LocInv
  <2>6. QED
    BY <2>3, <2>4, <2>5
<1>6. QED
  BY <1>3, <1>4, <1>5 DEF TypeInv

LEMMA TypeStutter ==
    ASSUME TypeInv, UNCHANGED <<log, pc, w, cached>>, PorchTypeOK', budget' \in Budgets,
           queue' \in SUBSET Tenants, timer' \in SUBSET Tenants
    PROVE  TypeInv'
<1>1. TypeOK'
  BY DEF TypeInv, TypeOK, LogTypeOK, WorkerTypeOK
<1>2. ASSUME NEW x \in Tenants
      PROVE  LogInv(x)' /\ ReadInv(x)' /\ SelInv(x)'
  BY Frame DEF TypeInv
<1>3. QED
  BY <1>1, <1>2 DEF TypeInv

LEMMA TypeBegin ==
    ASSUME TypeInv, NEW t \in Tenants, Begin(t)
    PROVE  TypeInv'
<1>1. /\ queue' \in SUBSET Tenants /\ timer' \in SUBSET Tenants /\ budget' \in Budgets
      /\ PorchTypeOK' /\ UNCHANGED <<log, cached>>
  BY DEF Begin, TypeInv, TypeOK, WorkerTypeOK, PorchTypeOK
<1>2. CASE UNCHANGED <<pc, w>>
  BY <1>1, <1>2, TypeStutter
<1>3. ASSUME Cached(t).live, Cached(t).spec # NoProps,
             Goto(t, IF Cached(t).fin THEN AfterFinalizer(Cached(t)) ELSE "addFinalizer",
                  NewLocal(Cached(t), cached[t]))
      PROVE  TypeInv'
  <2> DEFINE p == IF Cached(t).fin THEN AfterFinalizer(Cached(t)) ELSE "addFinalizer"
  <2>1. LogInv(t) /\ log[t] \in Seq(Versions) /\ Len(log[t]) \in Nat
    BY CurrentType DEF TypeInv, TypeOK
  <2>2. /\ cached[t] \in 1..Len(log[t]) /\ Cached(t) = log[t][cached[t]]
        /\ Cached(t) \in Versions /\ Cached(t).spec \in Specs
    <3>1. cached[t] \in 1..Len(log[t])
      BY <2>1 DEF LogInv
    <3>2. log[t][cached[t]] \in Versions
      BY <2>1, <3>1
    <3>3. Cached(t) = log[t][cached[t]]
      BY DEF Cached
    <3>4. Cached(t).spec \in SpecValues
      BY <3>2, <3>3 DEF Versions
    <3>5. QED
      BY <1>3, <3>1, <3>2, <3>3, <3>4 DEF SpecValues
  <2>3. /\ NewLocal(Cached(t), cached[t]) \in Locals
        /\ NewLocal(Cached(t), cached[t]).cr = Cached(t)
        /\ NewLocal(Cached(t), cached[t]).rv = cached[t]
        /\ NewLocal(Cached(t), cached[t]).todo = {}
    BY <2>2, NewLocalType
  <2>4. p \in {"delList", "srcList", "addFinalizer"} /\ p \in PCs
    BY DEF AfterFinalizer, PCs, DeletePCs, SyncPCs
  <2>5. /\ pc' \in [Tenants -> PCs] /\ w' \in [Tenants -> Locals]
        /\ pc'[t] = p /\ w'[t] = NewLocal(Cached(t), cached[t])
        /\ \A x \in Tenants \ {t} : pc'[x] = pc[x] /\ w'[x] = w[x]
    BY <1>3, <2>3, <2>4, GotoEffect DEF TypeInv, TypeOK
  <2>6. TypeOK'
    BY <1>1, <2>5 DEF TypeInv, TypeOK, LogTypeOK, WorkerTypeOK
  <2>7. ASSUME NEW x \in Tenants, x # t
        PROVE  LogInv(x)' /\ ReadInv(x)' /\ SelInv(x)'
    BY <1>1, <2>5, <2>7, Frame DEF TypeInv
  <2>8. LogInv(t)'
    BY <1>1, <2>1 DEF LogInv
  <2>9. p = "addFinalizer" => ~Cached(t).fin
    BY DEF AfterFinalizer
  <2>10. p \in DeletePCs => Cached(t).del
    BY DEF AfterFinalizer, DeletePCs
  <2>11. ReadInv(t)'
    <3>1. pc'[t] = p /\ w'[t].cr = Cached(t) /\ w'[t].rv = cached[t]
      BY <2>3, <2>5
    <3>2. log' = log /\ cached' = cached /\ Cached(t).live
      BY <1>1, <1>3
    <3>3. cached[t] \in Nat
      BY <2>2
    <3> HIDE DEF p
    <3>4. QED
      BY <2>2, <2>9, <2>10, <3>1, <3>2, <3>3 DEF ReadInv
  <2>12. SelInv(t)'
    BY <2>3, <2>4, <2>5 DEF SelInv, LocInv, SyncPCs, SelPCs, ApprovePCs
  <2>13. QED
    BY <2>6, <2>7, <2>8, <2>11, <2>12 DEF TypeInv
<1>4. QED
  BY <1>2, <1>3 DEF Begin

LEMMA AbortType ==
    ASSUME TypeInv, NEW t \in Tenants, Abort(t), pc[t] # "idle", budget' \in Budgets,
           UNCHANGED <<revs, catalog, log, cached, queue, timer>>
    PROVE  TypeInv'
BY AbortOutcome, OutcomeType DEF TypeInv, TypeOK, PorchTypeOK

LEMMA AbortEffect ==
    ASSUME TypeInv, NEW t \in Tenants, Abort(t)
    PROVE  /\ pc' \in [Tenants -> PCs] /\ w' \in [Tenants -> Locals]
           /\ pc'[t] = "setError" /\ w'[t].cr = w[t].cr /\ w'[t].rv = w[t].rv
           /\ w'[t].todo = {}
           /\ \A x \in Tenants \ {t} : pc'[x] = pc[x] /\ w'[x] = w[x]
<1>1. w[t].cr \in Versions /\ w[t].rv \in Nat
  BY DEF TypeInv, TypeOK, WorkerTypeOK, Locals
<1>2. QED
  BY <1>1, NewLocalType, GotoEffect DEF Abort, TypeInv, TypeOK, PCs

\* A write whose answer is lost: the worker keeps its copy and aborts.
LEMMA StoreAbort ==
    ASSUME TypeInv, NEW t \in Tenants, NEW v \in Versions, Store(t, v),
           ~v.live => v = Gone, v.del => v.fin, Abort(t), pc[t] # "idle",
           budget' \in Budgets, UNCHANGED <<revs, catalog, cached, queue, timer>>
    PROVE  TypeInv'
<1>1. /\ LogTypeOK'
      /\ \A x \in Tenants : LogInv(x)'
      /\ \A x \in Tenants : pc'[x] = pc[x] /\ w'[x] = w[x] => ReadInv(x)' /\ SelInv(x)'
  BY StoreInv
<1>2. /\ pc' \in [Tenants -> PCs] /\ w' \in [Tenants -> Locals]
      /\ pc'[t] = "setError" /\ w'[t].cr = w[t].cr /\ w'[t].rv = w[t].rv
      /\ w'[t].todo = {}
      /\ \A x \in Tenants \ {t} : pc'[x] = pc[x] /\ w'[x] = w[x]
  BY AbortEffect
<1>3. TypeOK'
  BY <1>1, <1>2 DEF TypeInv, TypeOK, PorchTypeOK, WorkerTypeOK
<1>4. ReadInv(t)'
  <2>1. LogTypeOK /\ ReadInv(t) /\ Len(log[t]) \in Nat
    BY CurrentType DEF TypeInv, TypeOK
  <2>2. /\ Len(log'[t]) \in {Len(log[t]), Len(log[t]) + 1}
        /\ \A i \in 1..Len(log[t]) : log'[t][i] = log[t][i]
    BY <2>1, StoreLog
  <2>3. w[t].rv \in 1..Len(log'[t]) /\ w[t].cr = log'[t][w[t].rv]
    BY <2>1, <2>2 DEF ReadInv
  <2>4. QED
    BY <1>2, <2>1, <2>3 DEF ReadInv, DeletePCs
<1>5. SelInv(t)'
  BY <1>2 DEF SelInv, LocInv, SyncPCs, SelPCs, ApprovePCs
<1>6. QED
  BY <1>1, <1>2, <1>3, <1>4, <1>5 DEF TypeInv

\* The version that AddFinalizer stores, and where the worker goes from there.
LEMMA AddFinalizerVersion ==
    ASSUME TypeInv, NEW t \in Tenants, pc[t] = "addFinalizer", w[t].rv = Len(log[t])
    PROVE  LET v == [Current(t) EXCEPT !.fin = TRUE] IN
           /\ v \in Versions /\ v.live /\ v.fin /\ ~v.del
           /\ v.spec = Current(t).spec /\ v.spec \in Specs
           /\ v # Current(t)
           /\ AfterFinalizer(v) = "srcList"
<1> DEFINE v == [Current(t) EXCEPT !.fin = TRUE]
<1>1. Current(t) \in Versions /\ Len(log[t]) \in Nat /\ Len(log[t]) > 0
  BY CurrentType DEF TypeInv, TypeOK
<1>2. LogInv(t) /\ ReadInv(t)
  BY DEF TypeInv
<1>3. Current(t).live /\ Current(t).spec \in Specs /\ ~Current(t).fin
  BY <1>1, <1>2 DEF ReadInv, Current
<1>4. ~Current(t).del
  BY <1>1, <1>2, <1>3 DEF LogInv, Current
<1>5. /\ v \in Versions /\ v.live = Current(t).live /\ v.spec = Current(t).spec
      /\ v.del = Current(t).del /\ v.fin
  BY <1>1 DEF Versions
<1>6. QED
  BY <1>3, <1>4, <1>5 DEF AfterFinalizer

LEMMA TypeAddFinalizer ==
    ASSUME TypeInv, NEW t \in Tenants, AddFinalizer(t)
    PROVE  TypeInv'
<1> DEFINE v == [Current(t) EXCEPT !.fin = TRUE]
<1>1. /\ pc[t] = "addFinalizer" /\ UNCHANGED <<revs, catalog, cached, queue, timer>>
      /\ budget \in Budgets /\ LogTypeOK
  BY DEF AddFinalizer, TypeInv, TypeOK, WorkerTypeOK
<1>2. CASE Abort(t) /\ UNCHANGED <<log, budget>>
  BY <1>1, <1>2, AbortType
<1>3. ASSUME w[t].rv = Len(log[t]), Store(t, v), Reply(t, AfterFinalizer(v), NewLocal(v, Len(log[t]) + 1))
      PROVE  TypeInv'
  <2>1. /\ v \in Versions /\ v.live /\ v.fin /\ ~v.del /\ v.spec \in Specs
        /\ v # Current(t) /\ AfterFinalizer(v) = "srcList"
    BY <1>1, <1>3, AddFinalizerVersion
  <2> HIDE DEF v
  <2>2. CASE Spend("fault") /\ Abort(t)
    BY <1>1, <1>3, <2>1, <2>2, SpendType, StoreAbort
  <2>3. CASE Goto(t, "srcList", NewLocal(v, Len(log[t]) + 1)) /\ UNCHANGED budget
    <3>1. /\ LogTypeOK'
          /\ \A x \in Tenants : LogInv(x)'
          /\ \A x \in Tenants : pc'[x] = pc[x] /\ w'[x] = w[x] => ReadInv(x)' /\ SelInv(x)'
      BY <1>1, <1>3, <2>1, StoreInv
    <3>2. Len(log[t]) \in Nat
      BY <1>1, CurrentType
    <3>3. Len(log'[t]) = Len(log[t]) + 1 /\ log'[t][Len(log[t]) + 1] = v
      BY <1>1, <1>3, <2>1, StoreLog DEF Current
    <3>4. /\ NewLocal(v, Len(log[t]) + 1) \in Locals
          /\ NewLocal(v, Len(log[t]) + 1).cr = v
          /\ NewLocal(v, Len(log[t]) + 1).rv = Len(log[t]) + 1
          /\ NewLocal(v, Len(log[t]) + 1).todo = {}
      BY <2>1, <3>2, NewLocalType
    <3>5. /\ pc' \in [Tenants -> PCs] /\ w' \in [Tenants -> Locals]
          /\ pc'[t] = "srcList" /\ w'[t] = NewLocal(v, Len(log[t]) + 1)
          /\ \A x \in Tenants \ {t} : pc'[x] = pc[x] /\ w'[x] = w[x]
      BY <2>3, <3>4, GotoEffect DEF TypeInv, TypeOK, PCs, SyncPCs
    <3>6. TypeOK'
      BY <1>1, <2>3, <3>1, <3>5 DEF TypeInv, TypeOK, PorchTypeOK, WorkerTypeOK
    <3>7. ReadInv(t)'
      BY <2>1, <3>2, <3>3, <3>4, <3>5 DEF ReadInv, DeletePCs
    <3>8. SelInv(t)'
      BY <3>4, <3>5 DEF SelInv, LocInv, SyncPCs, SelPCs, ApprovePCs
    <3>9. QED
      BY <3>1, <3>5, <3>6, <3>7, <3>8 DEF TypeInv
  <2>4. QED
    BY <1>3, <2>1, <2>2, <2>3 DEF Reply
<1>4. QED
  BY <1>2, <1>3 DEF AddFinalizer

\* A worker that ends, with or without a last write.
LEMMA FinishType ==
    ASSUME TypeInv, NEW t \in Tenants, Finish(t), PorchTypeOK', budget' \in Budgets,
           UNCHANGED cached, queue' \in SUBSET Tenants, timer' \in SUBSET Tenants,
           \/ UNCHANGED log
           \/ \E v \in Versions : Store(t, v) /\ (~v.live => v = Gone) /\ (v.del => v.fin)
    PROVE  TypeInv'
<1>1. /\ pc' \in [Tenants -> PCs] /\ w' \in [Tenants -> Locals]
      /\ ReadInv(t)' /\ SelInv(t)'
      /\ \A x \in Tenants \ {t} : pc'[x] = pc[x] /\ w'[x] = w[x]
  BY FinishInv
<1>2. CASE UNCHANGED log
  <2>1. TypeOK'
    BY <1>1, <1>2 DEF TypeInv, TypeOK, LogTypeOK, WorkerTypeOK
  <2>2. ASSUME NEW x \in Tenants, x # t
        PROVE  LogInv(x)' /\ ReadInv(x)' /\ SelInv(x)'
    BY <1>1, <1>2, <2>2, Frame DEF TypeInv
  <2>3. LogInv(t)'
    BY <1>2 DEF TypeInv, LogInv
  <2>4. QED
    BY <1>1, <2>1, <2>2, <2>3 DEF TypeInv
<1>3. ASSUME NEW v \in Versions, Store(t, v), ~v.live => v = Gone, v.del => v.fin
      PROVE  TypeInv'
  <2>1. /\ LogTypeOK'
        /\ \A x \in Tenants : LogInv(x)'
        /\ \A x \in Tenants : pc'[x] = pc[x] /\ w'[x] = w[x] => ReadInv(x)' /\ SelInv(x)'
    BY <1>3, StoreInv
  <2>2. TypeOK'
    BY <1>1, <2>1 DEF TypeInv, TypeOK, WorkerTypeOK
  <2>3. QED
    BY <1>1, <2>1, <2>2 DEF TypeInv
<1>4. QED
  BY <1>2, <1>3

LEMMA TypeRemoveFinalizer ==
    ASSUME TypeInv, NEW t \in Tenants, RemoveFinalizer(t)
    PROVE  TypeInv'
<1>1. /\ pc[t] # "idle" /\ UNCHANGED <<revs, catalog, cached, queue, timer>>
      /\ PorchTypeOK' /\ budget \in Budgets
      /\ queue' \in SUBSET Tenants /\ timer' \in SUBSET Tenants
  BY DEF RemoveFinalizer, TypeInv, TypeOK, PorchTypeOK, WorkerTypeOK
<1>2. Gone \in Versions /\ ~Gone.del
  BY GoneType DEF Gone
<1>3. CASE Store(t, Gone) /\ Finish(t) /\ UNCHANGED budget
  BY <1>1, <1>2, <1>3, FinishType
<1>4. CASE Store(t, Gone) /\ Spend("fault") /\ Abort(t)
  BY <1>1, <1>2, <1>4, SpendType, StoreAbort
<1>5. CASE Abort(t) /\ UNCHANGED <<log, budget>>
  BY <1>1, <1>5, AbortType
<1>6. CASE Finish(t) /\ UNCHANGED <<log, budget>>
  BY <1>1, <1>6, FinishType
<1>7. QED
  BY <1>3, <1>4, <1>5, <1>6 DEF RemoveFinalizer

LEMMA TypeSource ==
    ASSUME TypeInv, NEW t \in Tenants, SourceList(t) \/ SourceGet(t)
    PROVE  TypeInv'
<1>1. /\ pc[t] \in {"srcList", "srcGet"} /\ pc[t] # "idle"
      /\ UNCHANGED <<revs, catalog, log, budget, cached, queue, timer>>
      /\ budget' \in Budgets /\ w[t] \in Locals /\ revs' \in [Keys -> Revs]
      /\ catalog \in [Sources -> Bodies \cup {Absent}]
  BY DEF SourceList, SourceGet, TypeInv, TypeOK, WorkerTypeOK, PorchTypeOK
<1>2. w[t].cr.spec.src \in Sources /\ w[t].todo \subseteq {k \in Keys : k.pkg = t}
  BY <1>1 DEF TypeInv, ReadInv, SelInv, LocInv, Specs
<1>3. CASE Abort(t)
  BY <1>1, <1>3, AbortType
<1>4. CASE Goto(t, "srcGet", w[t])
  <2>1. Outcome(t, "srcGet", w[t])
    BY <1>1, <1>2, <1>4 DEF Outcome, LocInv, PCs, DeletePCs, SyncPCs, SelPCs, ApprovePCs
  <2>2. QED
    BY <1>1, <2>1, OutcomeType
<1>5. ASSUME catalog[w[t].cr.spec.src] # Absent,
             Goto(t, "list", [w[t] EXCEPT !.want = catalog[w[t].cr.spec.src]])
      PROVE  TypeInv'
  <2> DEFINE loc == [w[t] EXCEPT !.want = catalog[w[t].cr.spec.src]]
  <2>1. catalog[w[t].cr.spec.src] \in Bodies
    BY <1>1, <1>2, <1>5
  <2>2. /\ loc \in Locals /\ loc.cr = w[t].cr /\ loc.rv = w[t].rv /\ loc.todo = w[t].todo
        /\ loc.want \in Bodies
    BY <1>1, <2>1 DEF Locals
  <2>3. Goto(t, "list", loc)
    BY <1>5
  <2> HIDE DEF loc
  <2>4. Outcome(t, "list", loc)
    BY <1>1, <1>2, <2>2, <2>3 DEF Outcome, LocInv, PCs, DeletePCs, SyncPCs, SelPCs, ApprovePCs
  <2>5. QED
    BY <1>1, <2>4, OutcomeType
<1>6. QED
  BY <1>3, <1>4, <1>5 DEF SourceList, SourceGet

LEMMA TypePkgRevStep ==
    ASSUME TypeInv, NEW t \in Tenants, PkgRevStep(t), UNCHANGED ctlVars
    PROVE  TypeInv'
<1>1. /\ \E p, loc : StepTo(t, p, loc)
      /\ OwnCall(t)
      /\ pc[t] # "idle"
  BY PkgRevOutcome
<1>2. revs \in [Keys -> Revs]
  BY DEF TypeInv, TypeOK, PorchTypeOK
<1>3. revs' \in [Keys -> Revs]
  BY <1>1, <1>2, PorchCallType DEF OwnCall
<1>4. UNCHANGED <<catalog, log, cached, queue, timer>>
  BY DEF PkgRevStep, ctlVars
<1>5. QED
  BY <1>1, <1>3, <1>4, OutcomeType DEF StepTo

LEMMA TypeCallFails ==
    ASSUME TypeInv, NEW t \in Tenants, CallFails(t)
    PROVE  TypeInv'
<1>1. pc[t] # "idle" /\ Spend("fault") /\ Abort(t) /\ budget \in Budgets
      /\ UNCHANGED <<revs, catalog, log, cached, queue, timer>>
  BY DEF CallFails, TypeInv, TypeOK, WorkerTypeOK
<1>2. QED
  BY <1>1, SpendType, AbortType

LEMMA TypeSetStatus ==
    ASSUME TypeInv, NEW t \in Tenants, SetStatus(t)
    PROVE  TypeInv'
<1>1. /\ pc[t] # "idle" /\ Finish(t) /\ UNCHANGED cached
      /\ queue' \in SUBSET Tenants /\ timer' \in SUBSET Tenants
      /\ PorchTypeOK' /\ budget \in Budgets
  BY DEF SetStatus, Requeue, TypeInv, TypeOK, PorchTypeOK, WorkerTypeOK
<1>2. CASE UNCHANGED <<log, budget>> \/ (Spend("fault") /\ UNCHANGED log)
  BY <1>1, <1>2, SpendType, FinishType
<1>3. CASE /\ w[t].rv = Len(log[t])
           /\ Store(t, [Current(t) EXCEPT !.status = EndStatus(t)])
           /\ UNCHANGED budget
  <2> DEFINE v == [Current(t) EXCEPT !.status = EndStatus(t)]
  <2>1. v \in Versions /\ v.live /\ (v.del => v.fin)
    BY <1>1, <1>3, SetStatusVersion
  <2>2. Store(t, v)
    BY <1>3
  <2> HIDE DEF v
  <2>3. QED
    BY <1>1, <1>3, <2>1, <2>2, FinishType
<1>4. QED
  BY <1>2, <1>3 DEF SetStatus

LEMMA TypeRestart ==
    ASSUME TypeInv, Restart, budget' \in Budgets
    PROVE  TypeInv'
<1>1. /\ \A x \in Tenants : Len(log[x]) \in Nat /\ Len(log[x]) > 0
      /\ UNCHANGED <<revs, catalog, log>>
  BY CurrentType DEF Restart, TypeInv, TypeOK
<1>2. /\ pc' \in [Tenants -> PCs] /\ w' \in [Tenants -> Locals]
      /\ cached' \in [Tenants -> Nat] /\ queue' \in SUBSET Tenants /\ timer' \in SUBSET Tenants
  BY <1>1, GoneType DEF Restart, PCs
<1>3. TypeOK'
  BY <1>1, <1>2 DEF TypeInv, TypeOK, PorchTypeOK, LogTypeOK, WorkerTypeOK
<1>4. ASSUME NEW x \in Tenants
      PROVE  LogInv(x)' /\ ReadInv(x)' /\ SelInv(x)'
  <2>1. cached'[x] = Len(log[x]) /\ pc'[x] = "idle" /\ w'[x] = NewLocal(Gone, 0)
    BY DEF Restart
  <2>2. LogInv(x)'
    BY <1>1, <2>1 DEF TypeInv, LogInv
  <2>3. ReadInv(x)'
    BY <2>1 DEF ReadInv
  <2>4. SelInv(x)'
    BY <2>1 DEF SelInv, LocInv, NewLocal, SyncPCs, SelPCs, ApprovePCs
  <2>5. QED
    BY <2>2, <2>3, <2>4
<1>5. QED
  BY <1>3, <1>4 DEF TypeInv

\* What a user stores for a Tenant.
LEMMA UserVersion ==
    ASSUME TypeInv, NEW t \in Tenants, UserCreate(t) \/ UserUpdate(t) \/ UserDelete(t)
    PROVE  \E v \in Versions :
             /\ Store(t, v)
             /\ ~v.live => v = Gone
             /\ v.del => v.fin
             /\ Current(t).fin => v.fin
             /\ v.live \/ ~Current(t).fin
<1>1. Current(t) \in Versions /\ Len(log[t]) \in Nat /\ Len(log[t]) > 0
  BY CurrentType DEF TypeInv, TypeOK
<1>2. (Current(t).del => Current(t).fin) /\ (~Current(t).live => Current(t) = Gone)
  BY <1>1 DEF TypeInv, LogInv, Current
<1>3. UserSpecs \subseteq SpecValues /\ Policies \subseteq DeletionPolicies
  BY TypesAssumption DEF UserSpecs, SpecValues
<1>4. CASE UserCreate(t)
  <2>1. PICK s \in UserSpecs, p \in Policies :
          Store(t, [live |-> TRUE, spec |-> s, policy |-> p, del |-> FALSE, fin |-> FALSE,
                    status |-> "None"])
    BY <1>4 DEF UserCreate
  <2>2. [live |-> TRUE, spec |-> s, policy |-> p, del |-> FALSE, fin |-> FALSE,
         status |-> "None"] \in Versions
    BY <1>3 DEF Versions, Statuses
  <2>3. ~Current(t).fin
    BY <1>2, <1>4 DEF UserCreate, Gone
  <2>4. QED
    BY <2>1, <2>2, <2>3
<1>5. CASE UserUpdate(t)
  <2>1. PICK s \in UserSpecs, p \in Policies :
          Store(t, [Current(t) EXCEPT !.spec = s, !.policy = p])
    BY <1>5 DEF UserUpdate
  <2> DEFINE v == [Current(t) EXCEPT !.spec = s, !.policy = p]
  <2>2. /\ v \in Versions /\ v.live = Current(t).live /\ v.del = Current(t).del
        /\ v.fin = Current(t).fin
    BY <1>1, <1>3 DEF Versions
  <2>3. Current(t).live
    BY <1>5 DEF UserUpdate
  <2>4. QED
    BY <1>2, <2>1, <2>2, <2>3
<1>6. CASE UserDelete(t)
  <2>1. CASE Current(t).fin
    <3> DEFINE v == [Current(t) EXCEPT !.del = TRUE]
    <3>1. v \in Versions /\ v.live = Current(t).live /\ v.fin = Current(t).fin
      BY <1>1 DEF Versions
    <3>2. Store(t, v) /\ Current(t).live
      BY <1>6, <2>1 DEF UserDelete
    <3>3. QED
      BY <2>1, <3>1, <3>2
  <2>2. CASE ~Current(t).fin
    <3>1. Store(t, Gone) /\ ~Gone.del
      BY <1>6, <2>2 DEF UserDelete, Gone
    <3>2. QED
      BY <2>2, <3>1, GoneType
  <2>3. QED
    BY <2>1, <2>2
<1>7. QED
  BY <1>4, <1>5, <1>6

LEMMA TypeUserStep ==
    ASSUME TypeInv, NEW t \in Tenants, UserStep(t)
    PROVE  TypeInv'
<1>1. /\ UserCreate(t) \/ UserUpdate(t) \/ UserDelete(t)
      /\ UNCHANGED <<revs, catalog, pc, w, cached, queue, timer>>
      /\ Spend("edit") /\ budget \in Budgets
  BY DEF UserStep, TypeInv, TypeOK, WorkerTypeOK
<1>2. PICK v \in Versions : Store(t, v) /\ (~v.live => v = Gone) /\ (v.del => v.fin)
  BY <1>1, UserVersion
<1>3. /\ LogTypeOK'
      /\ \A x \in Tenants : LogInv(x)'
      /\ \A x \in Tenants : pc'[x] = pc[x] /\ w'[x] = w[x] => ReadInv(x)' /\ SelInv(x)'
  BY <1>1, <1>2, StoreInv
<1>4. TypeOK'
  BY <1>1, <1>3, SpendType DEF TypeInv, TypeOK, PorchTypeOK, WorkerTypeOK
<1>5. QED
  BY <1>1, <1>3, <1>4 DEF TypeInv

LEMMA DriftType ==
    ASSUME revs \in [Keys -> Revs], NEW k \in Keys, DriftRev(k)
    PROVE  revs' \in [Keys -> Revs]
<1>1. revs[k] \in Revs
  OBVIOUS
<1>2. CASE PorchCall(k)
  BY <1>2, PorchCallType
<1>3. CASE revs' = [revs EXCEPT ![k].lc = "Draft"]
  BY <1>1, <1>3 DEF Revs, Lifecycles
<1>4. CASE \E b \in Bodies : revs' = [revs EXCEPT ![k] = [lc |-> "Draft", body |-> b, own |-> FALSE]]
  BY <1>4 DEF Revs, Lifecycles
<1>5. QED
  BY <1>2, <1>3, <1>4 DEF DriftRev, PorchCall

LEMMA TypeDrift ==
    ASSUME TypeInv, Drift \/ SourceStep
    PROVE  TypeInv'
<1>1. /\ revs \in [Keys -> Revs] /\ catalog \in [Sources -> Bodies \cup {Absent}]
      /\ budget \in Budgets /\ queue \in SUBSET Tenants /\ timer \in SUBSET Tenants
  BY DEF TypeInv, TypeOK, PorchTypeOK, WorkerTypeOK
<1>2. UNCHANGED <<log, pc, w, cached, queue, timer>> /\ budget' \in Budgets
  BY <1>1, SpendType DEF Drift, SourceStep
<1>3. CASE Drift
  <2>1. revs' \in [Keys -> Revs] /\ UNCHANGED catalog
    BY <1>1, <1>3, DriftType DEF Drift, DriftRev
  <2>2. QED
    BY <1>1, <1>2, <2>1, TypeStutter DEF PorchTypeOK
<1>4. CASE SourceStep
  <2>1. catalog' \in [Sources -> Bodies \cup {Absent}] /\ UNCHANGED revs
    BY <1>1, <1>4 DEF SourceStep, ChangeSource
  <2>2. QED
    BY <1>1, <1>2, <2>1, TypeStutter DEF PorchTypeOK
<1>5. QED
  BY <1>3, <1>4

LEMMA TypeNext ==
    ASSUME TypeInv, [Next]_vars
    PROVE  TypeInv'
<1>1. /\ PorchTypeOK /\ budget \in Budgets /\ queue \in SUBSET Tenants
      /\ timer \in SUBSET Tenants
  BY DEF TypeInv, TypeOK, WorkerTypeOK
<1>2. CASE UNCHANGED vars
  BY <1>1, <1>2, TypeStutter DEF vars, PorchTypeOK
<1>3. ASSUME NEW t \in Tenants, Fire(t)
      PROVE  TypeInv'
  BY <1>1, <1>3, TypeStutter DEF Fire, PorchTypeOK
<1>4. ASSUME NEW t \in Tenants, Panic(t)
      PROVE  TypeInv'
  BY <1>1, <1>4, TypeRestart DEF Panic
<1>5. CASE Crash
  BY <1>1, <1>5, SpendType, TypeRestart DEF Crash
<1>6. ASSUME NEW t \in Tenants, Call(t)
      PROVE  TypeInv'
  BY <1>6, TypeAddFinalizer, TypeRemoveFinalizer, TypeSource, TypePkgRevStep, TypeSetStatus
  DEF Call
<1>7. QED
  BY <1>2, <1>3, <1>4, <1>5, <1>6, TypeObserve, TypeBegin, TypeCallFails, TypeUserStep, TypeDrift
  DEF Next

\* Whatever the users, the other clients, the failures and the crashes do, no
\* variable leaves its type: a worker is always at one of the calls of
\* Reconcile, on a key of Porch, with a copy of a version that was stored.
THEOREM TypeCorrect == Spec => []TypeOK
<1>1. TypeInv => TypeOK
  BY DEF TypeInv
<1>2. Spec => []TypeInv
  BY TypeInit, TypeNext, PTL DEF Spec
<1>3. QED
  BY <1>1, <1>2, PTL

-----------------------------------------------------------------------------
(***************************************************************************)
(* No orphans.  The argument is about one Tenant at a time, since a worker *)
(* touches the package of its own Tenant only.                             *)
(***************************************************************************)
LEMMA OwnedShrinks ==
    ASSUME revs \in [Keys -> Revs], NEW k \in Keys, NEW x,
           \/ DeleteRev(k) \/ ProposeRev(k) \/ ApproveRev(k)
           \/ \E b \in Bodies : PutResources(k, b)
    PROVE  Owned(x)' \subseteq Owned(x)
<1> SUFFICES ASSUME NEW j \in Keys, revs'[j].lc # "None", revs'[j].own
             PROVE  revs[j].lc # "None" /\ revs[j].own
  BY DEF Owned, Exists
<1>1. revs[k] \in Revs /\ revs[j] \in Revs
  OBVIOUS
<1>2. CASE DeleteRev(k)
  BY <1>2 DEF DeleteRev, NoRev
<1>3. CASE ProposeRev(k)
  BY <1>1, <1>3 DEF ProposeRev, Revs
<1>4. CASE ApproveRev(k)
  <2>1. revs'[j].own => j # Main(k)
    BY <1>1, <1>4, MainKey DEF ApproveRev
  <2>2. j # Main(k) /\ j # k => revs'[j] = revs[j]
    BY <1>4, MainKey DEF ApproveRev
  <2>3. j = k /\ j # Main(k) => revs'[j] = [revs[k] EXCEPT !.lc = "Published"]
    BY <1>4, MainKey DEF ApproveRev
  <2>4. [revs[k] EXCEPT !.lc = "Published"].own = revs[k].own /\ revs[k].lc # "None"
    BY <1>1, <1>4 DEF Revs, ApproveRev
  <2>5. CASE j = k
    <3>1. j # Main(k)
      BY <2>1
    <3>2. revs'[j] = [revs[k] EXCEPT !.lc = "Published"]
      BY <2>3, <2>5, <3>1
    <3>3. revs'[j].own = revs[k].own
      BY <2>4, <3>2
    <3>4. revs[k].own
      BY <3>3, Zenon
    <3>5. QED
      BY <2>4, <2>5, <3>4
  <2>6. CASE j # k
    <3>1. revs'[j] = revs[j]
      BY <2>1, <2>2, <2>6
    <3>2. QED
      BY <3>1
  <2>7. QED
    BY <2>5, <2>6
<1>5. CASE \E b \in Bodies : PutResources(k, b)
  BY <1>1, <1>5 DEF PutResources, Revs
<1>6. QED
  BY <1>2, <1>3, <1>4, <1>5

LEMMA OwnedFrame ==
    ASSUME NEW x, \A j \in Keys : j.pkg = x => revs'[j] = revs[j]
    PROVE  Owned(x)' = Owned(x)
BY DEF Owned, Exists

LEMMA OwnedDrift ==
    ASSUME revs \in [Keys -> Revs], NEW k \in Keys, DriftRev(k), NEW x
    PROVE  Owned(x)' \subseteq Owned(x)
<1>1. CASE \/ DeleteRev(k) \/ ProposeRev(k) \/ ApproveRev(k)
           \/ \E b \in Bodies : PutResources(k, b)
  BY <1>1, OwnedShrinks
<1>2. CASE revs[k].lc = "Proposed" /\ revs' = [revs EXCEPT ![k].lc = "Draft"]
  <2>1. revs[k] \in Revs
    OBVIOUS
  <2>2. QED
    BY <1>2, <2>1 DEF Owned, Exists, Revs
<1>3. CASE \E b \in Bodies : revs' = [revs EXCEPT ![k] = [lc |-> "Draft", body |-> b, own |-> FALSE]]
  BY <1>3 DEF Owned, Exists
<1>4. QED
  BY <1>1, <1>2, <1>3 DEF DriftRev

\* The argument does not need the whole of what a Tenant owns: it holds for any
\* part S that only the Tenant's worker adds to.
Safe(p, fin, todo, S) ==
    /\ p \in SyncPCs => fin
    /\ S # {} => fin
    /\ p \in {"delOne", "removeFinalizer"} => S \subseteq todo
    /\ p = "removeFinalizer" => todo = {}

SafeAt(x, S) == Kept(x) /\ Safe(pc[x], Current(x).fin, w[x].todo, S)

AllSafe(m) == \A x \in Tenants : SafeAt(x, m[x])

\* A step takes the part S to the part T: nothing joins it that was owned before.
Joins(x, S, T) == T \subseteq Owned(x)' /\ T \cap Owned(x) \subseteq S

AllJoin(m, m1) == \A x \in Tenants : Joins(x, m[x], m1[x])

\* Steps that leave the Tenant, its worker and what it owns alone.
LEMMA OrphanFrame ==
    ASSUME TypeInv, NEW x \in Tenants, NEW S, NEW T, SafeAt(x, S),
           Joins(x, S, T), log'[x] = log[x],
           cached'[x] \in cached[x]..Len(log[x]), pc'[x] = pc[x], w'[x] = w[x],
           Owned(x)' \subseteq Owned(x)
    PROVE  SafeAt(x, T)'
<1>1. cached[x] \in Nat /\ Len(log[x]) \in Nat
  BY CurrentType DEF TypeInv, TypeOK
<1>2. cached'[x]..Len(log'[x]) \subseteq cached[x]..Len(log[x])
  BY <1>1
<1>3. Current(x)' = Current(x)
  BY DEF Current
<1>4. Kept(x)'
  BY <1>2, <1>3 DEF SafeAt, Kept
<1>5. Safe(pc[x], Current(x).fin, w[x].todo, T)'
  BY <1>3 DEF SafeAt, Safe, Joins
<1>6. QED
  BY <1>4, <1>5 DEF SafeAt

\* Steps of a worker that neither creates nor ends a deletion.
LEMMA OrphanRest ==
    ASSUME TypeInv, NEW x \in Tenants, NEW S, NEW T, SafeAt(x, S),
           Joins(x, S, T), UNCHANGED <<log, cached>>,
           pc'[x] \notin {"delOne", "removeFinalizer"},
           pc'[x] \in SyncPCs => Current(x).fin,
           Owned(x)' \subseteq Owned(x) \/ Current(x).fin
    PROVE  SafeAt(x, T)'
<1>1. Current(x)' = Current(x)
  BY DEF Current
<1>2. Kept(x)'
  BY <1>1 DEF SafeAt, Kept
<1>3. Safe(pc[x], Current(x).fin, w[x].todo, T)'
  BY <1>1 DEF SafeAt, Safe, Joins
<1>4. QED
  BY <1>2, <1>3 DEF SafeAt

\* Writes that do not take the finalizer away.
LEMMA OrphanStore ==
    ASSUME TypeInv, NEW t \in Tenants, NEW S, NEW T, SafeAt(t, S),
           Joins(t, S, T), NEW v \in Versions, Store(t, v),
           Current(t).fin => v.fin, UNCHANGED <<revs, cached>>,
           \/ pc'[t] = pc[t] /\ w'[t] = w[t]
           \/ pc'[t] \notin {"delOne", "removeFinalizer"} /\ (pc'[t] \in SyncPCs => v.fin)
    PROVE  SafeAt(t, T)'
<1>1. LogTypeOK /\ Len(log[t]) \in Nat /\ cached[t] \in Nat /\ Len(log[t]) > 0
      /\ cached[t] \in 1..Len(log[t])
  BY CurrentType DEF TypeInv, TypeOK, LogInv
<1>2. /\ Current(t)' = v
      /\ Len(log'[t]) \in {Len(log[t]), Len(log[t]) + 1}
      /\ \A i \in 1..Len(log[t]) : log'[t][i] = log[t][i]
      /\ \A i \in 1..Len(log'[t]) : i \in 1..Len(log[t]) \/ log'[t][i] = v
  BY <1>1, StoreLog
<1>3. Owned(t)' = Owned(t)
  BY DEF Owned, Exists
<1>4. Kept(t)'
  <2> SUFFICES ASSUME NEW i \in cached[t]..Len(log'[t]), log'[t][i].fin, ~log'[t][i].del
               PROVE  v.fin
    BY <1>2 DEF Kept
  <2>1. CASE i \in cached[t]..Len(log[t])
    <3>1. log'[t][i] = log[t][i]
      BY <1>1, <1>2, <2>1
    <3>2. QED
      BY <2>1, <3>1 DEF SafeAt, Kept
  <2>2. CASE i \notin cached[t]..Len(log[t])
    BY <1>1, <1>2, <2>2
  <2>3. QED
    BY <2>1, <2>2
<1>5. Safe(pc[t], Current(t).fin, w[t].todo, T)'
  BY <1>2, <1>3 DEF SafeAt, Safe, Joins
<1>6. QED
  BY <1>4, <1>5 DEF SafeAt

\* Every other Tenant is left alone by a worker that calls Porch for t.
LEMMA OrphanOthers ==
    ASSUME TypeInv, NEW t \in Tenants, NEW x \in Tenants, x # t, NEW S, NEW T, SafeAt(x, S),
           Joins(x, S, T),
           OwnCall(t), log'[x] = log[x], cached'[x] = cached[x],
           pc'[x] = pc[x], w'[x] = w[x]
    PROVE  SafeAt(x, T)'
<1>1. revs \in [Keys -> Revs] /\ LogInv(x) /\ Len(log[x]) \in Nat
  BY CurrentType DEF TypeInv, TypeOK, PorchTypeOK
<1>2. \A j \in Keys : j.pkg = x => revs'[j] = revs[j]
  BY <1>1, PorchCallType DEF OwnCall
<1>3. Owned(x)' \subseteq Owned(x)
  BY <1>2, OwnedFrame
<1>4. cached'[x] \in cached[x]..Len(log[x])
  BY <1>1 DEF LogInv
<1>5. QED
  BY <1>3, <1>4, OrphanFrame

\* Delete: the worker does not go on to RemoveFinalizer before every revision
\* of its Tenant is gone, unless a failed list passes for an empty one.
LEMMA OrphanDelete ==
    ASSUME TypeInv, NEW t \in Tenants, NEW S, NEW T, SafeAt(t, S),
           Joins(t, S, T), ~PorchMayVanish,
           DeleteList(t) \/ DeleteOne(t), UNCHANGED <<log, cached>>
    PROVE  SafeAt(t, T)'
<1>1. /\ WorkerTypeOK /\ w[t] \in Locals /\ revs \in [Keys -> Revs]
      /\ w[t].todo \subseteq {k \in Keys : k.pkg = t}
  BY DEF TypeInv, TypeOK, PorchTypeOK, WorkerTypeOK, SelInv, LocInv
<1>2. ASSUME Abort(t), Owned(t)' \subseteq Owned(t)
      PROVE  SafeAt(t, T)'
  <2>1. pc'[t] = "setError"
    BY <1>2, AbortEffect
  <2>2. QED
    BY <1>2, <2>1, OrphanRest DEF SyncPCs, ApprovePCs
<1>3. ASSUME NEW D \in SUBSET Keys, Goto(t, DeleteNext(D), [w[t] EXCEPT !.todo = D]),
             T \subseteq D, Owned(t)' \subseteq Owned(t)
      PROVE  SafeAt(t, T)'
  <2>1. DeleteNext(D) \in {"delOne", "removeFinalizer"} /\ DeleteNext(D) \in PCs
    BY DEF DeleteNext, PCs, DeletePCs
  <2>2. [w[t] EXCEPT !.todo = D] \in Locals /\ [w[t] EXCEPT !.todo = D].todo = D
    BY <1>1 DEF Locals
  <2>3. pc'[t] = DeleteNext(D) /\ w'[t].todo = D
    <3> DEFINE loc == [w[t] EXCEPT !.todo = D]
    <3>1. loc \in Locals /\ loc.todo = D /\ Goto(t, DeleteNext(D), loc)
      BY <1>3, <2>2
    <3> HIDE DEF loc
    <3>2. pc'[t] = DeleteNext(D) /\ w'[t] = loc
      BY <1>1, <2>1, <3>1, GotoEffect
    <3>3. QED
      BY <3>1, <3>2
  <2>4. Current(t)' = Current(t)
    BY DEF Current
  <2>5. T \subseteq S
    BY <1>3 DEF Joins
  <2>6. Safe(pc[t], Current(t).fin, w[t].todo, T)'
    BY <1>3, <2>1, <2>3, <2>4, <2>5 DEF SafeAt, Safe, DeleteNext, SyncPCs, ApprovePCs
  <2>7. Kept(t)'
    BY <2>4 DEF SafeAt, Kept
  <2>8. QED
    BY <2>6, <2>7 DEF SafeAt
<1>4. CASE DeleteList(t)
  <2>1. /\ Goto(t, DeleteNext(Listed(t)), [w[t] EXCEPT !.todo = Listed(t)])
        /\ UNCHANGED revs
    BY <1>4 DEF DeleteList
  <2>2. /\ T \subseteq Listed(t) /\ Owned(t)' \subseteq Owned(t)
        /\ Listed(t) \in SUBSET Keys
    BY <2>1 DEF Joins, Owned, Listed, Exists
  <2>3. QED
    BY <1>3, <2>1, <2>2
<1>5. CASE DeleteOne(t)
  <2>1. PICK k \in w[t].todo :
          LET rest == w[t].todo \ {k} IN
          \/ DeleteRev(k) /\ Reply(t, DeleteNext(rest), [w[t] EXCEPT !.todo = rest])
          \/ ~Exists(k) /\ Refuse(t)
    BY <1>5 DEF DeleteOne
  <2>2. CASE ~Exists(k) /\ Refuse(t)
    <3>1. Abort(t) /\ Owned(t)' \subseteq Owned(t)
      BY <2>2 DEF Refuse, Owned, Exists
    <3>2. QED
      BY <1>2, <3>1
  <2>3. CASE DeleteRev(k) /\ Reply(t, DeleteNext(w[t].todo \ {k}),
                                   [w[t] EXCEPT !.todo = w[t].todo \ {k}])
    <3>1. Owned(t)' \subseteq Owned(t)
      BY <1>1, <2>3, OwnedShrinks
    <3>2. k \notin Owned(t)'
      BY <1>1, <2>3 DEF DeleteRev, NoRev, Owned, Exists
    <3>3. S \subseteq w[t].todo
      BY <1>5 DEF SafeAt, Safe, DeleteOne
    <3>4. T \subseteq w[t].todo \ {k} /\ w[t].todo \ {k} \in SUBSET Keys
      BY <1>1, <3>1, <3>2, <3>3 DEF Joins
    <3>5. QED
      BY <1>2, <1>3, <2>3, <3>1, <3>4 DEF Reply
  <2>4. QED
    BY <2>1, <2>2, <2>3
<1>6. QED
  BY <1>4, <1>5

LEMMA OrphanPkgRevStep ==
    ASSUME TypeInv, NEW m, NEW m1, AllSafe(m), AllJoin(m, m1), ~PorchMayVanish, NEW t \in Tenants, PkgRevStep(t),
           UNCHANGED ctlVars
    PROVE  AllSafe(m1)'
<1>1. /\ OwnCall(t)
      /\ UNCHANGED <<log, cached>>
      /\ \A x \in Tenants : SafeAt(x, m[x]) /\ Joins(x, m[x], m1[x])
  BY PkgRevOutcome DEF PkgRevStep, ctlVars, AllSafe, AllJoin
<1>2. PICK p, loc : StepTo(t, p, loc)
  BY PkgRevOutcome
<1>3. /\ pc'[t] = p
      /\ \A x \in Tenants \ {t} : pc'[x] = pc[x] /\ w'[x] = w[x]
  BY <1>2, GotoEffect DEF StepTo, Outcome, TypeInv, TypeOK
<1>4. ASSUME NEW x \in Tenants, x # t
      PROVE  SafeAt(x, m1[x])'
  BY <1>1, <1>3, <1>4, OrphanOthers
<1>5. SafeAt(t, m1[t])'
  <2>1. CASE DeleteList(t) \/ DeleteOne(t)
    BY <1>1, <2>1, OrphanDelete
  <2>2. CASE ~(DeleteList(t) \/ DeleteOne(t))
    <3>1. pc[t] \in SyncPCs \ DeletePCs
      BY <2>2
      DEF PkgRevStep, List, CreateFirst, GetResources, CreateNext, GetNewResources,
          UpdateResources, ApproveGet, Propose, ApprovalGet, ApprovalPut, SyncPCs, ApprovePCs,
          DeletePCs
    <3>2. Current(t).fin
      BY <1>1, <3>1 DEF SafeAt, Safe
    <3>3. p \notin {"delOne", "removeFinalizer"}
      BY <1>2, <3>1 DEF StepTo, Outcome, DeletePCs
    <3>4. QED
      BY <1>1, <1>3, <3>2, <3>3, OrphanRest
  <2>3. QED
    BY <2>1, <2>2
<1>6. QED
  BY <1>4, <1>5 DEF AllSafe

\* Steps in which only the worker of t and the log of t may change.
LEMMA OrphanLocal ==
    ASSUME TypeInv, NEW m, NEW m1, AllSafe(m), AllJoin(m, m1), NEW t \in Tenants, SafeAt(t, m1[t])', UNCHANGED <<revs, cached>>,
           \A x \in Tenants \ {t} : log'[x] = log[x] /\ pc'[x] = pc[x] /\ w'[x] = w[x]
    PROVE  AllSafe(m1)'
<1>1. OwnCall(t)
  BY DEF OwnCall
<1>2. ASSUME NEW x \in Tenants, x # t
      PROVE  SafeAt(x, m1[x])'
  BY <1>1, <1>2, OrphanOthers DEF AllSafe, AllJoin
<1>3. QED
  BY <1>2 DEF AllSafe

LEMMA OrphanIdleSteps ==
    ASSUME TypeInv, NEW m, NEW m1, AllSafe(m), AllJoin(m, m1), UNCHANGED <<log, pc, w>>,
           \A x \in Tenants : cached'[x] \in cached[x]..Len(log[x]),
           \A x \in Tenants : Owned(x)' \subseteq Owned(x)
    PROVE  AllSafe(m1)'
<1>1. ASSUME NEW x \in Tenants
      PROVE  SafeAt(x, m1[x])'
  BY OrphanFrame DEF AllSafe, AllJoin
<1>2. QED
  BY <1>1 DEF AllSafe

LEMMA CachedRange ==
    ASSUME TypeInv, NEW x \in Tenants
    PROVE  /\ cached[x] \in cached[x]..Len(log[x])
           /\ Len(log[x]) \in cached[x]..Len(log[x])
           /\ cached[x] \in 1..Len(log[x]) /\ cached[x] \in Nat /\ Len(log[x]) \in Nat
<1>1. cached[x] \in 1..Len(log[x]) /\ Len(log[x]) \in Nat /\ cached[x] \in Nat
  BY CurrentType DEF TypeInv, TypeOK, LogInv
<1>2. QED
  BY <1>1

LEMMA OrphanObserve ==
    ASSUME TypeInv, NEW m, NEW m1, AllSafe(m), AllJoin(m, m1), NEW t \in Tenants, Observe(t)
    PROVE  AllSafe(m1)'
<1>1. \A x \in Tenants : cached'[x] \in cached[x]..Len(log[x])
  <2>1. cached \in [Tenants -> Nat]
    BY DEF TypeInv, TypeOK
  <2>2. QED
    BY <2>1, CachedRange DEF Observe
<1>2. \A x \in Tenants : Owned(x)' \subseteq Owned(x)
  BY DEF Observe, Owned, Exists
<1>3. QED
  BY <1>1, <1>2, OrphanIdleSteps DEF Observe

LEMMA OrphanBegin ==
    ASSUME TypeInv, NEW m, NEW m1, AllSafe(m), AllJoin(m, m1), NEW t \in Tenants, Begin(t)
    PROVE  AllSafe(m1)'
<1>1. UNCHANGED <<revs, log, cached>> /\ WorkerTypeOK /\ SafeAt(t, m[t]) /\ Joins(t, m[t], m1[t])
  BY DEF Begin, TypeInv, TypeOK, AllSafe, AllJoin
<1>2. \A x \in Tenants : Owned(x)' \subseteq Owned(x) /\ cached'[x] \in cached[x]..Len(log[x])
  BY <1>1, CachedRange DEF Owned, Exists
<1>3. CASE UNCHANGED <<pc, w>>
  BY <1>1, <1>2, <1>3, OrphanIdleSteps
<1>4. ASSUME NEW p, p = IF Cached(t).fin THEN AfterFinalizer(Cached(t)) ELSE "addFinalizer",
             Goto(t, p, NewLocal(Cached(t), cached[t]))
      PROVE  AllSafe(m1)'
  <2>1. p \in {"delList", "srcList", "addFinalizer"}
    BY <1>4 DEF AfterFinalizer
  <2>2. /\ pc'[t] = p
        /\ \A x \in Tenants \ {t} : log'[x] = log[x] /\ pc'[x] = pc[x] /\ w'[x] = w[x]
    BY <1>1, <1>4 DEF Goto, WorkerTypeOK
  <2>3. p = "srcList" => Cached(t).fin /\ ~Cached(t).del
    BY <1>4 DEF AfterFinalizer
  <2>4. p = "srcList" => Current(t).fin
    BY <1>1, <2>3, CachedRange DEF SafeAt, Kept, Cached
  <2>5. p \in SyncPCs => p = "srcList"
    BY <2>1 DEF SyncPCs, ApprovePCs
  <2>6. SafeAt(t, m1[t])'
    BY <1>1, <1>2, <2>1, <2>2, <2>4, <2>5, OrphanRest
  <2>7. QED
    BY <1>1, <2>2, <2>6, OrphanLocal
<1>5. QED
  BY <1>3, <1>4 DEF Begin

LEMMA OrphanAbort ==
    ASSUME TypeInv, NEW m, NEW m1, AllSafe(m), AllJoin(m, m1), NEW t \in Tenants, Abort(t), UNCHANGED <<revs, log, cached>>
    PROVE  AllSafe(m1)'
<1>1. pc'[t] = "setError" /\ \A x \in Tenants \ {t} : pc'[x] = pc[x] /\ w'[x] = w[x]
  BY AbortEffect
<1>2. Owned(t)' \subseteq Owned(t)
  BY DEF Owned, Exists
<1>3. SafeAt(t, m1[t])'
  BY <1>1, <1>2, OrphanRest DEF AllSafe, AllJoin, SyncPCs, ApprovePCs
<1>4. QED
  BY <1>1, <1>3, OrphanLocal

LEMMA OrphanAddFinalizer ==
    ASSUME TypeInv, NEW m, NEW m1, AllSafe(m), AllJoin(m, m1), NEW t \in Tenants, AddFinalizer(t)
    PROVE  AllSafe(m1)'
<1> DEFINE v == [Current(t) EXCEPT !.fin = TRUE]
<1>1. /\ pc[t] = "addFinalizer" /\ UNCHANGED <<revs, cached>>
      /\ LogTypeOK /\ WorkerTypeOK /\ SafeAt(t, m[t]) /\ Joins(t, m[t], m1[t])
  BY DEF AddFinalizer, TypeInv, TypeOK, AllSafe, AllJoin
<1>2. CASE Abort(t) /\ UNCHANGED <<log, budget>>
  BY <1>1, <1>2, OrphanAbort
<1>3. ASSUME w[t].rv = Len(log[t]), Store(t, v),
             Reply(t, AfterFinalizer(v), NewLocal(v, Len(log[t]) + 1))
      PROVE  AllSafe(m1)'
  <2>1. v \in Versions /\ v.fin /\ AfterFinalizer(v) = "srcList"
    BY <1>1, <1>3, AddFinalizerVersion
  <2> HIDE DEF v
  <2>2. \A x \in Tenants \ {t} : log'[x] = log[x]
    BY <1>1, <1>3, <2>1, StoreLog
  <2>3. /\ pc'[t] \in {"srcList", "setError"}
        /\ \A x \in Tenants \ {t} : pc'[x] = pc[x] /\ w'[x] = w[x]
    BY <1>1, <1>3, <2>1, AbortEffect DEF Reply, Goto, WorkerTypeOK
  <2>4. SafeAt(t, m1[t])'
    BY <1>1, <1>3, <2>1, <2>3, OrphanStore
  <2>5. QED
    BY <1>1, <2>2, <2>3, <2>4, OrphanLocal
<1>4. QED
  BY <1>2, <1>3 DEF AddFinalizer

\* The worker that removes the finalizer has read the newest version, so the
\* informer is up to date, and it has deleted everything the Tenant owned.
LEMMA OrphanRemoveFinalizer ==
    ASSUME TypeInv, NEW m, NEW m1, AllSafe(m), AllJoin(m, m1), NEW t \in Tenants, RemoveFinalizer(t)
    PROVE  AllSafe(m1)'
<1>1. /\ pc[t] = "removeFinalizer" /\ UNCHANGED <<revs, cached>>
      /\ LogTypeOK /\ WorkerTypeOK /\ SafeAt(t, m[t]) /\ Joins(t, m[t], m1[t]) /\ Owned(t)' = Owned(t)
  BY DEF RemoveFinalizer, TypeInv, TypeOK, AllSafe, AllJoin, Owned, Exists
<1>2. m1[t] = {}
  BY <1>1 DEF SafeAt, Safe, Joins
<1>3. ASSUME Abort(t) \/ Finish(t)
      PROVE  /\ pc'[t] \in {"setError", "idle"}
             /\ \A x \in Tenants \ {t} : pc'[x] = pc[x] /\ w'[x] = w[x]
  BY <1>1, <1>3, AbortEffect DEF Finish, Goto, WorkerTypeOK
<1>4. CASE UNCHANGED log /\ (Abort(t) \/ Finish(t))
  <2>1. SafeAt(t, m1[t])'
    BY <1>1, <1>3, <1>4, OrphanRest DEF SyncPCs, ApprovePCs
  <2>2. QED
    BY <1>1, <1>3, <1>4, <2>1, OrphanLocal
<1>5. CASE w[t].rv = Len(log[t]) /\ Store(t, Gone) /\ (Abort(t) \/ Finish(t))
  <2>1. /\ \A x \in Tenants \ {t} : log'[x] = log[x]
        /\ Len(log'[t]) \in {Len(log[t]), Len(log[t]) + 1}
        /\ \A i \in 1..Len(log[t]) : log'[t][i] = log[t][i]
        /\ \A i \in 1..Len(log'[t]) : i \in 1..Len(log[t]) \/ log'[t][i] = Gone
    BY <1>1, <1>5, GoneType, StoreLog
  <2>2. cached[t] = Len(log[t]) /\ log[t][Len(log[t])].del /\ Len(log[t]) \in Nat
    BY <1>1, <1>5, CachedRange DEF TypeInv, ReadInv, DeletePCs
  <2>3. Kept(t)'
    <3>1. ASSUME NEW i \in cached'[t]..Len(log'[t])
          PROVE  ~(log'[t][i].fin /\ ~log'[t][i].del)
      <4>1. i \in 1..Len(log'[t]) /\ (i \in 1..Len(log[t]) => i = Len(log[t]))
        BY <1>1, <2>1, <2>2, CachedRange
      <4>2. CASE i \in 1..Len(log[t])
        BY <2>1, <2>2, <4>1, <4>2
      <4>3. CASE log'[t][i] = Gone
        BY <4>3 DEF Gone
      <4>4. QED
        BY <2>1, <4>1, <4>2, <4>3
    <3>2. QED
      BY <3>1 DEF Kept
  <2>4. SafeAt(t, m1[t])'
    BY <1>2, <1>3, <1>5, <2>3 DEF SafeAt, Safe, SyncPCs, ApprovePCs
  <2>5. QED
    BY <1>1, <1>3, <1>5, <2>1, <2>4, OrphanLocal
<1>6. QED
  BY <1>4, <1>5 DEF RemoveFinalizer

LEMMA OrphanSource ==
    ASSUME TypeInv, NEW m, NEW m1, AllSafe(m), AllJoin(m, m1), NEW t \in Tenants, SourceList(t) \/ SourceGet(t)
    PROVE  AllSafe(m1)'
<1>1. /\ pc[t] \in {"srcList", "srcGet"} /\ UNCHANGED <<revs, log, cached>>
      /\ WorkerTypeOK /\ SafeAt(t, m[t]) /\ Joins(t, m[t], m1[t])
  BY DEF SourceList, SourceGet, TypeInv, TypeOK, AllSafe, AllJoin
<1>2. CASE Abort(t)
  BY <1>1, <1>2, OrphanAbort
<1>3. ASSUME NEW p \in {"srcGet", "list"}, NEW loc, Goto(t, p, loc)
      PROVE  AllSafe(m1)'
  <2>1. /\ pc'[t] = p
        /\ \A x \in Tenants \ {t} : log'[x] = log[x] /\ pc'[x] = pc[x] /\ w'[x] = w[x]
    BY <1>1, <1>3 DEF Goto, WorkerTypeOK
  <2>2. Current(t).fin
    BY <1>1 DEF SafeAt, Safe, SyncPCs
  <2>3. SafeAt(t, m1[t])'
    BY <1>1, <2>1, <2>2, OrphanRest
  <2>4. QED
    BY <1>1, <2>1, <2>3, OrphanLocal
<1>4. QED
  BY <1>2, <1>3 DEF SourceList, SourceGet

LEMMA OrphanSetStatus ==
    ASSUME TypeInv, NEW m, NEW m1, AllSafe(m), AllJoin(m, m1), NEW t \in Tenants, SetStatus(t)
    PROVE  AllSafe(m1)'
<1>1. /\ pc[t] # "idle" /\ Finish(t) /\ UNCHANGED <<revs, cached>>
      /\ LogTypeOK /\ WorkerTypeOK /\ SafeAt(t, m[t]) /\ Joins(t, m[t], m1[t])
  BY DEF SetStatus, TypeInv, TypeOK, AllSafe, AllJoin
<1>2. /\ pc'[t] = "idle" /\ pc'[t] \notin SyncPCs
      /\ \A x \in Tenants \ {t} : pc'[x] = pc[x] /\ w'[x] = w[x]
  BY <1>1 DEF Finish, Goto, WorkerTypeOK, SyncPCs, ApprovePCs
<1>3. CASE UNCHANGED log
  <2>1. Owned(t)' \subseteq Owned(t)
    BY <1>1 DEF Owned, Exists
  <2>2. SafeAt(t, m1[t])'
    BY <1>1, <1>2, <1>3, <2>1, OrphanRest
  <2>3. QED
    BY <1>1, <1>2, <1>3, <2>2, OrphanLocal
<1>4. CASE w[t].rv = Len(log[t]) /\ Store(t, [Current(t) EXCEPT !.status = EndStatus(t)])
  <2> DEFINE v == [Current(t) EXCEPT !.status = EndStatus(t)]
  <2>1. v \in Versions /\ v.fin = Current(t).fin
    BY <1>1, <1>4, SetStatusVersion
  <2>2. Store(t, v)
    BY <1>4
  <2> HIDE DEF v
  <2>3. \A x \in Tenants \ {t} : log'[x] = log[x]
    BY <1>1, <2>1, <2>2, StoreLog
  <2>4. SafeAt(t, m1[t])'
    BY <1>1, <1>2, <2>1, <2>2, OrphanStore
  <2>5. QED
    BY <1>1, <1>2, <2>3, <2>4, OrphanLocal
<1>5. QED
  BY <1>3, <1>4 DEF SetStatus

LEMMA OrphanRestart ==
    ASSUME TypeInv, NEW m, NEW m1, AllSafe(m), AllJoin(m, m1), Restart
    PROVE  AllSafe(m1)'
<1>1. ASSUME NEW x \in Tenants
      PROVE  SafeAt(x, m1[x])'
  <2>1. /\ cached'[x] = Len(log[x]) /\ pc'[x] = "idle" /\ UNCHANGED <<revs, log>>
        /\ Len(log[x]) \in Nat
    BY CachedRange DEF Restart
  <2>2. Current(x)' = Current(x) /\ Owned(x)' = Owned(x)
    BY <2>1 DEF Current, Owned, Exists
  <2>3. Kept(x)'
    BY <2>1 DEF Kept, Current
  <2>4. m1[x] \subseteq m[x] /\ SafeAt(x, m[x])
    BY <2>2 DEF AllSafe, AllJoin, Joins
  <2>5. QED
    BY <2>1, <2>2, <2>3, <2>4 DEF SafeAt, Safe, SyncPCs, ApprovePCs
<1>2. QED
  BY <1>1 DEF AllSafe

LEMMA OrphanUserStep ==
    ASSUME TypeInv, NEW m, NEW m1, AllSafe(m), AllJoin(m, m1), NEW t \in Tenants, UserStep(t)
    PROVE  AllSafe(m1)'
<1>1. /\ UNCHANGED <<revs, pc, w, cached>> /\ LogTypeOK /\ SafeAt(t, m[t]) /\ Joins(t, m[t], m1[t])
      /\ UserCreate(t) \/ UserUpdate(t) \/ UserDelete(t)
  BY DEF UserStep, TypeInv, TypeOK, AllSafe, AllJoin
<1>2. PICK v \in Versions : Store(t, v) /\ (Current(t).fin => v.fin)
  BY <1>1, UserVersion
<1>3. \A x \in Tenants \ {t} : log'[x] = log[x]
  BY <1>1, <1>2, StoreLog
<1>4. SafeAt(t, m1[t])'
  BY <1>1, <1>2, OrphanStore
<1>5. QED
  BY <1>1, <1>3, <1>4, OrphanLocal

LEMMA OrphanDrift ==
    ASSUME TypeInv, NEW m, NEW m1, AllSafe(m), AllJoin(m, m1), Drift \/ SourceStep
    PROVE  AllSafe(m1)'
<1>1. UNCHANGED <<log, pc, w, cached>> /\ revs \in [Keys -> Revs]
  BY DEF Drift, SourceStep, TypeInv, TypeOK, PorchTypeOK
<1>2. \A x \in Tenants : Owned(x)' \subseteq Owned(x)
  <2>1. CASE Drift
    BY <1>1, <2>1, OwnedDrift DEF Drift
  <2>2. CASE SourceStep
    BY <2>2 DEF SourceStep, ChangeSource, Owned, Exists
  <2>3. QED
    BY <2>1, <2>2
<1>3. QED
  BY <1>1, <1>2, CachedRange, OrphanIdleSteps

LEMMA SafeNext ==
    ASSUME TypeInv, NEW m, NEW m1, AllSafe(m), AllJoin(m, m1), ~PorchMayVanish, [Next]_vars
    PROVE  \A x \in Tenants : Kept(x)' /\ Safe(pc'[x], Current(x)'.fin, w'[x].todo, m1[x])
<1> SUFFICES AllSafe(m1)'
  BY DEF AllSafe, SafeAt, Safe
<1>1. CASE UNCHANGED vars
  <2>1. \A x \in Tenants : Owned(x)' \subseteq Owned(x) /\ cached'[x] \in cached[x]..Len(log[x])
    BY <1>1, CachedRange DEF vars, Owned, Exists
  <2>2. QED
    BY <1>1, <2>1, OrphanIdleSteps DEF vars
<1>2. ASSUME NEW t \in Tenants, Fire(t)
      PROVE  AllSafe(m1)'
  BY <1>2, CachedRange, OrphanIdleSteps DEF Fire, Owned, Exists
<1>3. ASSUME NEW t \in Tenants, CallFails(t)
      PROVE  AllSafe(m1)'
  BY <1>3, OrphanAbort DEF CallFails
<1>4. ASSUME NEW t \in Tenants, Panic(t)
      PROVE  AllSafe(m1)'
  BY <1>4, OrphanRestart DEF Panic
<1>5. CASE Crash
  BY <1>5, OrphanRestart DEF Crash
<1>6. ASSUME NEW t \in Tenants, Call(t)
      PROVE  AllSafe(m1)'
  BY <1>6, OrphanAddFinalizer, OrphanRemoveFinalizer, OrphanSource, OrphanPkgRevStep,
     OrphanSetStatus DEF Call
<1>7. QED
  BY <1>1, <1>2, <1>3, <1>4, <1>5, <1>6, OrphanObserve, OrphanBegin, OrphanUserStep, OrphanDrift
  DEF Next

LEMMA OrphanNext ==
    ASSUME TypeInv, OrphanInv, ~PorchMayVanish, [Next]_vars
    PROVE  OrphanInv'
<1> DEFINE m  == [x \in Tenants |-> Owned(x)]
           m1 == [x \in Tenants |-> Owned(x)']
<1>1. AllSafe(m)
  BY DEF AllSafe, SafeAt, Safe, OrphanInv, Holding, DeleteInv
<1>2. AllJoin(m, m1)
  BY DEF AllJoin, Joins
<1>3. \A x \in Tenants : m1[x] = Owned(x)'
  OBVIOUS
<1> HIDE DEF m, m1
<1>4. \A x \in Tenants : Kept(x)' /\ Safe(pc'[x], Current(x)'.fin, w'[x].todo, m1[x])
  BY <1>1, <1>2, SafeNext
<1>5. QED
  BY <1>3, <1>4 DEF Safe, OrphanInv, Holding, DeleteInv

LEMMA OrphanInit == Init => OrphanInv
<1> SUFFICES ASSUME Init, NEW x \in Tenants
             PROVE  Kept(x) /\ Holding(x) /\ DeleteInv(x)
  BY DEF OrphanInv
<1>1. pc[x] = "idle" /\ log[x] = <<Gone>> /\ cached[x] = 1
  BY DEF Init, WorkerInit, LogInit
<1>2. Owned(x) = {}
  BY DEF Init, PorchInit, Owned, Exists, NoRev
<1>3. Kept(x)
  BY <1>1 DEF Kept, Current
<1>4. Holding(x) /\ DeleteInv(x)
  BY <1>1, <1>2 DEF Holding, DeleteInv, SyncPCs, ApprovePCs
<1>5. QED
  BY <1>3, <1>4

\* The controller cleans up whatever the deletion policy is.
LEMMA NothingLeft ==
    ASSUME TypeInv, OrphanInv, NEW t \in Tenants, ~Current(t).live
    PROVE  Owned(t) = {}
<1>1. Current(t) = Gone
  BY CurrentType DEF TypeInv, TypeOK, LogInv, Current
<1>2. ~Current(t).fin
  BY <1>1 DEF Gone
<1>3. QED
  BY <1>2 DEF OrphanInv, Holding

LEMMA OrphanImplies == TypeInv /\ OrphanInv => NoOrphan
BY NothingLeft DEF NoOrphan

\* For every number of Tenants, workers, failures and crashes: as long as Porch
\* does not answer a list with NotFound, no package revision that was created
\* for a Tenant outlives it, when its deletion policy is "delete".
THEOREM NoOrphanCorrect ==
    ASSUME ~PorchMayVanish
    PROVE  Spec => []NoOrphan
<1>1. Init => TypeInv /\ OrphanInv
  BY TypeInit, OrphanInit
<1>2. TypeInv /\ OrphanInv /\ [Next]_vars => (TypeInv /\ OrphanInv)'
  BY TypeNext, OrphanNext
<1>3. Spec => [](TypeInv /\ OrphanInv)
  BY <1>1, <1>2, PTL DEF Spec
<1>4. QED
  BY <1>3, OrphanImplies, PTL
=============================================================================
