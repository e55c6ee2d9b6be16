---------------------------- MODULE PublishProofs ----------------------------
(***************************************************************************)
(* No revision is proposed or published before it has been filled in, for  *)
(* every value of the constants and whether or not lists answer NotFound.  *)
(***************************************************************************)
EXTENDS TenantControllerProofs

\* A worker that is about to propose or approve a revision has selected one
\* that holds a wanted package by now, if it still exists.
Filled(x) ==
    pc[x] \in ApprovePCs /\ Exists(w[x].sel) => revs[w[x].sel].body # InitBody

FillInv == NeverPublishInit /\ \A x \in Tenants : Filled(x)

-----------------------------------------------------------------------------
(***************************************************************************)
(* Calls to Porch.  Only a proposal could publish what was never filled.   *)
(***************************************************************************)
SafeCall(k) ==
    \/ CreateRev(k)
    \/ DeleteRev(k)
    \/ \E b \in Bodies : PutResources(k, b)
    \/ ProposeRev(k) /\ revs[k].body # InitBody
    \/ ApproveRev(k)

LEMMA ApproveBody ==
    ASSUME revs \in [Keys -> Revs], NEW k \in Keys, ApproveRev(k), NEW j \in Keys
    PROVE  revs'[j] = revs[j] \/ revs'[j].body = revs[k].body
<1>1. \/ revs'[j] = revs[j]
      \/ revs'[j] = [revs[k] EXCEPT !.lc = "Published"]
      \/ revs'[j] = [lc |-> "Published", body |-> revs[k].body, own |-> FALSE]
  BY MainKey DEF ApproveRev
<1>2. [revs[k] EXCEPT !.lc = "Published"].body = revs[k].body
  BY DEF Revs
<1>3. CASE revs'[j] = [revs[k] EXCEPT !.lc = "Published"]
  BY <1>2, <1>3, Zenon
<1>4. CASE revs'[j] = [lc |-> "Published", body |-> revs[k].body, own |-> FALSE]
  BY <1>4
<1>5. QED
  BY <1>1, <1>3, <1>4, Zenon

LEMMA SafeCallKeeps ==
    ASSUME revs \in [Keys -> Revs], NeverPublishInit, NEW k \in Keys, SafeCall(k)
    PROVE  NeverPublishInit'
<1> SUFFICES ASSUME NEW j \in Keys, revs'[j].lc \in {"Proposed", "Published"}
             PROVE  revs'[j].body # InitBody
  BY DEF NeverPublishInit
<1>1. /\ revs[k] \in Revs /\ revs[j] \in Revs
      /\ revs[j].lc \in {"Proposed", "Published"} => revs[j].body # InitBody
      /\ revs[k].lc \in {"Proposed", "Published"} => revs[k].body # InitBody
  BY DEF NeverPublishInit
<1>2. CASE CreateRev(k)
  BY <1>1, <1>2 DEF CreateRev
<1>3. CASE DeleteRev(k)
  BY <1>1, <1>3 DEF DeleteRev, NoRev
<1>4. CASE \E b \in Bodies : PutResources(k, b)
  BY <1>1, <1>4, PorchAssumption DEF PutResources, Revs
<1>5. CASE ProposeRev(k) /\ revs[k].body # InitBody
  BY <1>1, <1>5 DEF ProposeRev, Revs
<1>6. CASE ApproveRev(k)
  <2>1. revs[k].body # InitBody
    BY <1>1, <1>6 DEF ApproveRev
  <2>2. revs'[j] = revs[j] \/ revs'[j].body = revs[k].body
    BY <1>6, ApproveBody
  <2>3. QED
    BY <1>1, <2>1, <2>2
<1>7. QED
  BY <1>2, <1>3, <1>4, <1>5, <1>6 DEF SafeCall

\* What other clients do to one revision keeps it filled, or starts it filled.
LEMMA DriftKeeps ==
    ASSUME revs \in [Keys -> Revs], NeverPublishInit, NEW k \in Keys, DriftRev(k)
    PROVE  /\ NeverPublishInit'
           /\ \A j \in Keys :
                (Exists(j) => revs[j].body # InitBody) =>
                (Exists(j)' => revs'[j].body # InitBody)
<1>1. revs[k] \in Revs
  OBVIOUS
<1>2. CASE revs[k].lc = "Proposed" /\ revs' = [revs EXCEPT ![k].lc = "Draft"]
  BY <1>1, <1>2 DEF NeverPublishInit, Exists, Revs
<1>3. CASE \E b \in Bodies : revs' = [revs EXCEPT ![k] = [lc |-> "Draft", body |-> b, own |-> FALSE]]
  BY <1>3, PorchAssumption DEF NeverPublishInit, Exists
<1>4. ASSUME \/ DeleteRev(k) \/ ApproveRev(k)
             \/ revs[k].body # InitBody /\ ProposeRev(k)
             \/ \E b \in Bodies : PutResources(k, b)
      PROVE  /\ NeverPublishInit'
             /\ \A j \in Keys :
                  (Exists(j) => revs[j].body # InitBody) =>
                  (Exists(j)' => revs'[j].body # InitBody)
  <2>1. NeverPublishInit'
    BY <1>4, SafeCallKeeps DEF SafeCall
  <2>2. ASSUME NEW j \in Keys, Exists(j) => revs[j].body # InitBody, Exists(j)'
        PROVE  revs'[j].body # InitBody
    <3>1. CASE DeleteRev(k)
      BY <2>2, <3>1 DEF DeleteRev, NoRev, Exists
    <3>2. CASE \E b \in Bodies : PutResources(k, b)
      BY <1>1, <2>2, <3>2, PorchAssumption DEF PutResources, Exists, Revs
    <3>3. CASE revs[k].body # InitBody /\ ProposeRev(k)
      BY <1>1, <2>2, <3>3 DEF ProposeRev, Exists, Revs
    <3>4. CASE ApproveRev(k)
      <4>1. revs[k].body # InitBody
        BY <3>4 DEF ApproveRev, NeverPublishInit
      <4>2. revs'[j] = revs[j] \/ revs'[j].body = revs[k].body
        BY <3>4, ApproveBody
      <4>3. QED
        BY <2>2, <4>1, <4>2 DEF Exists
    <3>5. QED
      BY <1>4, <3>1, <3>2, <3>3, <3>4
  <2>3. QED
    BY <2>1, <2>2
<1>5. QED
  BY <1>2, <1>3, <1>4 DEF DriftRev

-----------------------------------------------------------------------------
(***************************************************************************)
(* Steps of the workers.                                                   *)
(***************************************************************************)
LEMMA FilledOthers ==
    ASSUME TypeInv, NEW t \in Tenants, OwnCall(t), NEW x \in Tenants, x # t, Filled(x),
           pc'[x] = pc[x], w'[x] = w[x]
    PROVE  Filled(x)'
<1> SUFFICES ASSUME pc[x] \in ApprovePCs, revs'[w[x].sel].lc # "None"
             PROVE  revs'[w[x].sel].body # InitBody
  BY DEF Filled, Exists
<1>1. w[x].sel \in Keys /\ w[x].sel.pkg = x /\ revs \in [Keys -> Revs]
  BY DEF TypeInv, TypeOK, PorchTypeOK, SelInv, LocInv, SelPCs
<1>2. revs'[w[x].sel] = revs[w[x].sel]
  BY <1>1, PorchCallType DEF OwnCall
<1>3. QED
  BY <1>2 DEF Filled, Exists

\* A worker that is not about to propose or approve has nothing to show.
LEMMA FilledElsewhere ==
    ASSUME NEW x, pc'[x] \notin ApprovePCs
    PROVE  Filled(x)'
BY DEF Filled

LEMMA FilledReply ==
    ASSUME TypeInv, NEW t \in Tenants, NEW p \in PCs, Reply(t, p, w[t]),
           p \in ApprovePCs /\ Exists(w[t].sel)' => revs'[w[t].sel].body # InitBody
    PROVE  Filled(t)'
<1>1. w[t] \in Locals /\ WorkerTypeOK
  BY DEF TypeInv, TypeOK, WorkerTypeOK
<1>2. CASE Goto(t, p, w[t])
  <2>1. pc'[t] = p /\ w'[t] = w[t]
    BY <1>1, <1>2, GotoEffect
  <2>2. QED
    BY <2>1 DEF Filled, Exists
<1>3. CASE Abort(t)
  BY <1>3, AbortEffect, FilledElsewhere DEF ApprovePCs
<1>4. QED
  BY <1>2, <1>3 DEF Reply

\* The revision that is approved next is the one that was found equal.
LEMMA FilledCompare ==
    ASSUME TypeInv, NEW t \in Tenants, GetResources(t)
    PROVE  Filled(t)' /\ UNCHANGED revs
<1>1. /\ w[t] \in Locals /\ WorkerTypeOK
      /\ w[t].want \in Bodies /\ w[t].slc \in Lifecycles /\ w[t].sel \in Keys
  BY DEF TypeInv, TypeOK, WorkerTypeOK, SelInv, LocInv, GetResources, SelPCs, SyncPCs
<1>2. CASE Refuse(t)
  BY <1>2, AbortEffect, FilledElsewhere DEF Refuse, ApprovePCs
<1>3. CASE /\ Goto(t, Compare(w[t], revs[w[t].sel].body), w[t])
           /\ UNCHANGED <<revs, budget>>
  <2>1. Compare(w[t], revs[w[t].sel].body) \in PCs
    BY <1>1 DEF Compare, Approve, PCs, SyncPCs, ApprovePCs, Lifecycles
  <2>2. pc'[t] = Compare(w[t], revs[w[t].sel].body) /\ w'[t] = w[t]
    BY <1>1, <1>3, <2>1, GotoEffect
  <2>3. CASE revs[w[t].sel].body = w[t].want
    BY <1>1, <1>3, <2>2, <2>3, PorchAssumption DEF Filled
  <2>4. CASE revs[w[t].sel].body # w[t].want
    BY <1>3, <2>2, <2>4, FilledElsewhere DEF Compare, ApprovePCs
  <2>5. QED
    BY <1>3, <2>3, <2>4
<1>4. QED
  BY <1>2, <1>3 DEF GetResources

LEMMA FilledUpdate ==
    ASSUME TypeInv, NEW t \in Tenants, UpdateResources(t)
    PROVE  Filled(t)' /\ (UNCHANGED revs \/ \E k \in Keys : SafeCall(k))
<1>1. /\ w[t].want \in Bodies /\ w[t].slc \in Lifecycles /\ w[t].sel \in Keys
      /\ revs \in [Keys -> Revs]
  BY DEF TypeInv, TypeOK, PorchTypeOK, SelInv, LocInv, UpdateResources, SelPCs, SyncPCs
<1>2. CASE Refuse(t)
  BY <1>2, AbortEffect, FilledElsewhere DEF Refuse, ApprovePCs
<1>3. CASE PutResources(w[t].sel, w[t].want) /\ Reply(t, Approve(w[t].slc), w[t])
  <2>1. Approve(w[t].slc) \in PCs
    BY <1>1 DEF Approve, PCs, SyncPCs, ApprovePCs, Lifecycles
  <2>2. revs'[w[t].sel].body = w[t].want
    BY <1>1, <1>3 DEF PutResources, Revs
  <2>3. Filled(t)'
    BY <1>1, <1>3, <2>1, <2>2, FilledReply, PorchAssumption
  <2>4. QED
    BY <1>1, <1>3, <2>3 DEF SafeCall
<1>4. QED
  BY <1>2, <1>3 DEF UpdateResources

LEMMA FilledApprove ==
    ASSUME TypeInv, FillInv, NEW t \in Tenants,
           ApproveGet(t) \/ Propose(t) \/ ApprovalGet(t) \/ ApprovalPut(t)
    PROVE  Filled(t)' /\ (UNCHANGED revs \/ \E k \in Keys : SafeCall(k))
<1>1. /\ w[t] \in Locals /\ WorkerTypeOK /\ pc[t] \in ApprovePCs
      /\ w[t].sel \in Keys /\ revs \in [Keys -> Revs] /\ Filled(t)
  BY DEF TypeInv, TypeOK, PorchTypeOK, WorkerTypeOK, SelInv, LocInv, SelPCs, ApprovePCs, FillInv,
         ApproveGet, Propose, ApprovalGet, ApprovalPut
<1>2. ASSUME Refuse(t)
      PROVE  Filled(t)' /\ UNCHANGED revs
  BY <1>2, AbortEffect, FilledElsewhere DEF Refuse, ApprovePCs
<1>3. ASSUME NEW p \in PCs, Goto(t, p, w[t]), UNCHANGED revs
      PROVE  Filled(t)'
  <2>1. w'[t] = w[t]
    BY <1>1, <1>3, GotoEffect
  <2>2. QED
    BY <1>1, <1>3, <2>1 DEF Filled, Exists
<1>4. {"propose", "approvalGet", "approvalPut", "setReady"} \subseteq PCs
  BY DEF PCs, SyncPCs, ApprovePCs
<1>5. CASE ApproveGet(t) \/ ApprovalGet(t)
  BY <1>2, <1>3, <1>4, <1>5 DEF ApproveGet, ApprovalGet
<1>6. CASE Propose(t)
  <2>1. CASE ProposeRev(w[t].sel) /\ Reply(t, "approvalGet", w[t])
    <3>1. revs[w[t].sel].body # InitBody
      BY <1>1, <2>1 DEF Filled, Exists, ProposeRev
    <3>2. revs'[w[t].sel].body = revs[w[t].sel].body
      BY <1>1, <2>1 DEF ProposeRev, Revs
    <3>3. Filled(t)'
      BY <1>4, <2>1, <3>1, <3>2, FilledReply
    <3>4. QED
      BY <1>1, <2>1, <3>1, <3>3 DEF SafeCall
  <2>2. QED
    BY <1>2, <1>6, <2>1 DEF Propose
<1>7. CASE ApprovalPut(t)
  <2>1. CASE ApproveRev(w[t].sel) /\ Reply(t, "setReady", w[t])
    <3>1. Filled(t)'
      BY <1>4, <2>1, FilledReply DEF ApprovePCs
    <3>2. QED
      BY <1>1, <2>1, <3>1 DEF SafeCall
  <2>2. QED
    BY <1>2, <1>7, <2>1 DEF ApprovalPut
<1>8. QED
  BY <1>5, <1>6, <1>7

\* Delete, GetOrCreate up to the load of the resources, and Create.
LEMMA FilledEarly ==
    ASSUME TypeInv, NEW t \in Tenants,
           \/ DeleteList(t) \/ DeleteOne(t) \/ List(t) \/ CreateFirst(t) \/ CreateNext(t)
           \/ GetNewResources(t)
    PROVE  Filled(t)' /\ (UNCHANGED revs \/ \E k \in Keys : SafeCall(k))
<1> DEFINE Calm == UNCHANGED revs \/ \E k \in Keys : SafeCall(k)
<1>1. pc \in [Tenants -> PCs]
  BY DEF TypeInv, TypeOK, WorkerTypeOK
<1>2. ASSUME NEW p, NEW loc, Goto(t, p, loc), p \notin ApprovePCs
      PROVE  Filled(t)'
  BY <1>1, <1>2, FilledElsewhere DEF Goto
<1>3. ASSUME Abort(t)
      PROVE  Filled(t)'
  BY <1>3, AbortEffect, FilledElsewhere DEF ApprovePCs
<1>4. ASSUME NEW p, NEW loc, Reply(t, p, loc), p \notin ApprovePCs
      PROVE  Filled(t)'
  BY <1>2, <1>3, <1>4 DEF Reply
<1>5. CASE DeleteList(t)
  BY <1>2, <1>5 DEF DeleteList, DeleteNext, ApprovePCs
<1>6. CASE DeleteOne(t)
  <2>1. PICK k \in w[t].todo :
          LET rest == w[t].todo \ {k} IN
          \/ DeleteRev(k) /\ Reply(t, DeleteNext(rest), [w[t] EXCEPT !.todo = rest])
          \/ ~Exists(k) /\ Refuse(t)
    BY <1>6 DEF DeleteOne
  <2>2. k \in Keys
    BY DEF TypeInv, SelInv, LocInv
  <2>3. \A S : DeleteNext(S) \notin ApprovePCs
    BY DEF DeleteNext, ApprovePCs
  <2>4. QED
    BY <1>3, <1>4, <2>1, <2>2, <2>3 DEF Refuse, SafeCall
<1>7. CASE List(t)
  <2>1. "getResources" \notin ApprovePCs /\ "createFirst" \notin ApprovePCs
    BY DEF ApprovePCs
  <2>2. /\ UNCHANGED revs
        /\ (\E k \in Latest(t) : Select(t, k)) \/ Goto(t, "createFirst", w[t])
    BY <1>7 DEF List
  <2>3. CASE \E k \in Latest(t) : Select(t, k)
    BY <1>2, <2>1, <2>2, <2>3 DEF Select
  <2>4. CASE Goto(t, "createFirst", w[t])
    BY <1>2, <2>1, <2>2, <2>4
  <2>5. QED
    BY <2>2, <2>3, <2>4
<1>8. ASSUME NEW k \in Keys, NEW p, CreateAs(t, k, p), p \notin ApprovePCs
      PROVE  Filled(t)' /\ Calm
  BY <1>3, <1>4, <1>8 DEF CreateAs, Refuse, SafeCall
<1>9. CASE CreateFirst(t)
  <2>1. First(t) \in Keys
    BY <1>9, SyncKeys DEF CreateFirst, SyncPCs
  <2>2. QED
    BY <1>8, <1>9, <2>1 DEF CreateFirst, ApprovePCs
<1>10. CASE CreateNext(t)
  <2>1. Successor(t) \in Keys
    BY <1>10, SyncKeys DEF CreateNext
  <2>2. QED
    BY <1>8, <1>10, <2>1 DEF CreateNext, ApprovePCs
<1>11. CASE GetNewResources(t)
  BY <1>2, <1>3, <1>11 DEF GetNewResources, Refuse, ApprovePCs
<1>12. QED
  BY <1>5, <1>6, <1>7, <1>9, <1>10, <1>11

LEMMA FillPkgRevStep ==
    ASSUME TypeInv, FillInv, NEW t \in Tenants, PkgRevStep(t)
    PROVE  FillInv'
<1>1. Filled(t)' /\ (UNCHANGED revs \/ \E k \in Keys : SafeCall(k))
  BY FilledEarly, FilledCompare, FilledUpdate, FilledApprove DEF PkgRevStep
<1>2. NeverPublishInit'
  <2>1. revs \in [Keys -> Revs] /\ NeverPublishInit
    BY DEF TypeInv, TypeOK, PorchTypeOK, FillInv
  <2>2. QED
    BY <1>1, <2>1, SafeCallKeeps DEF NeverPublishInit
<1>3. OwnCall(t)
  BY PkgRevOutcome
<1>4. \A x \in Tenants \ {t} : pc'[x] = pc[x] /\ w'[x] = w[x]
  <2>1. PICK p, loc : StepTo(t, p, loc)
    BY PkgRevOutcome
  <2>2. QED
    BY <2>1, GotoEffect DEF StepTo, Outcome, TypeInv, TypeOK
<1>5. ASSUME NEW x \in Tenants, x # t
      PROVE  Filled(x)'
  BY <1>3, <1>4, <1>5, FilledOthers DEF FillInv
<1>6. QED
  BY <1>1, <1>2, <1>5 DEF FillInv

-----------------------------------------------------------------------------
(***************************************************************************)
(* The other steps leave the revisions alone, but for drift.               *)
(***************************************************************************)
LEMMA FillQuiet ==
    ASSUME FillInv, UNCHANGED revs,
           \A x \in Tenants : (pc'[x] = pc[x] /\ w'[x] = w[x]) \/ pc'[x] \notin ApprovePCs
    PROVE  FillInv'
<1>1. NeverPublishInit'
  BY DEF FillInv, NeverPublishInit
<1>2. ASSUME NEW x \in Tenants
      PROVE  Filled(x)'
  <2>1. CASE pc'[x] = pc[x] /\ w'[x] = w[x]
    BY <2>1 DEF FillInv, Filled, Exists
  <2>2. CASE pc'[x] \notin ApprovePCs
    BY <2>2, FilledElsewhere
  <2>3. QED
    BY <2>1, <2>2
<1>3. QED
  BY <1>1, <1>2 DEF FillInv

LEMMA FillGoto ==
    ASSUME TypeInv, FillInv, UNCHANGED revs, NEW t \in Tenants, NEW p, NEW loc,
           Goto(t, p, loc), p \notin ApprovePCs
    PROVE  FillInv'
<1>1. pc \in [Tenants -> PCs] /\ w \in [Tenants -> Locals]
  BY DEF TypeInv, TypeOK, WorkerTypeOK
<1>2. \A x \in Tenants : (pc'[x] = pc[x] /\ w'[x] = w[x]) \/ pc'[x] \notin ApprovePCs
  BY <1>1 DEF Goto
<1>3. QED
  BY <1>2, FillQuiet

LEMMA FillAbort ==
    ASSUME TypeInv, FillInv, UNCHANGED revs, NEW t \in Tenants, Abort(t)
    PROVE  FillInv'
BY FillGoto DEF Abort, ApprovePCs

LEMMA FillCall ==
    ASSUME TypeInv, FillInv, NEW t \in Tenants,
           \/ Begin(t) \/ AddFinalizer(t) \/ RemoveFinalizer(t) \/ SourceList(t) \/ SourceGet(t)
           \/ CallFails(t) \/ SetStatus(t)
    PROVE  FillInv'
<1>1. UNCHANGED revs
  BY DEF Begin, AddFinalizer, RemoveFinalizer, SourceList, SourceGet, CallFails, SetStatus
<1>2. ASSUME NEW v
      PROVE  AfterFinalizer(v) \notin ApprovePCs
  BY DEF AfterFinalizer, ApprovePCs
<1>3. ASSUME Finish(t)
      PROVE  FillInv'
  BY <1>1, <1>3, FillGoto DEF Finish, ApprovePCs
<1>4. CASE Begin(t)
  <2>1. CASE UNCHANGED <<pc, w>>
    BY <1>1, <2>1, FillQuiet
  <2>2. CASE Goto(t, IF Cached(t).fin THEN AfterFinalizer(Cached(t)) ELSE "addFinalizer",
                  NewLocal(Cached(t), cached[t]))
    <3>1. (IF Cached(t).fin THEN AfterFinalizer(Cached(t)) ELSE "addFinalizer") \notin ApprovePCs
      BY DEF AfterFinalizer, ApprovePCs
    <3>2. QED
      BY <1>1, <2>2, <3>1, FillGoto
  <2>3. QED
    BY <1>4, <2>1, <2>2 DEF Begin
<1>5. CASE AddFinalizer(t)
  BY <1>1, <1>2, <1>5, FillGoto, FillAbort DEF AddFinalizer, Reply
<1>6. CASE RemoveFinalizer(t)
  BY <1>1, <1>3, <1>6, FillAbort DEF RemoveFinalizer
<1>7. CASE SourceList(t)
  BY <1>1, <1>7, FillGoto, FillAbort DEF SourceList, ApprovePCs
<1>8. CASE SourceGet(t)
  BY <1>1, <1>8, FillGoto, FillAbort DEF SourceGet, ApprovePCs
<1>9. CASE CallFails(t)
  BY <1>1, <1>9, FillAbort DEF CallFails
<1>10. CASE SetStatus(t)
  BY <1>3, <1>10 DEF SetStatus
<1>11. QED
  BY <1>4, <1>5, <1>6, <1>7, <1>8, <1>9, <1>10

LEMMA FillRestart ==
    ASSUME FillInv, Restart
    PROVE  FillInv'
<1>1. UNCHANGED revs /\ \A x \in Tenants : pc'[x] \notin ApprovePCs
  BY DEF Restart, ApprovePCs
<1>2. QED
  BY <1>1, FillQuiet

LEMMA FillDrift ==
    ASSUME TypeInv, FillInv, Drift
    PROVE  FillInv'
<1>1. PICK k \in Keys : DriftRev(k)
  BY DEF Drift
<1>2. /\ revs \in [Keys -> Revs] /\ NeverPublishInit
      /\ UNCHANGED <<pc, w>>
  BY DEF TypeInv, TypeOK, PorchTypeOK, FillInv, Drift
<1>3. /\ NeverPublishInit'
      /\ \A j \in Keys :
           (Exists(j) => revs[j].body # InitBody) =>
           (Exists(j)' => revs'[j].body # InitBody)
  BY <1>1, <1>2, DriftKeeps
<1>4. ASSUME NEW x \in Tenants
      PROVE  Filled(x)'
  <2>1. pc[x] \in ApprovePCs => w[x].sel \in Keys
    BY DEF TypeInv, SelInv, LocInv, SelPCs
  <2>2. QED
    BY <1>2, <1>3, <2>1 DEF FillInv, Filled, Exists
<1>5. QED
  BY <1>3, <1>4 DEF FillInv

LEMMA FillNext ==
    ASSUME TypeInv, FillInv, [Next]_vars
    PROVE  FillInv'
<1>1. ASSUME UNCHANGED <<revs, pc, w>>
      PROVE  FillInv'
  BY <1>1, FillQuiet
<1>2. CASE UNCHANGED vars
  BY <1>1, <1>2 DEF vars
<1>3. ASSUME NEW t \in Tenants, Observe(t) \/ Fire(t) \/ UserStep(t)
      PROVE  FillInv'
  BY <1>1, <1>3 DEF Observe, Fire, UserStep
<1>4. ASSUME NEW t \in Tenants, Panic(t)
      PROVE  FillInv'
  BY <1>4, FillRestart DEF Panic
<1>5. CASE Crash
  BY <1>5, FillRestart DEF Crash
<1>6. CASE SourceStep
  BY <1>1, <1>6 DEF SourceStep, ChangeSource
<1>7. ASSUME NEW t \in Tenants, Call(t)
      PROVE  FillInv'
  BY <1>7, FillCall, FillPkgRevStep DEF Call
<1>8. QED
  BY <1>2, <1>3, <1>4, <1>5, <1>6, <1>7, FillCall, FillDrift DEF Next

LEMMA FillInit == Init => FillInv
<1> SUFFICES ASSUME Init
             PROVE  FillInv
  OBVIOUS
<1>1. NeverPublishInit
  BY DEF Init, PorchInit, NeverPublishInit, NoRev
<1>2. \A x \in Tenants : Filled(x)
  BY DEF Init, WorkerInit, Filled, ApprovePCs
<1>3. QED
  BY <1>1, <1>2 DEF FillInv

\* Wherever a Create or an Update is interrupted, and whatever the retries find,
\* the controller never proposes or approves a revision that still has the
\* content of the init task.
THEOREM NeverPublishInitCorrect == Spec => []NeverPublishInit
<1>1. Init => TypeInv /\ FillInv
  BY TypeInit, FillInit
<1>2. TypeInv /\ FillInv /\ [Next]_vars => (TypeInv /\ FillInv)'
  BY TypeNext, FillNext
<1>3. FillInv => NeverPublishInit
  BY DEF FillInv
<1>4. Spec => [](TypeInv /\ FillInv)
  BY <1>1, <1>2, PTL DEF Spec
<1>5. QED
  BY <1>3, <1>4, PTL
=============================================================================
